---------------------------- MODULE MemoryProofs -----------------------------
(***************************************************************************)
(* The theorems about Memory: frames and slots have one owner, pinned      *)
(* frames stay, and pages read as they were written. First the steps that  *)
(* remain: a page is loaded, reached by an instruction, a page fault or a  *)
(* system call, a victim is taken by evict_frame, a load fails.            *)
(***************************************************************************)
EXTENDS MemoryFrames, MemoryPages, MemoryValues

\* Page g of p is not present and may be loaded through the entry e: its own, or
\* a new one for a page the stack grows into.
MayLoad(p, g, e) ==
  /\ g \in Layout[p] /\ pte[p][g].f = None
  /\ pc[p] \in {"user", "sys"} /\ \A x \in Table : ~(x.pinned /\ x.p = p)
  /\ \/ e = spt[p][g] /\ e # None /\ ~e.loaded
     \/ spt[p][g] = None /\ Kind[g] = "grow" /\ e = spt_set_zero

\* spt_load_page up to frame_alloc.
LEMMA LoadStep ==
  ASSUME IInv, NEW p \in Proc, NEW g, NEW e, MayLoad(p, g, e),
         NEW again \in BOOLEAN, NEW then \in {"user", "pin_look", "sys"},
         spt_load_page(p, g, e, again, then), outcome \in Outcome, touches' \in [Proc -> Nat]
  PROVE  IInv'
<1> DEFINE r == [g |-> g, f |-> None, again |-> again, then |-> then]
<1>1. CASE \E q \in Evicting(p, g) : pc[q] \in {"evict_write", "swap_out", "evict_slot"}
  <2>1. StopIn("reload")
    BY <1>1, Zenon DEF spt_load_page
  <2> QED BY <2>1, StopStep, Outcomes, Zenon DEF StopIn, Windows
<1>2. CASE ~\E q \in Evicting(p, g) : pc[q] \in {"evict_write", "swap_out", "evict_slot"}
  <2>1. /\ spt' = [spt EXCEPT ![p][g] = e] /\ ld' = [ld EXCEPT ![p] = r]
        /\ pc' = [pc EXCEPT ![p] = "alloc"]
        /\ UNCHANGED <<pte, frameVars, content, swap, file, ev, outcome>>
    BY <1>2, Zenon DEF spt_load_page, Goto
  <2>2. /\ r \in Locals /\ r.g = g /\ r.then # "exit" /\ g \in Page /\ g \in Layout[p]
        /\ pc[p] \in {"user", "sys"}
    BY StackIn, Zenon DEF MayLoad, Locals
  <2>3. /\ e \in Entry /\ e # None /\ ~e.loaded /\ e.loaded = FALSE
        /\ Kind[g] = "map" <=> e.type = "MMAP"
        /\ Kind[g] = "code" => e.type = "FILE"
        /\ e.writable <=> Kind[g] # "code"
        /\ e.type = "SWAP" => e.slot \in Slot /\ spt[p][g] = e
    <3>1. CASE e = spt[p][g] /\ e # None /\ ~e.loaded
      <4>1. e \in Entry
        BY <2>2, <3>1, Types, Zenon DEF IInv
      <4> QED BY <2>2, <3>1, <4>1, Zenon DEF IInv, Kinds, KindOf, EvictKind, Entry
    <3>2. CASE spt[p][g] = None /\ Kind[g] = "grow" /\ e = spt_set_zero
      <4>1. e \in Entry
        BY <3>2, Zenon DEF spt_set_zero, NewEntry, Entry
      <4> QED BY <3>2, <4>1, NoneIsNothing, Zenon DEF spt_set_zero, NewEntry
    <3> QED BY <3>1, <3>2, Zenon DEF MayLoad
  <2>4. /\ pc' \in [Proc -> PC] /\ ld' \in [Proc -> Locals]
        /\ pc'[p] = "alloc" /\ ld'[p] = r
        /\ \A q \in Proc \ {p} : pc'[q] = pc[q] /\ ld'[q] = ld[q]
    BY <2>1, <2>2, LocalTypes, Zenon DEF PC, Loading, Seeking
  <2>5. /\ spt' \in [Proc -> [Page -> {None} \cup Entry]]
        /\ spt'[p][g] = e
        /\ \A q \in Proc, h \in Page : (q # p \/ h # g) => spt'[q][h] = spt[q][h]
    BY <2>1, <2>2, <2>3, Zenon DEF IInv, Typed, TypeOK
  <2>6. /\ pte' = pte /\ frame_table' = frame_table /\ clock_hand' = clock_hand
        /\ free_frames' = free_frames /\ content' = content /\ swap' = swap /\ file' = file
        /\ ev' = ev /\ outcome' = outcome /\ Table' = Table
    BY <2>1, Zenon DEF frameVars, Table
  <2>7. \A q \in Proc : /\ pc'[q] \in Busy \/ pc[q] \in Busy =>
                             pc'[q] = pc[q] /\ ld'[q] = ld[q] /\ q # p
                        /\ Hand(q)' <=> Hand(q)
                        /\ Alive(q)' <=> Alive(q)
    BY <2>2, <2>4, Zenon DEF Busy, Hand, Alive, InEvict
  <2>8. \A q \in Proc : pc[q] \in InEvict => ~(ev[q].p = p /\ ev[q].g = g)
    <3> SUFFICES ASSUME NEW q \in Proc, pc[q] \in InEvict, ev[q].p = p, ev[q].g = g
                 PROVE  FALSE
      BY Zenon
    <3>1. pc[q] \in {"evict_find", "evict_mark"}
      BY <1>2, Zenon DEF Evicting, InEvict
    <3>2. spt[p][g] # None /\ spt[p][g].loaded
      BY <2>2, <3>1, SMTT(30) DEF IInv, Evicts, EvictOf, OneEvictor
    <3> QED BY <3>2, Zenon DEF MayLoad
  <2>9. /\ IInv /\ pte[p][g].f = None
    BY Zenon DEF MayLoad
  <2> HIDE DEF r
  <2>10. Typed'
    <3>1. TypeOK'
      BY <2>4, <2>5, <2>6, Zenon DEF IInv, Typed, TypeOK, Locals
    <3> QED BY <2>2, <2>4, <2>6, <2>7, <3>1, Zenon
               DEF IInv, Typed, Loading, Unmapping, InEvict, Seeking
  <2>11. Distinct' /\ Partition'
    BY <2>6, <2>7, Zenon DEF IInv, Distinct, Partition
  <2>12. TableOwned' /\ Present'
    BY <2>4, <2>6, <2>7, <2>9, Refers, SMTT(30) DEF IInv, TableOwned, Present, Own, Busy
  <2>13. Filling'
    <3> SUFFICES ASSUME NEW q \in Proc
                 PROVE  (/\ pc[q] \in {"fill", "install", "record"} => Own(q, ld[q].g, ld[q].f)
                         /\ pc[q] \in Seeking \cup {"fill", "install", "unmap_remove"} =>
                              pte[q][ld[q].g].f = None
                         /\ pc[q] = "record" => pte[q][ld[q].g].f = ld[q].f
                         /\ pc[q] = "unmap_clear" => \A x \in Table : ~(x.p = q /\ x.g = ld[q].g))'
      BY Zenon DEF Filling
    <3>1. CASE q = p
      BY <2>2, <2>4, <2>6, <2>9, <3>1, Zenon DEF Seeking, InEvict
    <3>2. CASE q # p
      <4>1. pc'[q] = pc[q] /\ ld'[q] = ld[q]
        BY <2>4, <3>2, Zenon
      <4>2. /\ pc[q] \in {"fill", "install", "record"} => Own(q, ld[q].g, ld[q].f)
            /\ pc[q] \in Seeking \cup {"fill", "install", "unmap_remove"} =>
                 pte[q][ld[q].g].f = None
            /\ pc[q] = "record" => pte[q][ld[q].g].f = ld[q].f
            /\ pc[q] = "unmap_clear" => \A x \in Table : ~(x.p = q /\ x.g = ld[q].g)
        BY Zenon DEF IInv, Filling
      <4>3. Own(q, ld[q].g, ld[q].f)' <=> Own(q, ld[q].g, ld[q].f)
        BY <2>6, <4>1, Zenon DEF Own
      <4> QED BY <2>6, <4>1, <4>2, <4>3, Zenon
    <3> QED BY <3>1, <3>2, Zenon
  <2>14. HasEntry'
    <3> SUFFICES ASSUME NEW q \in Proc, NEW h \in Page PROVE EntryOf(q, h)'
      BY Zenon DEF HasEntry
    <3>1. EntryOf(q, h) /\ pte'[q][h] = pte[q][h] /\ ev' = ev
      BY <2>6, Zenon DEF IInv, HasEntry
    <3>2. \A t \in Proc : pc[t] \in {"evict_find", "evict_mark"} => pc'[t] = pc[t]
      BY <2>2, <2>4, Zenon
    <3>3. CASE q = p /\ h = g
      BY <2>3, <2>5, <2>6, <2>9, <3>3, Zenon DEF EntryOf
    <3>4. CASE q = p /\ h # g
      <4>1. spt'[q][h] = spt[q][h] /\ ld'[q].g = g
        BY <2>2, <2>4, <2>5, <3>4, Zenon
      <4> QED BY <2>2, <3>1, <3>2, <3>4, <4>1, Zenon DEF EntryOf
    <3>5. CASE q # p
      <4>1. spt'[q][h] = spt[q][h] /\ ld'[q] = ld[q] /\ pc'[q] = pc[q]
        BY <2>4, <2>5, <3>5, Zenon
      <4> QED BY <3>1, <3>2, <4>1, Zenon DEF EntryOf
    <3> QED BY <3>3, <3>4, <3>5, Zenon
  <2>15. Ends'
    <3>1. EndOf(p)'
      BY <2>4, Zenon DEF EndOf, Unmapping, Ending
    <3>2. \A q \in Proc \ {p} : EndOf(q)'
      <4> TAKE q \in Proc \ {p}
      <4>1. pc'[q] = pc[q] /\ ld'[q] = ld[q] /\ \A h \in Page : spt'[q][h] = spt[q][h]
        BY <2>4, <2>5, Zenon
      <4>2. EndOf(q) /\ ld[q].g \in Page
        BY LocalTypes, Zenon DEF IInv, Ends
      <4>3. \A t \in Proc : pc'[t] \in InEvict => pc[t] \in InEvict
        BY <2>7, Zenon DEF Busy
      <4> QED BY <2>6, <4>1, <4>2, <4>3, Zenon DEF EndOf
    <3> QED BY <3>1, <3>2, Zenon DEF Ends
  <2>16. Evicts'
    <3>1. \A q \in Proc : pc'[q] \in InEvict => pc[q] \in InEvict /\ pc'[q] = pc[q]
      BY <2>7, Zenon DEF Busy
    <3>2. OneEvictor'
      BY <2>6, <3>1, Zenon DEF IInv, Evicts, OneEvictor
    <3>3. \A q, o \in Proc, h \in Page : EvictOf(q, o, h)'
      <4> TAKE q, o \in Proc, h \in Page
      <4>1. EvictOf(q, o, h)
        BY Zenon DEF IInv, Evicts
      <4>2. CASE o = p /\ h = g
        BY <2>6, <2>8, <3>1, <4>2, Zenon DEF EvictOf
      <4>3. CASE o # p \/ h # g
        BY <2>2, <2>4, <2>5, <2>6, <3>1, <4>1, <4>3, Zenon DEF EvictOf
      <4> QED BY <4>2, <4>3, Zenon
    <3> QED BY <3>2, <3>3, Zenon DEF Evicts
  <2>17. Kinds'
    <3>1. KindOf(p, g)'
      <4>1. KindOf(p, g)
        BY <2>2, Zenon DEF IInv, Kinds
      <4> QED BY <2>2, <2>3, <2>5, <2>6, <4>1, Zenon DEF KindOf
    <3>2. \A q \in Proc, h \in Page : (q # p \/ h # g) => KindOf(q, h)'
      BY <2>5, <2>6, SMTT(30) DEF IInv, Kinds, KindOf
    <3>3. \A q \in Proc : EvictKind(q)'
      BY <2>6, <2>7, Zenon DEF IInv, Kinds, EvictKind, Busy, InEvict
    <3> QED BY <3>1, <3>2, <3>3, Zenon DEF Kinds
  <2>18. FrameContents'
    <3> SUFFICES ASSUME NEW x \in Table PROVE FrameHolds(x)'
      BY <2>6, Zenon DEF FrameContents
    <3>1. x.p \in Proc /\ x.g \in Page /\ FrameHolds(x)
      BY Refers, Zenon DEF IInv, FrameContents
    <3>2. /\ pc'[x.p] = "install" => pc[x.p] = "install" /\ ld'[x.p] = ld[x.p] /\ x.p # p
          /\ pc'[x.p] = "unmap_free" => pc[x.p] = "unmap_free" /\ ld'[x.p] = ld[x.p]
      BY <2>4, <2>7, <3>1, Zenon DEF Busy
    <3> QED BY <2>5, <2>6, <3>1, <3>2, Zenon DEF FrameHolds
  <2>19. EvictContents'
    BY <2>6, <2>7, Zenon DEF IInv, EvictContents, EvictHolds, Busy
  <2>20. Swapped'
    <3>1. \A q \in Proc, h \in Page : Resting(q, h)' => Resting(q, h)
      BY <2>3, <2>4, <2>5, <2>6, <2>7, SMTT(30) DEF Resting, NoEvictor, Busy, InEvict
    <3>2. \A q \in Proc, h \in Page : Resting(q, h)' => spt'[q][h] = spt[q][h]
      BY <2>3, <2>5, Zenon DEF Resting
    <3>3. \A q \in Proc, h \in Page : SlotHolds(q, h)'
      BY <2>6, <2>7, <3>1, <3>2, Zenon DEF IInv, Swapped, SlotHolds
    <3>4. \A q \in Proc : EvictSlots(q)'
      BY <2>6, <2>7, Refers, ZenonT(30) DEF IInv, Swapped, EvictSlots, Busy, InEvict
    <3> QED BY <3>3, <3>4, Zenon DEF Swapped
  <2>21. Claims'
    <3>1. \A q \in Proc, h \in Page : Resting(q, h) => Resting(q, h)' /\ spt'[q][h] = spt[q][h]
      <4> SUFFICES ASSUME NEW q \in Proc, NEW h \in Page, Resting(q, h)
                   PROVE  Resting(q, h)' /\ spt'[q][h] = spt[q][h]
        BY Zenon
      <4>1. spt'[q][h] = spt[q][h]
        BY <2>5, Zenon DEF Resting, MayLoad
      <4> QED BY <2>4, <2>6, <2>7, <4>1, Zenon DEF Resting, NoEvictor, Busy
    <3>2. \A q \in Proc : pc[q] = "evict_slot" => pc'[q] = "evict_slot"
      BY <2>7, Zenon DEF Busy, InEvict
    <3> QED BY <2>6, <3>1, <3>2, SMTT(30) DEF IInv, Claims, ClaimOf
  <2>22. Pins'
    <3>1. \A x \in Table : x.pinned => x.p # p
      BY Zenon DEF MayLoad
    <3>2. ASSUME NEW x \in Table, x.pinned
          PROVE  pc'[x.p] \in {"sys", "unpin", "unpin_walk"} /\ ld'[x.p].f = x.f /\ ld'[x.p].g = x.g
      <4>1. x.p \in Proc \ {p}
        BY <3>1, <3>2, Refers, Zenon
      <4>2. pc[x.p] \in {"sys", "unpin", "unpin_walk"} /\ ld[x.p].f = x.f /\ ld[x.p].g = x.g
        BY <3>2, Zenon DEF IInv, Pins
      <4>3. pc'[x.p] = pc[x.p] /\ ld'[x.p] = ld[x.p]
        BY <2>4, <4>1, Zenon
      <4> QED BY <4>2, <4>3, Zenon
    <3>3. ASSUME NEW q \in Proc, pc'[q] = "sys", ld'[q].f # None
          PROVE  \E x \in Table : x.p = q /\ x.g = ld'[q].g /\ x.f = ld'[q].f /\ x.pinned
      <4>1. pc'[q] = pc[q] /\ ld'[q] = ld[q]
        BY <2>4, <3>3, Zenon
      <4>2. pc[q] = "sys" /\ ld[q].f # None
        BY <3>3, <4>1, Zenon
      <4>3. \E x \in Table : x.p = q /\ x.g = ld[q].g /\ x.f = ld[q].f /\ x.pinned
        BY <4>2, Zenon DEF IInv, Pins
      <4> QED BY <4>1, <4>3, Zenon
    <3> QED BY <2>6, <3>2, <3>3, Zenon DEF Pins
  <2> QED BY <2>10, <2>11, <2>12, <2>13, <2>14, <2>15, <2>16, <2>17, <2>18, <2>19, <2>20, <2>21,
             <2>22, Zenon DEF IInv
<1> QED BY <1>1, <1>2, Zenon

\* pagedir_set_page fails and the frame goes back.
LEMMA FailStep ==
  ASSUME IInv, NEW p \in Proc, pagedir_set_page_fails(p)
  PROVE  IInv'
<1>1. PICK g, f, l, r : /\ g = ld[p].g /\ f = ld[p].f /\ r = [ld[p] EXCEPT !.again = FALSE, !.f = None]
                        /\ l = IF ld[p].again THEN "alloc"
                               ELSE IF ld[p].then = "pin_look" THEN "sys" ELSE "exit"
  BY Zenon
<1>2. pc[p] = "install" /\ spt[p][g].type # "SWAP" /\ l \in {"alloc", "sys", "exit"}
  BY <1>1, Zenon DEF pagedir_set_page_fails, Running
<1>3. CASE Walked(p)
  <2>1. Stop("walk")
    BY <1>3, Zenon DEF pagedir_set_page_fails
  <2> QED BY <2>1, StopsStep, Outcomes, Zenon DEF Windows
<1>4. CASE ~Walked(p)
  <2>1. /\ frame_free(f) /\ pc' = [pc EXCEPT ![p] = l]
        /\ ld' = [ld EXCEPT ![p].again = FALSE, ![p].f = None]
        /\ UNCHANGED <<spt, pte, swap, file, ev, touches, outcome>>
    BY <1>1, <1>4, Zenon DEF pagedir_set_page_fails, LoadFails, Goto
  <2>2. /\ g \in Page /\ g \in Layout[p] /\ f \in Frame /\ f # None /\ Own(p, g, f)
        /\ pte[p][g].f = None /\ spt[p][g] # None /\ ~spt[p][g].loaded /\ NoEvictor(p, g)
        /\ \A x \in Table : x.p = p /\ x.g = g => x.f = f
        /\ \A x \in Table : x.f = f => x.p = p /\ x.g = g
    BY <1>1, <1>2, Fills, Zenon
  <2>3. PICK x0 \in Table : x0.p = p /\ x0.g = g /\ x0.f = f
    BY <2>2, Zenon DEF Own
  <2>4. /\ pc' \in [Proc -> PC] /\ pc'[p] = l /\ ld' \in [Proc -> Locals]
        /\ ld'[p].f = None /\ ld'[p].g = g /\ ld'[p].then = ld[p].then /\ ld[p].then # "exit"
        /\ \A q \in Proc \ {p} : pc'[q] = pc[q] /\ ld'[q] = ld[q]
    <3>1. ld' = [ld EXCEPT ![p] = r] /\ ld[p] \in Locals
      BY <1>1, <2>1, LocalTypes, Zenon
    <3>2. r \in Locals /\ r.f = None /\ r.g = ld[p].g /\ r.then = ld[p].then
      BY <1>1, <3>1, Zenon DEF Locals
    <3>3. ld[p].then # "exit"
      BY <1>2, Zenon DEF IInv, Typed, Loading
    <3> QED BY <1>1, <1>2, <2>1, <3>1, <3>2, <3>3, LocalTypes, ZenonT(30) DEF PC, Loading, Seeking
  <2>5. /\ spt' = spt /\ pte' = pte /\ swap' = swap /\ file' = file
        /\ ev' = ev /\ touches' = touches /\ outcome' = outcome
    BY <2>1, Zenon
  <2>6. /\ pc[p] \in Loading
        /\ \A q \in Proc : /\ pc'[q] \in Loading => pc[q] \in Loading /\ ld'[q].g = ld[q].g
                           /\ pc'[q] \in Unmapping => pc'[q] = pc[q] /\ ld'[q] = ld[q]
                           /\ pc'[q] \in InEvict <=> pc[q] \in InEvict
                           /\ pc[q] \in InEvict => pc'[q] = pc[q]
                           /\ Hand(q)' <=> Hand(q)
                           /\ Alive(q)' => Alive(q)
    BY <1>1, <1>2, <2>4, <2>5, Zenon DEF InEvict, Loading, Seeking, Hand, Alive, Unmapping
  <2>7. SameHands
    BY <2>5, <2>6, Zenon DEF SameHands
  <2>8. /\ frame_table' \in Seq(FrameEntry) /\ Distinct' /\ Partition' /\ Table' = Table \ {x0}
        /\ clock_hand' \in Frame \cup {None, Stale} /\ free_frames' \subseteq Frame
        /\ content' \in [Frame -> {None} \cup Contents]
        /\ \A y \in Table' : content'[y.f] = content[y.f]
        /\ \A q \in Proc : pc[q] \in InEvict => content'[ev[q].f] = content[ev[q].f]
    BY <2>1, <2>3, <2>7, Freed, Zenon
  <2>9. \A x \in Table' : x \in Table /\ x.p \in Proc /\ x.g \in Page /\ (x.p # p \/ x.g # g)
    BY <2>2, <2>3, <2>8, Refers, Unique, Zenon DEF IInv
  <2>10. \A q, h, k : Own(q, h, k) /\ (q # p \/ h # g) => Own(q, h, k)'
    BY <2>3, <2>8, Zenon DEF Own
  <2>11. Typed'
    <3>1. TypeOK'
      BY <2>4, <2>5, <2>8, Zenon DEF IInv, Typed, TypeOK, FrameEntry, Locals
    <3>2. \A q \in Proc : (/\ ld[q].g \in Layout[q]
                           /\ pc[q] \in Loading => ld[q].then # "exit"
                           /\ pc[q] \in Unmapping => ld[q].then \in {"user", "exit"})'
      BY <2>2, <2>4, <2>6, Zenon DEF IInv, Typed
    <3>3. \A q \in Proc : (Hand(q) <=> ev[q] # None)'
      BY <2>5, <2>6, Zenon DEF IInv, Typed
    <3> QED BY <2>4, <3>1, <3>2, <3>3, Zenon DEF Typed
  <2>12. TableOwned'
    BY <1>1, <2>4, <2>5, <2>9, SMTT(30) DEF IInv, TableOwned
  <2>13. Present'
    <3> SUFFICES ASSUME NEW q \in Proc, NEW h \in Page, pte[q][h].f # None
                 PROVE  Own(q, h, pte[q][h].f)' \/ (pc'[q] = "unmap_clear" /\ ld'[q].g = h)
      BY <2>5, Zenon DEF Present
    <3>1. q # p \/ h # g
      BY <2>2, Zenon
    <3>2. PICK k : k = pte[q][h].f /\ k = pte'[q][h].f
      BY <2>5, Zenon
    <3>3. Own(q, h, k) \/ (pc[q] = "unmap_clear" /\ ld[q].g = h)
      BY <3>2, ZenonT(30) DEF IInv, Present
    <3>4. Own(q, h, k)' <=> Own(q, h, pte[q][h].f)'
      BY <3>2, Zenon DEF Own
    <3> QED BY <1>2, <2>4, <2>10, <3>1, <3>3, <3>4, Zenon
  <2>14. Filling'
    <3> SUFFICES ASSUME NEW q \in Proc
                 PROVE  (/\ pc[q] \in {"fill", "install", "record"} => Own(q, ld[q].g, ld[q].f)
                         /\ pc[q] \in Seeking \cup {"fill", "install", "unmap_remove"} =>
                              pte[q][ld[q].g].f = None
                         /\ pc[q] = "record" => pte[q][ld[q].g].f = ld[q].f
                         /\ pc[q] = "unmap_clear" => \A x \in Table : ~(x.p = q /\ x.g = ld[q].g))'
      BY Zenon DEF Filling
    <3>1. CASE q = p
      BY <1>2, <2>2, <2>4, <2>5, <3>1, Zenon
    <3>2. CASE q # p
      <4>1. pc'[q] = pc[q] /\ ld'[q] = ld[q]
        BY <2>4, <3>2, Zenon
      <4>2. Own(q, ld[q].g, ld[q].f) => Own(q, ld[q].g, ld[q].f)'
        BY <2>3, <2>8, <3>2, <4>1, Zenon DEF Own
      <4> QED BY <2>5, <2>9, <4>1, <4>2, SMTT(30) DEF IInv, Filling
    <3> QED BY <3>1, <3>2, Zenon
  <2>15. HasEntry'
    <3> SUFFICES ASSUME NEW q \in Proc, NEW h \in Page PROVE EntryOf(q, h)'
      BY Zenon DEF HasEntry
    <3>1. EntryOf(q, h)
      BY Zenon DEF IInv, HasEntry
    <3>2. pc[q] = "record" => pc'[q] = "record" /\ ld'[q] = ld[q]
      BY <1>2, <2>4, Zenon
    <3>3. \A o \in Proc : pc[o] \in {"evict_find", "evict_mark"} => pc'[o] = pc[o]
      BY <1>2, <2>4, Zenon
    <3> QED BY <2>5, <2>6, <3>1, <3>2, <3>3, Zenon DEF EntryOf
  <2>16. Ends'
    <3> SUFFICES ASSUME NEW q \in Proc PROVE EndOf(q)'
      BY Zenon DEF Ends
    <3>1. CASE q = p
      BY <1>2, <2>4, <3>1, Zenon DEF EndOf, Ending, Unmapping
    <3>2. CASE q # p
      <4>1. EndOf(q) /\ pc'[q] = pc[q] /\ ld'[q] = ld[q]
        BY <2>4, <3>2, Zenon DEF IInv, Ends
      <4>2. \A o \in Proc : pc'[o] \in InEvict => pc[o] \in InEvict
        BY <2>6, Zenon
      <4> QED BY <2>5, <4>1, <4>2, Zenon DEF EndOf
    <3> QED BY <3>1, <3>2, Zenon
  <2>17. Evicts'
    BY <2>5, <2>6, SMTT(30) DEF IInv, Evicts, EvictOf, OneEvictor
  <2>18. Kinds'
    <3>1. \A q \in Proc, h \in Page : KindOf(q, h)'
      BY <2>5, Zenon DEF IInv, Kinds, KindOf
    <3>2. \A q \in Proc : EvictKind(q)'
      BY <1>2, <2>4, <2>5, <2>6, ZenonT(30) DEF IInv, Kinds, EvictKind
    <3> QED BY <3>1, <3>2, Zenon DEF Kinds
  <2>19. FrameContents'
    <3> SUFFICES ASSUME NEW x \in Table' PROVE FrameHolds(x)'
      BY Zenon DEF FrameContents
    <3>1. x.p \in Proc /\ x.g \in Page /\ FrameHolds(x) /\ content'[x.f] = content[x.f]
      BY <2>8, <2>9, Zenon DEF IInv, FrameContents
    <3>2. pc'[x.p] \in {"install", "unmap_free"} => pc[x.p] = pc'[x.p] /\ ld'[x.p] = ld[x.p]
      BY <1>2, <2>4, <3>1, Zenon
    <3> QED BY <2>5, <3>1, <3>2, Zenon DEF FrameHolds, Is
  <2>20. EvictContents'
    <3> SUFFICES ASSUME NEW q \in Proc, pc'[q] \in InEvict PROVE EvictHolds(q)'
      BY Zenon DEF EvictContents, EvictHolds
    <3>1. pc[q] \in InEvict /\ EvictHolds(q) /\ content'[ev[q].f] = content[ev[q].f]
      BY <2>6, <2>8, Zenon DEF IInv, EvictContents
    <3> QED BY <2>5, <3>1, Zenon DEF EvictHolds, Is
  <2>21. \A q \in Proc, h \in Page : Resting(q, h)' <=> Resting(q, h)
    <3> SUFFICES ASSUME NEW q \in Proc, NEW h \in Page PROVE Resting(q, h)' <=> Resting(q, h)
      BY Zenon
    <3>1. NoEvictor(q, h)' <=> NoEvictor(q, h)
      BY <2>5, <2>6, Zenon DEF NoEvictor
    <3>2. CASE q = p /\ h = g
      BY <1>2, <2>5, <3>2, Zenon DEF Resting
    <3>3. CASE q # p \/ h # g
      <4>1. pc'[q] \in {"install", "record"} /\ ld'[q].g = h
              <=> pc[q] \in {"install", "record"} /\ ld[q].g = h
        BY <1>1, <1>2, <2>4, <3>3, Zenon
      <4> QED BY <2>5, <3>1, <4>1, Zenon DEF Resting
    <3> QED BY <3>2, <3>3, Zenon
  <2>22. Swapped'
    <3>1. \A q \in Proc, h \in Page : SlotHolds(q, h)'
      BY <2>5, <2>6, <2>21, Zenon DEF IInv, Swapped, SlotHolds
    <3>2. ASSUME NEW q \in Proc, pc'[q] = "evict_slot"
          PROVE  (ev[q].slot \in Slot /\ (Alive(ev[q].p) => swap[ev[q].slot] = content[ev[q].f]))'
      <4>1. pc[q] = "evict_slot" /\ pc[q] \in InEvict
        BY <1>2, <2>4, <3>2, Zenon DEF InEvict
      <4>2. ev[q].p \in Proc /\ EvictSlots(q)
        BY <4>1, Refers, Zenon DEF IInv, Swapped
      <4>3. Alive(ev[q].p)' => Alive(ev[q].p)
        BY <1>2, <2>4, <2>5, <4>2, Zenon DEF Alive
      <4> QED BY <2>5, <2>8, <4>1, <4>2, <4>3, Zenon DEF EvictSlots
    <3> QED BY <3>1, <3>2, Zenon DEF Swapped, EvictSlots
  <2>23. Claims'
    <3> SUFFICES ASSUME NEW s \in Slot \ {0}, NEW q \in Proc, NEW h \in Page PROVE ClaimOf(s, q, h)'
      BY Zenon DEF Claims
    <3>1. ClaimOf(s, q, h)
      BY Zenon DEF IInv, Claims
    <3>2. \A o \in Proc : pc[o] = "evict_slot" => pc'[o] = "evict_slot"
      BY <1>2, <2>4, Zenon
    <3> QED BY <2>5, <2>21, <3>1, <3>2, Zenon DEF ClaimOf
  <2>24. Pins'
    <3>1. ASSUME NEW x \in Table', x.pinned
          PROVE  /\ pc'[x.p] \in {"sys", "unpin", "unpin_walk"}
                 /\ ld'[x.p].f = x.f /\ ld'[x.p].g = x.g
      <4>1. /\ x.p \in Proc /\ pc[x.p] \in {"sys", "unpin", "unpin_walk"}
            /\ ld[x.p].f = x.f /\ ld[x.p].g = x.g
        BY <2>9, <3>1, Zenon DEF IInv, Pins
      <4> QED BY <1>2, <2>4, <4>1, Zenon
    <3>2. ASSUME NEW q \in Proc, pc'[q] = "sys", ld'[q].f # None
          PROVE  \E x \in Table' : x.p = q /\ x.g = ld'[q].g /\ x.f = ld'[q].f /\ x.pinned
      <4>1. q # p /\ pc[q] = "sys" /\ ld'[q] = ld[q]
        BY <2>4, <3>2, Zenon
      <4>2. PICK x \in Table : x.p = q /\ x.g = ld[q].g /\ x.f = ld[q].f /\ x.pinned
        BY <3>2, <4>1, Zenon DEF IInv, Pins
      <4> QED BY <2>3, <2>8, <4>1, <4>2, Zenon
    <3> QED BY <3>1, <3>2, Zenon DEF Pins
  <2> QED BY <2>8, <2>11, <2>12, <2>13, <2>14, <2>15, <2>16, <2>17, <2>18, <2>19, <2>20, <2>22,
             <2>23, <2>24, Zenon DEF IInv
<1> QED BY <1>3, <1>4, Zenon

\* A page fault, in the program or in the system call on its buffer.
LEMMA FaultStep ==
  ASSUME IInv, NEW p \in Proc, NEW g \in Layout[p], ~Mapped(p, g),
         pc[p] = "user" \/ (pc[p] = "sys" /\ g = ld[p].g),
         NEW l \in {"user", "sys"}, page_fault(p, g, l), touches' \in [Proc -> Nat]
  PROVE  IInv'
<1>1. pc[p] = "user" \/ (pc[p] = "sys" /\ ~Mapped(p, ld[p].g))
  BY Zenon
<1>2. /\ \A x \in Table : ~(x.pinned /\ x.p = p)
      /\ pte[p][g].f = None /\ pc[p] \in {"user", "sys"} /\ outcome \in Outcome
  BY <1>1, NoPins, LocalTypes, Zenon DEF Mapped, pagedir_get_page
<1>3. CASE spt[p][g] = None /\ Kind[g] = "grow"
  <2>1. spt_load_page(p, g, spt_set_zero, TRUE, l)
    BY <1>3, Zenon DEF page_fault, spt_get_entry
  <2>2. MayLoad(p, g, spt_set_zero)
    BY <1>2, <1>3, Zenon DEF MayLoad
  <2> HIDE DEF spt_set_zero
  <2> QED BY <1>2, <2>1, <2>2, LoadStep, Zenon
<1>4. CASE spt[p][g] # None /\ ~spt[p][g].loaded
  <2>1. PICK e : e = spt[p][g]
    BY Zenon
  <2>2. spt_load_page(p, g, e, FALSE, l)
    BY <1>4, <2>1, Zenon DEF page_fault, spt_get_entry
  <2>3. MayLoad(p, g, e)
    BY <1>2, <1>4, <2>1, Zenon DEF MayLoad
  <2> QED BY <1>2, <2>2, <2>3, LoadStep, Zenon
<1>5. CASE ~(spt[p][g] = None /\ Kind[g] = "grow") /\ ~(spt[p][g] # None /\ ~spt[p][g].loaded)
  <2>1. /\ pc' = [pc EXCEPT ![p] = "exit"]
        /\ UNCHANGED <<spt, pte, frameVars, content, swap, file, ld, ev, outcome>>
    BY <1>5, Zenon DEF page_fault, spt_get_entry, Goto
  <2>2. UNCHANGED <<spt, pte, frameVars, content, swap, file, ev, ld>> /\ outcome' \in Outcome
    BY <1>2, <2>1, Zenon
  <2> QED BY <1>1, <2>1, <2>2, Killed, Zenon
<1> QED BY <1>3, <1>4, <1>5, Zenon

\* An access to a page that is present, by the program or by the system call
\* that then goes on to unpin the frame.
LEMMA ReachStep ==
  ASSUME IInv, NEW p \in Proc, NEW g \in Page, Mapped(p, g), Reach(p, g),
         \/ pc[p] = "user" /\ pc' = pc /\ ld' = ld
         \/ /\ pc[p] = "sys" /\ g = ld[p].g /\ pc' = [pc EXCEPT ![p] = "unpin"]
            /\ ld' = [ld EXCEPT ![p].f = pte[p][g].f],
         UNCHANGED <<spt, frameVars, swap, file, ev, outcome>>, touches' \in [Proc -> Nat]
  PROVE  IInv'
<1>1. PICK f : f = pte[p][g].f
  BY Zenon
<1>2. f # None /\ Own(p, g, f)
  BY <1>1, Zenon DEF Mapped, pagedir_get_page, IInv, Present
<1>3. PICK x0 \in Table : x0.p = p /\ x0.g = g /\ x0.f = f
  BY <1>2, Zenon DEF Own
<1>4. /\ f \in Frame /\ content[f] \in Contents /\ Is(p, g, content[f]) /\ NoEvictor(p, g)
      /\ \A x \in Table : x.p = p /\ x.g = g => x.f = f
  BY <1>2, Registered, Zenon
<1>5. \A x \in Table : x.f = f => x.p = p /\ x.g = g
  BY <1>3, Unique, Zenon DEF IInv
<1>6. /\ pte' \in [Proc -> [Page -> [f : Frame \cup {None}, A : BOOLEAN, D : BOOLEAN]]]
      /\ pte'[p][g].f = f /\ (pte'[p][g].D <=> pte[p][g].D \/ Kind[g] # "code")
      /\ \A q \in Proc, h \in Page : (q # p \/ h # g) => pte'[q][h] = pte[q][h]
  <2>1. PICK e : e = [pte[p][g] EXCEPT !.A = TRUE, !.D = @ \/ Kind[g] # "code"]
    BY Zenon
  <2>2. pte \in [Proc -> [Page -> [f : Frame \cup {None}, A : BOOLEAN, D : BOOLEAN]]]
    BY Zenon DEF IInv, Typed, TypeOK
  <2>3. pte[p][g] \in [f : Frame \cup {None}, A : BOOLEAN, D : BOOLEAN]
    BY <2>2, Zenon
  <2>4. pte' = [pte EXCEPT ![p] = [pte[p] EXCEPT ![g] = e]]
    BY <2>1, <2>2, ZenonT(30) DEF Reach
  <2>5. /\ e \in [f : Frame \cup {None}, A : BOOLEAN, D : BOOLEAN] /\ e.f = f
        /\ (e.D <=> pte[p][g].D \/ Kind[g] # "code")
    BY <1>1, <2>1, <2>3, Zenon
  <2> QED BY <2>2, <2>4, <2>5, Zenon
<1>7. \A q \in Proc, h \in Page : pte'[q][h].f = pte[q][h].f
  BY <1>1, <1>6, Zenon
<1>8. /\ content' \in [Frame -> {None} \cup Contents] /\ content'[f] \in Contents
      /\ Is(p, g, content'[f]) /\ (Kind[g] = "code" => content'[f] = content[f])
      /\ \A k \in Frame \ {f} : content'[k] = content[k]
  <2>1. content \in [Frame -> {None} \cup Contents]
    BY Zenon DEF IInv, Typed, TypeOK
  <2>2. CASE Kind[g] = "code"
    BY <1>4, <2>1, <2>2, Zenon DEF Reach
  <2>3. CASE Kind[g] # "code"
    <3>1. content' = [content EXCEPT ![f] = <<p, g, 1>>]
      BY <1>1, <2>3, Zenon DEF Reach
    <3>2. <<p, g, 1>> \in Contents /\ Is(p, g, <<p, g, 1>>)
      BY NoneIsNothing, SMTT(30) DEF Contents, Is
    <3> QED BY <1>4, <2>1, <2>3, <3>1, <3>2, Zenon
  <2> QED BY <2>2, <2>3, Zenon
<1>9. /\ pc' \in [Proc -> PC] /\ ld' \in [Proc -> Locals] /\ ld'[p].g = ld[p].g
      /\ pc[p] \in {"user", "sys"} /\ (pc[p] = "user" => pc'[p] = "user")
      /\ (pc[p] = "sys" => pc'[p] = "unpin" /\ ld'[p].f = f /\ g = ld[p].g)
      /\ \A q \in Proc \ {p} : pc'[q] = pc[q] /\ ld'[q] = ld[q]
  <2>1. CASE pc[p] = "user"
    BY <2>1, LocalTypes, Zenon
  <2>2. CASE pc[p] = "sys"
    <3>1. ld' = [ld EXCEPT ![p] = [ld[p] EXCEPT !.f = f]] /\ ld[p] \in Locals
      BY <1>1, <2>2, LocalTypes, Zenon
    <3>2. [ld[p] EXCEPT !.f = f] \in Locals /\ [ld[p] EXCEPT !.f = f].f = f
          /\ [ld[p] EXCEPT !.f = f].g = ld[p].g
      BY <1>4, <3>1, Zenon DEF Locals
    <3> QED BY <2>2, <3>1, <3>2, LocalTypes, Zenon DEF PC
  <2> QED BY <2>1, <2>2, Zenon
<1>10. /\ spt' = spt /\ frame_table' = frame_table /\ clock_hand' = clock_hand
       /\ free_frames' = free_frames /\ swap' = swap /\ file' = file /\ ev' = ev
       /\ outcome' = outcome /\ Table' = Table
  BY ZenonT(30) DEF frameVars, Table
<1>11. \A q \in Proc : /\ pc'[q] \in Busy \/ pc[q] \in Busy => pc'[q] = pc[q] /\ ld'[q] = ld[q] /\ q # p
                       /\ pc'[q] \in Loading <=> pc[q] \in Loading
                       /\ pc[q] \in Loading => ld'[q] = ld[q]
                       /\ pc'[q] \in Unmapping \cup Ending => pc'[q] = pc[q] /\ ld'[q] = ld[q]
                       /\ pc'[q] \in InEvict <=> pc[q] \in InEvict
                       /\ pc[q] \in InEvict => pc'[q] = pc[q]
                       /\ Hand(q)' <=> Hand(q)
                       /\ Alive(q)' <=> Alive(q)
  BY <1>9, Zenon DEF InEvict, Loading, Seeking, Hand, Alive, Busy, Unmapping, Ending
<1>12. \A q \in Proc : pc[q] \in InEvict => content'[ev[q].f] = content[ev[q].f]
  <2>1. \A q \in Proc : pc[q] \in InEvict => ev[q].f # f
    BY <1>3, SMTT(30) DEF IInv, Partition, Hand
  <2> QED BY <1>8, <2>1, Refers, Zenon
<1>13. Typed'
  <2>1. TypeOK'
    BY <1>6, <1>8, <1>9, <1>10, SMTT(30) DEF IInv, Typed, TypeOK, Locals
  <2>2. \A q \in Proc : (/\ ld[q].g \in Layout[q]
                         /\ pc[q] \in Loading => ld[q].then # "exit"
                         /\ pc[q] \in Unmapping => ld[q].then \in {"user", "exit"})'
    BY <1>9, <1>11, Zenon DEF IInv, Typed
  <2>3. \A q \in Proc : (Hand(q) <=> ev[q] # None)'
    BY <1>10, <1>11, Zenon DEF IInv, Typed
  <2> QED BY <1>9, <2>1, <2>2, <2>3, Zenon DEF Typed
<1>14. Distinct' /\ Partition'
  BY <1>10, <1>11, SMTT(30) DEF IInv, Distinct, Partition
<1>15. TableOwned'
  BY <1>7, <1>10, <1>11, Refers, SMTT(30) DEF IInv, TableOwned, Busy
<1>16. Present'
  <2> SUFFICES ASSUME NEW q \in Proc, NEW h \in Page, pte'[q][h].f # None
               PROVE  Own(q, h, pte[q][h].f)' \/ (pc'[q] = "unmap_clear" /\ ld'[q].g = h)
    BY Zenon DEF Present
  <2>1. Own(q, h, pte[q][h].f) \/ (pc[q] = "unmap_clear" /\ ld[q].g = h)
    BY <1>7, SMTT(30) DEF IInv, Present
  <2>2. Own(q, h, pte[q][h].f)' <=> Own(q, h, pte[q][h].f)
    BY <1>7, <1>10, Zenon DEF Own
  <2> QED BY <1>11, <2>1, <2>2, Zenon DEF Busy
<1>17. Filling'
  <2> SUFFICES ASSUME NEW q \in Proc
               PROVE  (/\ pc[q] \in {"fill", "install", "record"} => Own(q, ld[q].g, ld[q].f)
                       /\ pc[q] \in Seeking \cup {"fill", "install", "unmap_remove"} =>
                            pte[q][ld[q].g].f = None
                       /\ pc[q] = "record" => pte[q][ld[q].g].f = ld[q].f
                       /\ pc[q] = "unmap_clear" => \A x \in Table : ~(x.p = q /\ x.g = ld[q].g))'
    BY Zenon DEF Filling
  <2>1. CASE q = p
    BY <1>9, <2>1, Zenon DEF Seeking, InEvict
  <2>2. CASE q # p
    <3>1. PICK h \in Page : h = ld[q].g
      BY LocalTypes, Zenon
    <3>2. pte'[q][h] = pte[q][h] /\ pc'[q] = pc[q] /\ ld'[q] = ld[q]
      BY <1>6, <1>9, <2>2, Zenon
    <3> QED BY <1>10, <3>1, <3>2, SMTT(30) DEF IInv, Filling, Own
  <2> QED BY <2>1, <2>2, Zenon
<1>18. HasEntry'
  BY <1>7, <1>10, <1>11, SMTT(30) DEF IInv, HasEntry, EntryOf, Busy, InEvict
<1>19. Ends'
  BY <1>7, <1>10, <1>11, SMTT(30) DEF IInv, Ends, EndOf, Busy, Ending
<1>20. Evicts'
  BY <1>7, <1>10, <1>11, SMTT(30) DEF IInv, Evicts, EvictOf, OneEvictor
<1>21. Kinds'
  <2>1. ASSUME NEW q \in Proc, NEW h \in Page PROVE KindOf(q, h)'
    <3>1. KindOf(q, h)
      BY Zenon DEF IInv, Kinds
    <3>2. CASE q = p /\ h = g
      BY <1>6, <1>10, <3>1, <3>2, Zenon DEF KindOf
    <3>3. CASE q # p \/ h # g
      <4>1. pte'[q][h] = pte[q][h]
        BY <1>6, <3>3, Zenon
      <4> QED BY <1>10, <3>1, <4>1, Zenon DEF KindOf
    <3> QED BY <3>2, <3>3, Zenon
  <2>2. \A q \in Proc : EvictKind(q)'
    BY <1>10, <1>11, SMTT(30) DEF IInv, Kinds, EvictKind, Busy, InEvict
  <2> QED BY <2>1, <2>2, Zenon DEF Kinds
<1>22. FrameContents'
  <2> SUFFICES ASSUME NEW x \in Table PROVE FrameHolds(x)'
    BY <1>10, Zenon DEF FrameContents
  <2>1. x.p \in Proc /\ x.g \in Page /\ x.f \in Frame /\ FrameHolds(x)
    BY Refers, Zenon DEF IInv, FrameContents
  <2>2. pc'[x.p] \in {"install", "unmap_free"} =>
          pc[x.p] = pc'[x.p] /\ ld'[x.p] = ld[x.p] /\ x.p # p
    BY <1>9, <2>1, Zenon
  <2>3. CASE x.f = f
    <3>1. x.p = p /\ x.g = g
      BY <1>5, <2>3, Zenon
    <3>2. Kind[g] = "code" => content[f][3] = 0
      BY <1>1, <2>1, <2>3, <3>1, Zenon DEF FrameHolds
    <3>3. ~pte'[p][g].D => Kind[g] = "code"
      BY <1>6, Zenon
    <3> QED BY <1>8, <2>2, <2>3, <3>1, <3>2, <3>3, Zenon DEF FrameHolds, Is
  <2>4. CASE x.f # f
    <3>1. x.p # p \/ x.g # g
      BY <1>4, <2>4, Zenon
    <3>2. content'[x.f] = content[x.f] /\ pte'[x.p][x.g] = pte[x.p][x.g]
      BY <1>6, <1>8, <2>1, <2>4, <3>1, Zenon
    <3> QED BY <1>10, <2>1, <2>2, <3>2, Zenon DEF FrameHolds, Is
  <2> QED BY <2>3, <2>4, Zenon
<1>23. EvictContents'
  <2> SUFFICES ASSUME NEW q \in Proc, pc'[q] \in InEvict PROVE EvictHolds(q)'
    BY Zenon DEF EvictContents, EvictHolds
  <2>1. pc[q] \in InEvict /\ EvictHolds(q) /\ content'[ev[q].f] = content[ev[q].f]
    BY <1>11, <1>12, Zenon DEF IInv, EvictContents
  <2> QED BY <1>10, <2>1, Zenon DEF EvictHolds, Is
<1>24. \A q \in Proc, h \in Page : Resting(q, h)' <=> Resting(q, h)
  BY <1>10, <1>11, ZenonT(30) DEF Resting, NoEvictor, Busy
<1>25. Swapped'
  <2>1. \A q \in Proc, h \in Page : SlotHolds(q, h)'
    BY <1>10, <1>11, <1>24, Zenon DEF IInv, Swapped, SlotHolds
  <2>2. ASSUME NEW q \in Proc, pc'[q] = "evict_slot"
        PROVE  (ev[q].slot \in Slot /\ (Alive(ev[q].p) => swap[ev[q].slot] = content[ev[q].f]))'
    <3>1. pc[q] = "evict_slot" /\ pc[q] \in InEvict
      BY <1>11, <2>2, Zenon DEF InEvict
    <3>2. ev[q].p \in Proc /\ EvictSlots(q)
      BY <3>1, Refers, Zenon DEF IInv, Swapped
    <3>3. Alive(ev[q].p)' <=> Alive(ev[q].p)
      BY <1>9, <1>10, <3>2, SMTT(30) DEF Alive
    <3> QED BY <1>10, <1>12, <3>1, <3>2, <3>3, Zenon DEF EvictSlots
  <2> QED BY <2>1, <2>2, Zenon DEF Swapped, EvictSlots
<1>26. Claims'
  BY <1>10, <1>11, <1>24, SMTT(30) DEF IInv, Claims, ClaimOf, Busy, InEvict
<1>27. Pins'
  <2>1. ASSUME NEW x \in Table, x.pinned
        PROVE  pc'[x.p] \in {"sys", "unpin", "unpin_walk"} /\ ld'[x.p].f = x.f /\ ld'[x.p].g = x.g
    <3>1. /\ x.p \in Proc /\ pc[x.p] \in {"sys", "unpin", "unpin_walk"}
          /\ ld[x.p].f = x.f /\ ld[x.p].g = x.g
      BY <2>1, Refers, Zenon DEF IInv, Pins
    <3>2. CASE x.p = p
      BY <1>4, <1>9, <3>1, <3>2, Zenon
    <3>3. CASE x.p # p
      BY <1>9, <3>1, <3>3, Zenon
    <3> QED BY <3>2, <3>3, Zenon
  <2>2. ASSUME NEW q \in Proc, pc'[q] = "sys", ld'[q].f # None
        PROVE  \E x \in Table : x.p = q /\ x.g = ld'[q].g /\ x.f = ld'[q].f /\ x.pinned
    <3>1. q # p /\ pc[q] = "sys" /\ ld'[q] = ld[q]
      BY <1>9, <2>2, Zenon
    <3> QED BY <2>2, <3>1, SMTT(30) DEF IInv, Pins
  <2> QED BY <1>10, <2>1, <2>2, Zenon DEF Pins
<1> QED BY <1>13, <1>14, <1>15, <1>16, <1>17, <1>18, <1>19, <1>20, <1>21, <1>22, <1>23, <1>25,
           <1>26, <1>27, Zenon DEF IInv

\* An instruction reads or writes memory.
LEMMA AccessStep ==
  ASSUME IInv, NEW p \in Proc, NEW g \in Page, Access(p, g)
  PROVE  IInv'
<1>1. pc[p] = "user" /\ g \in Layout[p] /\ touches' = [touches EXCEPT ![p] = @ - 1] /\ touches[p] > 0
  BY Zenon DEF Access, Running
<1>2. touches' \in [Proc -> Nat]
  BY <1>1, LocalTypes, SMTT(30)
<1>3. CASE Mapped(p, g)
  BY <1>1, <1>2, <1>3, ReachStep, Zenon DEF Access
<1>4. CASE ~Mapped(p, g)
  <2>1. page_fault(p, g, "user")
    BY <1>4, Zenon DEF Access
  <2> QED BY <1>1, <1>2, <1>4, <2>1, FaultStep, Zenon
<1> QED BY <1>3, <1>4, Zenon

\* A system call copies its buffer.
LEMMA CopyStep ==
  ASSUME IInv, NEW p \in Proc, SysCopy(p)
  PROVE  IInv'
<1>1. PICK g : g = ld[p].g
  BY Zenon
<1>2. pc[p] = "sys" /\ touches' = touches
  BY Zenon DEF SysCopy, Running
<1>3. touches' \in [Proc -> Nat] /\ g \in Page /\ g \in Layout[p]
  BY <1>1, <1>2, LocalTypes, Zenon
<1>4. CASE Mapped(p, g)
  <2>1. /\ Reach(p, g) /\ ld' = [ld EXCEPT ![p].f = pte[p][g].f] /\ pc' = [pc EXCEPT ![p] = "unpin"]
        /\ UNCHANGED <<spt, frameVars, swap, file, ev, outcome>>
    BY <1>1, <1>4, SMTT(30) DEF SysCopy, Goto
  <2> QED BY <1>1, <1>2, <1>3, <1>4, <2>1, ReachStep, Zenon
<1>5. CASE ~Mapped(p, g)
  <2>1. page_fault(p, g, "sys")
    BY <1>1, <1>5, Zenon DEF SysCopy
  <2> QED BY <1>1, <1>2, <1>3, <1>5, <2>1, FaultStep, Zenon
<1> QED BY <1>4, <1>5, Zenon

\* A system call begins to pin its buffer.
LEMMA BuffersStep ==
  ASSUME IInv, NEW p \in Proc, NEW g \in Page, SysBuffer(p, g)
  PROVE  IInv'
<1>1. /\ pc[p] = "user" /\ g \in Layout[p] /\ touches' = [touches EXCEPT ![p] = @ - 1] /\ touches[p] > 0
  BY Zenon DEF SysBuffer, Running
<1>2. touches' \in [Proc -> Nat] /\ outcome \in Outcome
  BY <1>1, LocalTypes, SMTT(30)
<1>3. CASE ~Mapped(p, g) /\ spt[p][g] # None /\ ~spt[p][g].loaded
  <2>1. PICK e : e = spt[p][g]
    BY Zenon
  <2>2. spt_load_page(p, g, e, FALSE, "pin_look")
    BY <1>3, <2>1, Zenon DEF SysBuffer
  <2>3. \A x \in Table : ~(x.pinned /\ x.p = p)
    BY <1>1, NoPins, Zenon
  <2>4. MayLoad(p, g, e)
    BY <1>1, <1>3, <2>1, <2>3, Zenon DEF MayLoad, Mapped, pagedir_get_page
  <2> QED BY <1>2, <2>2, <2>4, LoadStep, Zenon
<1>4. CASE ~(~Mapped(p, g) /\ spt[p][g] # None /\ ~spt[p][g].loaded)
  <2>1. /\ pc' = [pc EXCEPT ![p] = IF Mapped(p, g) THEN "pin" ELSE "sys"]
        /\ ld' = [ld EXCEPT ![p] = [g |-> g, f |-> pte[p][g].f, again |-> FALSE, then |-> "sys"]]
        /\ UNCHANGED <<spt, pte, frameVars, content, swap, file, ev>> /\ outcome' = outcome
    BY <1>4, Zenon DEF SysBuffer, Goto
  <2> QED BY <1>1, <1>2, <2>1, BufferStep, Zenon
<1> QED BY <1>3, <1>4, Zenon

\* The entry v is taken from its owner: the part of evict_frame with interrupts off.
LEMMA TakeStep ==
  ASSUME IInv, NEW p \in Proc, NEW j \in DOMAIN frame_table, NEW v, NEW W, TakeFrame(p, j, v, W)
  PROVE  IInv'
<1>1. PICK o, g, f, d : /\ o = v.p /\ g = v.g /\ f = v.f /\ d = pte[o][g].D
                        /\ pc[p] = "alloc" /\ v = frame_table[j] /\ ~v.pinned
                        /\ ~(pc[o] \in {"fill", "install", "record"} /\ ld[o].f = f)
  BY ZenonT(30) DEF TakeFrame
<1>2. /\ frame_table \in Seq(FrameEntry) /\ Distinct /\ v \in Table
      /\ o \in Proc /\ g \in Page /\ f \in Frame /\ f # None
  BY <1>1, Types, Refers, Zenon DEF IInv, Table
<1>3. /\ frame_table' \in Seq(FrameEntry) /\ Distinct' /\ Table' = Table \ {v}
  BY <1>1, <1>2, Removed, Zenon DEF TakeFrame
<1>4. /\ clock_hand' \in Frame \cup {None, Stale}
      /\ clock_hand' \in Frame => \E x \in Table' : x.f = clock_hand'
  BY <1>2, HandMoves, Zenon DEF TakeFrame
<1>5. pte[o][g].f = f
  BY <1>1, <1>2, Zenon DEF IInv, TableOwned
<1>6. \A x \in Table' : x \in Table /\ x.f # f /\ x.p \in Proc /\ x.g \in Page /\ (x.p # o \/ x.g # g)
  <2>1. \A x \in Table' : x \in Table /\ x.f # f
    BY <1>1, <1>2, <1>3, Unique, Zenon
  <2>2. pc[o] \in {"fill", "install"} => ld[o].g # g
    BY <1>2, <1>5, Zenon DEF IInv, Filling
  <2>3. \A x \in Table : x.p = o /\ x.g = g => x.f = f
    BY <1>2, <1>5, <2>2, Zenon DEF IInv, TableOwned
  <2> QED BY <2>1, <2>3, Refers, Zenon
<1>7. spt[o][g] # None /\ spt[o][g].loaded /\ ~(pc[o] \in Loading /\ ld[o].g = g)
  <2>1. ~(pc[o] = "record" /\ ld[o].g = g)
    BY <1>1, <1>2, <1>5, ZenonT(30) DEF IInv, Filling
  <2> QED BY <1>2, <1>5, <2>1, SMTT(30) DEF IInv, HasEntry, EntryOf
<1>8. /\ pte' \in [Proc -> [Page -> [f : Frame \cup {None}, A : BOOLEAN, D : BOOLEAN]]]
      /\ pte'[o][g].f = None
      /\ \A q \in Proc, h \in Page : /\ (q # o \/ h # g) => pte'[q][h].f = pte[q][h].f
                                     /\ pte'[q][h].D = pte[q][h].D
  <2>1. pte \in [Proc -> [Page -> [f : Frame \cup {None}, A : BOOLEAN, D : BOOLEAN]]]
    BY Zenon DEF IInv, Typed, TypeOK
  <2>2. \A q \in Proc, h \in Page : pte[q][h].f \in Frame \cup {None} /\ pte[q][h].D \in BOOLEAN
    BY <2>1, Zenon
  <2> QED BY <1>1, <1>2, <2>2, Zenon DEF TakeFrame
<1>9. /\ pc' \in [Proc -> PC] /\ pc[p] = "alloc" /\ pc'[p] = "evict_find"
      /\ \A q \in Proc \ {p} : pc'[q] = pc[q]
  BY LocalTypes, Zenon DEF PC, Loading, Seeking, InEvict, TakeFrame
<1>10. /\ ev' \in [Proc -> {None} \cup Victim] /\ ev'[p] # None
       /\ ev'[p].f = f /\ ev'[p].p = o /\ ev'[p].g = g /\ ev'[p].dirty = d
       /\ \A q \in Proc \ {p} : ev'[q] = ev[q]
  <2>1. PICK e : e = [f |-> f, p |-> o, g |-> g, dirty |-> d, slot |-> 0]
    BY Zenon
  <2>2. d \in BOOLEAN
    BY <1>1, <1>2, SMTT(30) DEF IInv, Typed, TypeOK
  <2>3. e \in Victim /\ e.f = f /\ e.p = o /\ e.g = g /\ e.dirty = d
    BY <1>2, <2>1, <2>2, Zenon DEF Victim
  <2>4. ev' = [ev EXCEPT ![p] = e]
    BY <1>1, <2>1, Zenon DEF pagedir_is_dirty, TakeFrame
  <2> HIDE DEF Victim
  <2> QED BY <2>3, <2>4, NoneIsNothing, Zenon DEF IInv, Typed, TypeOK
<1>11. /\ spt' = spt /\ free_frames' = free_frames /\ content' = content /\ swap' = swap
       /\ file' = file /\ ld' = ld /\ touches' = touches /\ outcome' = outcome
  BY Zenon DEF TakeFrame
<1>12. /\ ~Hand(p) /\ Hand(p)' /\ pc[p] \notin InEvict
       /\ \A q \in Proc : /\ pc'[q] \in Loading <=> pc[q] \in Loading
                          /\ pc'[q] \in Seeking <=> pc[q] \in Seeking
                          /\ pc'[q] \in Unmapping <=> pc[q] \in Unmapping
                          /\ pc'[q] \in InEvict <=> pc[q] \in InEvict \/ q = p
                          /\ Hand(q)' <=> Hand(q) \/ q = p
                          /\ Alive(q)' <=> Alive(q)
  BY <1>1, <1>9, <1>11, Zenon DEF InEvict, Loading, Seeking, Hand, Alive, Unmapping
<1>13. \A q \in Proc : q # p /\ Hand(q) => ev[q].f # f
  BY <1>1, <1>2, ZenonT(30) DEF IInv, Partition
<1>14. \A q \in Proc : pc[q] \in InEvict => ~(ev[q].p = o /\ ev[q].g = g)
  BY <1>2, <1>5, Zenon DEF IInv, Evicts, EvictOf
<1>15. Typed'
  <2>1. TypeOK'
    BY <1>3, <1>4, <1>8, <1>10, <1>11, Zenon DEF IInv, Typed, TypeOK, FrameEntry
  <2>2. \A q \in Proc : (/\ ld[q].g \in Layout[q]
                         /\ pc[q] \in Loading => ld[q].then # "exit"
                         /\ pc[q] \in Unmapping => ld[q].then \in {"user", "exit"})'
    <3> SUFFICES ASSUME NEW q \in Proc
                 PROVE  (/\ ld[q].g \in Layout[q]
                         /\ pc[q] \in Loading => ld[q].then # "exit"
                         /\ pc[q] \in Unmapping => ld[q].then \in {"user", "exit"})'
      BY Zenon
    <3>1. /\ ld[q].g \in Layout[q]
          /\ pc[q] \in Loading => ld[q].then # "exit"
          /\ pc[q] \in Unmapping => ld[q].then \in {"user", "exit"}
      BY Zenon DEF IInv, Typed
    <3>2. /\ pc'[q] \in Loading <=> pc[q] \in Loading
          /\ pc'[q] \in Unmapping <=> pc[q] \in Unmapping
      BY <1>12, Zenon
    <3> HIDE DEF Loading, Unmapping
    <3> QED BY <1>11, <3>1, <3>2, Zenon
  <2>3. \A q \in Proc : (Hand(q) <=> ev[q] # None)'
    BY <1>10, <1>12, Zenon DEF IInv, Typed
  <2> QED BY <1>9, <2>1, <2>2, <2>3, Zenon DEF Typed
<1>16. Partition'
  <2>1. \A x \in Table' : x.f \notin free_frames'
    BY <1>6, <1>11, Zenon DEF IInv, Partition
  <2>2. ASSUME NEW q \in Proc, Hand(q)'
        PROVE  ev'[q].f \notin free_frames' /\ \A x \in Table' : x.f # ev'[q].f
    <3>1. CASE q = p
      <4>1. ev'[q].f = f /\ f \notin free_frames
        BY <1>1, <1>2, <1>10, <3>1, SMTT(30) DEF IInv, Partition
      <4> QED BY <1>6, <1>11, <4>1, Zenon
    <3>2. CASE q # p
      <4>1. Hand(q) /\ ev'[q] = ev[q]
        BY <1>10, <1>12, <2>2, <3>2, Zenon
      <4> QED BY <1>6, <1>11, <4>1, Zenon DEF IInv, Partition
    <3> QED BY <3>1, <3>2, Zenon
  <2>3. \A q, r \in Proc : Hand(q)' /\ Hand(r)' /\ ev'[q].f = ev'[r].f => q = r
    BY <1>10, <1>12, <1>13, SMTT(30) DEF IInv, Partition
  <2>4. ASSUME NEW k \in Frame
        PROVE  \/ k \in free_frames'
               \/ \E x \in Table' : x.f = k
               \/ \E q \in Proc : Hand(q)' /\ ev'[q].f = k
    <3>1. \/ k \in free_frames
          \/ \E x \in Table : x.f = k
          \/ \E q \in Proc : Hand(q) /\ ev[q].f = k
      BY Zenon DEF IInv, Partition
    <3>2. CASE k = f
      BY <1>10, <1>12, <3>2, Zenon
    <3>3. CASE k # f
      BY <1>1, <1>3, <1>10, <1>11, <1>12, <3>1, <3>3, Zenon
    <3> QED BY <3>2, <3>3, Zenon
  <2> QED BY <1>4, <2>1, <2>2, <2>3, <2>4, Zenon DEF Partition
<1>17. TableOwned'
  <2> SUFFICES ASSUME NEW x \in Table'
               PROVE  \/ pte'[x.p][x.g].f = x.f
                      \/ pc'[x.p] \in {"fill", "install"} /\ ld[x.p].f = x.f /\ ld[x.p].g = x.g
    BY <1>11, Zenon DEF TableOwned
  <2>1. x.p \in Proc /\ pte'[x.p][x.g].f = pte[x.p][x.g].f
    BY <1>6, <1>8, Zenon
  <2> QED BY <1>6, <1>9, <2>1, Zenon DEF IInv, TableOwned
<1>18. Present'
  <2> SUFFICES ASSUME NEW q \in Proc, NEW h \in Page, pte'[q][h].f # None
               PROVE  (Own(q, h, pte[q][h].f) \/ (pc[q] = "unmap_clear" /\ ld[q].g = h))'
    BY Zenon DEF Present
  <2>1. q # o \/ h # g
    BY <1>8, Zenon
  <2>2. PICK k : k = pte[q][h].f /\ k = pte'[q][h].f
    BY <1>8, <2>1, Zenon
  <2>3. Own(q, h, k) \/ (pc[q] = "unmap_clear" /\ ld[q].g = h)
    BY <2>2, Zenon DEF IInv, Present
  <2>4. Own(q, h, k) => Own(q, h, k)'
    BY <1>1, <1>3, <2>1, Zenon DEF Own
  <2>5. Own(q, h, k)' <=> Own(q, h, pte[q][h].f)'
    BY <2>2, Zenon DEF Own
  <2> QED BY <1>9, <1>11, <2>3, <2>4, <2>5, Zenon
<1>19. Filling'
  <2> SUFFICES ASSUME NEW q \in Proc
               PROVE  (/\ pc[q] \in {"fill", "install", "record"} => Own(q, ld[q].g, ld[q].f)
                       /\ pc[q] \in Seeking \cup {"fill", "install", "unmap_remove"} =>
                            pte[q][ld[q].g].f = None
                       /\ pc[q] = "record" => pte[q][ld[q].g].f = ld[q].f
                       /\ pc[q] = "unmap_clear" => \A x \in Table : ~(x.p = q /\ x.g = ld[q].g))'
    BY Zenon DEF Filling
  <2>1. PICK h \in Page : h = ld[q].g
    BY LocalTypes, Zenon
  <2>2. /\ pc[q] \in {"fill", "install", "record"} => Own(q, h, ld[q].f)
        /\ pc[q] \in Seeking \cup {"fill", "install", "unmap_remove"} => pte[q][h].f = None
        /\ pc[q] = "record" => pte[q][h].f = ld[q].f
        /\ pc[q] = "unmap_clear" => \A x \in Table : ~(x.p = q /\ x.g = h)
    BY <2>1, Zenon DEF IInv, Filling
  <2>3. pc'[q] \in {"fill", "install", "record", "unmap_remove", "unmap_clear"} => pc'[q] = pc[q]
    BY <1>9, Zenon
  <2>4. pte[q][h].f = None => pte'[q][h].f = None
    BY <1>8, Zenon
  <2>5. pc[q] \in {"fill", "install", "record"} => Own(q, h, ld[q].f)'
    BY <1>1, <1>3, <1>11, <2>2, Zenon DEF Own
  <2>6. pc[q] = "record" => pte'[q][h].f = pte[q][h].f
    <3>1. CASE q = o /\ h = g
      BY <1>1, <1>5, <2>2, <3>1, Zenon
    <3>2. CASE q # o \/ h # g
      BY <1>8, <3>2, Zenon
    <3> QED BY <3>1, <3>2, Zenon
  <2>7. Own(q, h, ld[q].f)' <=> Own(q, ld[q].g, ld[q].f)'
    BY <1>11, <2>1, Zenon DEF Own
  <2> QED BY <1>6, <1>11, <1>12, <2>1, <2>2, <2>3, <2>4, <2>5, <2>6, <2>7, Zenon
<1>20. HasEntry'
  <2> SUFFICES ASSUME NEW q \in Proc, NEW h \in Page PROVE EntryOf(q, h)'
    BY Zenon DEF HasEntry
  <2>1. EntryOf(q, h)
    BY Zenon DEF IInv, HasEntry
  <2>2. CASE q = o /\ h = g
    BY <1>8, <1>9, <1>10, <1>11, <1>12, <2>1, <2>2, Zenon DEF EntryOf
  <2>3. CASE q # o \/ h # g
    <3>1. pte'[q][h].f = pte[q][h].f /\ (pc[q] = "record" => pc'[q] = "record")
      BY <1>8, <1>9, <2>3, Zenon
    <3>2. \A r \in Proc : pc[r] \in {"evict_find", "evict_mark"} => pc'[r] = pc[r] /\ ev'[r] = ev[r]
      BY <1>9, <1>10, Zenon
    <3> QED BY <1>11, <1>12, <2>1, <3>1, <3>2, ZenonT(30) DEF EntryOf
  <2> QED BY <2>2, <2>3, Zenon
<1>21. Ends'
  <2> SUFFICES ASSUME NEW q \in Proc PROVE EndOf(q)'
    BY Zenon DEF Ends
  <2>1. EndOf(q)
    BY Zenon DEF IInv, Ends
  <2>2. CASE q = p
    BY <1>9, <2>2, Zenon DEF EndOf, Ending, Unmapping
  <2>3. CASE q # p
    <3>1. pc'[q] = pc[q] /\ \A h \in Page : pte[q][h].f = None => pte'[q][h].f = None
      BY <1>8, <1>9, <2>3, Zenon
    <3>2. pc[q] = "load" => q # o
      BY <1>2, <1>5, <2>1, Zenon DEF EndOf
    <3>3. pc[q] = "load" => \A r \in Proc : pc'[r] \in InEvict => ev'[r].p # q
      BY <1>10, <1>12, <2>1, <3>2, Zenon DEF EndOf
    <3> QED BY <1>11, <2>1, <3>1, <3>3, Zenon DEF EndOf
  <2> QED BY <2>2, <2>3, Zenon
<1>22. Evicts'
  <2>1. OneEvictor'
    <3>1. \A q \in Proc \ {p} : pc'[q] \in InEvict => pc[q] \in InEvict /\ ev'[q] = ev[q]
      BY <1>10, <1>12, Zenon
    <3>2. \A q \in Proc \ {p} : pc'[q] \in InEvict => ~(ev'[q].p = o /\ ev'[q].g = g)
      BY <1>14, <3>1, Zenon
    <3>3. OneEvictor
      BY Zenon DEF IInv, Evicts
    <3> HIDE DEF InEvict
    <3>4. ASSUME NEW q \in Proc, NEW r \in Proc, pc'[q] \in InEvict, pc'[r] \in InEvict,
                 ev'[q].p = ev'[r].p, ev'[q].g = ev'[r].g
          PROVE  q = r
      <4>1. CASE q = p
        BY <1>10, <3>2, <3>4, <4>1, Zenon
      <4>2. CASE r = p
        BY <1>10, <3>2, <3>4, <4>2, Zenon
      <4>3. CASE q # p /\ r # p
        BY <3>1, <3>3, <3>4, <4>3, Zenon DEF OneEvictor
      <4> QED BY <4>1, <4>2, <4>3, Zenon
    <3> QED BY <3>4, Zenon DEF OneEvictor
  <2> SUFFICES ASSUME NEW q \in Proc, NEW r \in Proc, NEW h \in Page PROVE EvictOf(q, r, h)'
    BY <2>1, Zenon DEF Evicts
  <2> SUFFICES ASSUME pc'[q] \in InEvict, ev'[q].p = r, ev'[q].g = h PROVE EvictOf(q, r, h)'
    BY Zenon DEF EvictOf
  <2>2. CASE q = p
    <3>1. r = o /\ h = g
      BY <1>10, <2>2, Zenon
    <3> QED BY <1>7, <1>8, <1>9, <1>11, <1>12, <2>2, <3>1, Zenon DEF EvictOf
  <2>3. CASE q # p
    <3>1. pc'[q] = pc[q] /\ ev'[q] = ev[q] /\ EvictOf(q, r, h)
      BY <1>9, <1>10, <2>3, Zenon DEF IInv, Evicts
    <3>2. pte[r][h].f = None => pte'[r][h].f = None
      BY <1>8, Zenon
    <3> QED BY <1>11, <1>12, <3>1, <3>2, Zenon DEF EvictOf
  <2> QED BY <2>2, <2>3, Zenon
<1>23. Kinds'
  <2>1. ASSUME NEW q \in Proc, NEW h \in Page PROVE KindOf(q, h)'
    <3>1. KindOf(q, h) /\ pte'[q][h].D = pte[q][h].D
      BY <1>8, Zenon DEF IInv, Kinds
    <3> QED BY <1>11, <3>1, Zenon DEF KindOf
  <2>2. ASSUME NEW q \in Proc PROVE EvictKind(q)'
    <3>1. CASE q = p
      <4>1. Kind[g] = "code" => ~d
        BY <1>1, <1>2, Zenon DEF IInv, Kinds, KindOf
      <4> QED BY <1>9, <1>10, <3>1, <4>1, Zenon DEF EvictKind
    <3>2. CASE q # p
      <4>1. pc'[q] = pc[q] /\ ev'[q] = ev[q] /\ EvictKind(q) /\ (Hand(q)' <=> Hand(q))
        BY <1>9, <1>10, <1>12, <3>2, Zenon DEF IInv, Kinds
      <4> QED BY <4>1, Zenon DEF EvictKind
    <3> QED BY <3>1, <3>2, Zenon
  <2> QED BY <2>1, <2>2, Zenon DEF Kinds
<1>24. FrameContents'
  <2> SUFFICES ASSUME NEW x \in Table' PROVE FrameHolds(x)'
    BY Zenon DEF FrameContents
  <2>1. x.p \in Proc /\ x.g \in Page /\ FrameHolds(x)
    BY <1>6, Zenon DEF IInv, FrameContents
  <2>2. pte'[x.p][x.g].f = pte[x.p][x.g].f /\ pte'[x.p][x.g].D = pte[x.p][x.g].D
    <3>1. PICK q \in Proc, h \in Page : q = x.p /\ h = x.g
      BY <2>1, Zenon
    <3>2. q # o \/ h # g
      BY <1>6, <3>1, Zenon
    <3>3. pte'[q][h].f = pte[q][h].f /\ pte'[q][h].D = pte[q][h].D
      BY <1>8, <3>2, Zenon
    <3> QED BY <3>1, <3>3, Zenon
  <2>3. pc'[x.p] \in {"install", "unmap_free"} => pc[x.p] = pc'[x.p]
    BY <1>9, <2>1, Zenon
  <2> QED BY <1>11, <2>1, <2>2, <2>3, Zenon DEF FrameHolds
<1>25. EvictContents'
  <2> SUFFICES ASSUME NEW q \in Proc, pc'[q] \in InEvict PROVE EvictHolds(q)'
    BY Zenon DEF EvictContents, EvictHolds
  <2>1. CASE q = p
    <3>1. /\ Is(o, g, content[f])
          /\ ~d /\ Kind[g] = "map" => content[f][3] = file[o][g]
          /\ Kind[g] = "code" => content[f][3] = 0
      BY <1>1, <1>2, <1>5, Zenon DEF IInv, FrameContents, FrameHolds
    <3> QED BY <1>10, <1>11, <2>1, <3>1, Zenon DEF EvictHolds, Is
  <2>2. CASE q # p
    <3>1. pc[q] \in InEvict /\ ev'[q] = ev[q]
      BY <1>10, <1>12, <2>2, Zenon
    <3> QED BY <1>11, <3>1, Zenon DEF IInv, EvictContents, EvictHolds
  <2> QED BY <2>1, <2>2, Zenon
<1>26. \A q \in Proc, h \in Page : Resting(q, h)' <=> Resting(q, h)
  <2> SUFFICES ASSUME NEW q \in Proc, NEW h \in Page PROVE Resting(q, h)' <=> Resting(q, h)
    BY Zenon
  <2>1. CASE q = o /\ h = g
    BY <1>7, <1>11, <2>1, Zenon DEF Resting
  <2>2. CASE q # o \/ h # g
    <3>1. NoEvictor(q, h)' <=> NoEvictor(q, h)
      BY <1>10, <1>12, <2>2, Zenon DEF NoEvictor
    <3>2. pc'[q] \in {"install", "record"} <=> pc[q] \in {"install", "record"}
      BY <1>9, Zenon
    <3> QED BY <1>11, <3>1, <3>2, Zenon DEF Resting
  <2> QED BY <2>1, <2>2, Zenon
<1>27. Swapped'
  <2>1. \A q \in Proc, h \in Page : SlotHolds(q, h)'
    BY <1>11, <1>12, <1>26, Zenon DEF IInv, Swapped, SlotHolds
  <2>2. ASSUME NEW q \in Proc, pc'[q] = "evict_slot"
        PROVE  (ev[q].slot \in Slot /\ (Alive(ev[q].p) => swap[ev[q].slot] = content[ev[q].f]))'
    <3>1. pc[q] = "evict_slot" /\ pc[q] \in InEvict /\ ev'[q] = ev[q]
      BY <1>9, <1>10, <2>2, Zenon DEF InEvict
    <3>2. ev[q].p \in Proc /\ EvictSlots(q)
      BY <3>1, Refers, Zenon DEF IInv, Swapped
    <3>3. Alive(ev[q].p)' <=> Alive(ev[q].p)
      BY <1>9, <1>11, <3>1, <3>2, ZenonT(30) DEF Alive
    <3> QED BY <1>11, <3>1, <3>2, <3>3, Zenon DEF EvictSlots
  <2> QED BY <2>1, <2>2, Zenon DEF Swapped, EvictSlots
<1>28. Claims'
  <2> SUFFICES ASSUME NEW s \in Slot \ {0}, NEW q \in Proc, NEW h \in Page PROVE ClaimOf(s, q, h)'
    BY Zenon DEF Claims
  <2>1. ClaimOf(s, q, h)
    BY Zenon DEF IInv, Claims
  <2>2. \A r \in Proc : pc[r] = "evict_slot" => pc'[r] = "evict_slot" /\ ev'[r] = ev[r]
    BY <1>9, <1>10, Zenon
  <2> QED BY <1>11, <1>26, <2>1, <2>2, Zenon DEF ClaimOf
<1>29. Pins'
  <2>1. ASSUME NEW x \in Table', x.pinned
        PROVE  pc'[x.p] \in {"sys", "unpin", "unpin_walk"} /\ ld'[x.p].f = x.f /\ ld'[x.p].g = x.g
    <3>1. /\ x.p \in Proc /\ pc[x.p] \in {"sys", "unpin", "unpin_walk"}
          /\ ld[x.p].f = x.f /\ ld[x.p].g = x.g
      BY <1>6, <2>1, Zenon DEF IInv, Pins
    <3> QED BY <1>9, <1>11, <3>1, Zenon
  <2>2. ASSUME NEW q \in Proc, pc'[q] = "sys", ld'[q].f # None
        PROVE  \E x \in Table' : x.p = q /\ x.g = ld'[q].g /\ x.f = ld'[q].f /\ x.pinned
    <3>1. pc[q] = "sys"
      BY <1>9, <2>2, Zenon
    <3> QED BY <1>1, <1>3, <1>11, <2>2, <3>1, ZenonT(30) DEF IInv, Pins
  <2> QED BY <2>1, <2>2, Zenon DEF Pins
<1> QED BY <1>3, <1>15, <1>16, <1>17, <1>18, <1>19, <1>20, <1>21, <1>22, <1>23, <1>24, <1>25,
           <1>27, <1>28, <1>29, Zenon DEF IInv

\* evict_frame up to the end of its interrupts-off part.
LEMMA EvictStep ==
  ASSUME IInv, NEW p \in Proc, evict_frame(p)
  PROVE  IInv'
BY EvictTakes, StopsStep, TakeStep, Zenon

\* What pagedir_get_page said in spt_destroy_func is still so.
LEMMA LookedStep ==
  ASSUME IInv, Looked, NEW p \in Proc, UserStep(p) \/ KernelStep(p)
  PROVE  Looked'
<1>1. \A q \in Proc : ld[q].g \in Page
  BY LocalTypes, Zenon
<1>2. CASE DestroyLook(p)
  <2>1. PICK g \in Page : /\ ld' = [ld EXCEPT ![p].g = g, ![p].f = pagedir_get_page(p, g)]
                          /\ pc' = [pc EXCEPT ![p] = "destroy_free"] /\ pte' = pte
    BY <1>2, Zenon DEF DestroyLook, Goto
  <2>2. \A q \in Proc \ {p} : pc'[q] = pc[q] /\ ld'[q] = ld[q]
    BY <2>1, Zenon DEF IInv, Typed, TypeOK
  <2>3. ld'[p].g = g /\ ld'[p].f = pte[p][g].f
    BY <2>1, ZenonT(30) DEF IInv, Typed, TypeOK, pagedir_get_page
  <2> QED BY <2>1, <2>2, <2>3, ZenonT(30) DEF Looked
<1>3. CASE Others(p)
  BY <1>1, <1>3, SMTT(30) DEF Looked, Others
<1> QED BY <1>2, <1>3, OthersStay, Zenon

\* The invariant, with what spt_destroy_func remembers.
Inductive == IInv /\ Looked

\* The invariant holds before the first process starts.
LEMMA InitInductive == Init => Inductive
<1> SUFFICES ASSUME Init PROVE Inductive
  BY Zenon
<1>1. /\ \A p \in Proc : pc[p] = "load" /\ ev[p] = None
      /\ \A p \in Proc, g \in Page : spt[p][g] = None /\ pte[p][g].f = None /\ pte[p][g].D = FALSE
      /\ \A s \in Slot : swap[s] = None
      /\ frame_table = <<>> /\ clock_hand = None /\ free_frames = Frame
  BY Zenon DEF Init
<1>2. Table = {}
  BY <1>1, SMTT(30) DEF Table
<1>3. \A p \in Proc : ld[p] \in Locals /\ ld[p].g \in Layout[p]
  BY IdleLocals, Zenon DEF Init
<1>4. \A p \in Proc : /\ pc[p] \notin Loading \cup Unmapping \cup Ending \cup InEvict
                      /\ ~Hand(p) /\ Alive(p) /\ pc[p] \in PC
  BY <1>1, Zenon DEF Loading, Seeking, Unmapping, Ending, InEvict, Hand, Alive, PC
<1>5. Typed
  <2>1. /\ spt \in [Proc -> [Page -> {None} \cup Entry]]
        /\ pte \in [Proc -> [Page -> [f : Frame \cup {None}, A : BOOLEAN, D : BOOLEAN]]]
    BY Zenon DEF Init
  <2>2. /\ frame_table \in Seq([f : Frame, p : Proc, g : Page, pinned : BOOLEAN])
        /\ clock_hand \in Frame \cup {None, Stale} /\ free_frames \subseteq Frame
        /\ content \in [Frame -> {None} \cup Contents] /\ swap \in [Slot -> {None} \cup Contents]
    BY SMTT(30) DEF Init
  <2>3. /\ file \in [Proc -> [Page -> {0, 1}]] /\ touches \in [Proc -> Nat]
        /\ ev \in [Proc -> {None} \cup Victim] /\ outcome \in {"ok"} \cup Windows \cup Panics
        /\ pc \in [Proc -> PC]
    BY <1>4, MemoryAssumption, Zenon DEF Init
  <2>4. ld \in [Proc -> [g : Page, f : Frame \cup {None}, again : BOOLEAN,
                         then : {"user", "pin_look", "sys", "exit"}]]
    BY <1>3, Zenon DEF Init, Locals
  <2> QED BY <1>1, <1>3, <1>4, <2>1, <2>2, <2>3, <2>4, Zenon DEF Typed, TypeOK
<1>6. Distinct /\ Partition /\ TableOwned /\ Present
  BY <1>1, <1>2, <1>4, NoneIsNothing, SMTT(30) DEF Distinct, Partition, TableOwned, Present
<1>7. Filling
  BY <1>1, Zenon DEF Filling, Seeking, InEvict
<1>8. HasEntry /\ Ends /\ Evicts
  BY <1>1, <1>4, ZenonT(30) DEF HasEntry, EntryOf, Ends, EndOf, Evicts, OneEvictor, EvictOf
<1>9. Kinds
  BY <1>1, <1>4, Zenon DEF Kinds, KindOf, EvictKind
<1>10. FrameContents /\ EvictContents
  BY <1>2, <1>4, Zenon DEF FrameContents, EvictContents, EvictHolds
<1>11. Swapped /\ Claims /\ Pins
  BY <1>1, <1>2, <1>4, Zenon
     DEF Swapped, SlotHolds, Resting, EvictSlots, Claims, ClaimOf, Is, Pins, InEvict
<1>12. Looked
  BY <1>1, Zenon DEF Looked
<1> QED BY <1>5, <1>6, <1>7, <1>8, <1>9, <1>10, <1>11, <1>12, Zenon DEF Inductive, IInv

\* Every step of a program keeps the invariant.
LEMMA UserKeeps ==
  ASSUME Inductive, NEW p \in Proc, UserStep(p)
  PROVE  IInv'
<1> USE DEF Inductive
<1>1. CASE sys_exit(p)
  BY <1>1, Exits, Zenon
<1>2. ASSUME NEW g \in Page, Access(p, g) PROVE IInv'
  BY <1>2, AccessStep, Zenon
<1>3. ASSUME NEW g \in Page, SysBuffer(p, g) PROVE IInv'
  BY <1>3, BuffersStep, Zenon
<1>4. ASSUME NEW g \in Page, mmap_map(p, g) PROVE IInv'
  BY <1>4, Maps, Zenon
<1>5. ASSUME NEW g \in Page, mmap_unmap(p, g) PROVE IInv'
  BY <1>5, Unmaps, Zenon
<1> QED BY <1>1, <1>2, <1>3, <1>4, <1>5, Zenon DEF UserStep

\* Every step of the kernel on behalf of a process keeps the invariant.
LEMMA KernelKeeps ==
  ASSUME Inductive, NEW p \in Proc, KernelStep(p)
  PROVE  IInv'
<1> USE DEF Inductive
<1>1. CASE setup_stack(p) \/ frame_alloc(p) \/ frame_alloc_fails(p)
  BY <1>1, StartStep, AllocStep, AllocFails, Zenon
<1>2. CASE evict_frame(p) \/ EvictFind(p) \/ EvictMark(p) \/ EvictWrite(p) \/ swap_out(p) \/ EvictSlot(p)
  BY <1>2, EvictStep, FindStep, MarkStep, WriteStep, SwapOutStep, SlotStep, Zenon
<1>3. CASE \/ FrameRegister(p) \/ PageFill(p) \/ pagedir_set_page(p) \/ pagedir_set_page_fails(p)
           \/ spt_set_loaded(p)
  BY <1>3, RegistersStep, FillStep, InstallStep, FailStep, RecordStep, Zenon
<1>4. CASE PinLook(p) \/ PinWalk(p) \/ frame_pin(p) \/ SysCopy(p)
  BY <1>4, LooksAgain, Walks, PinStep, CopyStep, Zenon
<1>5. ASSUME NEW g \in Page, mmap_unmap(p, g) PROVE IInv'
  BY <1>5, Unmaps, Zenon
<1>6. CASE UnmapWrite(p) \/ UnmapFree(p) \/ UnmapClear(p) \/ spt_remove_entry(p)
  BY <1>6, UnmapWriteStep, UnmapFreeStep, ClearStep, RemoveStep, Zenon
<1>7. CASE spt_destroy(p) \/ DestroyLook(p) \/ spt_destroy_func(p) \/ process_exit(p)
  BY <1>7, Destroys, LooksToFree, DestroyStep, EndStep, Zenon
<1> QED BY <1>1, <1>2, <1>3, <1>4, <1>5, <1>6, <1>7, Zenon DEF KernelStep

\* Every step keeps the invariant.
LEMMA NextInductive ==
  ASSUME Inductive, [Next]_vars
  PROVE  Inductive'
<1>1. ASSUME UNCHANGED vars PROVE Inductive'
  <2>1. /\ UNCHANGED <<pc, spt, pte, frameVars, content, swap, file, ld, ev>>
        /\ touches' = touches /\ outcome' = outcome
    BY <1>1, Zenon DEF vars, frameVars
  <2>2. touches \in [Proc -> Nat] /\ outcome \in Outcome
    BY Zenon DEF Inductive, IInv, Typed, TypeOK, Outcome
  <2>3. IInv'
    BY <2>1, <2>2, StopStep, Zenon DEF Inductive
  <2>4. Looked'
    BY <2>1, Zenon DEF Inductive, Looked
  <2> QED BY <2>3, <2>4, Zenon DEF Inductive
<1>2. ASSUME NEW p \in Proc, UserStep(p) \/ KernelStep(p) PROVE Inductive'
  BY <1>2, UserKeeps, KernelKeeps, LookedStep, Zenon DEF Inductive
<1> QED BY <1>1, <1>2, Zenon DEF Next, Halted

\* The invariant holds in every reachable state.
LEMMA Invariance == Spec => []Inductive
<1>1. Inductive /\ [Next]_vars => Inductive'
  BY NextInductive, Zenon
<1> QED BY <1>1, InitInductive, PTL DEF Spec

\* Every frame of the user pool has one owner at every step of frame_alloc,
\* evict_frame, frame_free and exit, and a present page is in a frame of its own.
THEOREM FramesHaveOneOwner == Spec => []FramesOwned
<1>1. Inductive => FramesOwned
  <2> SUFFICES ASSUME IInv PROVE FramesOwned
    BY Zenon DEF Inductive
  <2>1. frame_table \in Seq(FrameEntry) /\ Distinct
    BY Types, Zenon DEF IInv
  <2>2. PresentIsOwned
    BY <2>1, HoldsOwn, Zenon DEF IInv, Present, PresentIsOwned, Mapped, pagedir_get_page
  <2> QED BY <2>2, Accounts, Zenon DEF IInv, Typed, FramesOwned
<1> QED BY <1>1, Invariance, PTL

\* No swap slot but slot 0 is used without a page that will be read back from it:
\* swap_out, spt_set_swap, swap_in and spt_destroy_func neither leak nor share one.
THEOREM SlotsAreClaimed == Spec => []SlotsClaimed
<1>1. Inductive => SlotsClaimed
  <2> SUFFICES ASSUME IInv, NEW s \in Slot \ {0}, swap[s] # None PROVE Claimed(s)
    BY Zenon DEF Inductive, SlotsClaimed
  <2>1. PICK p \in Proc, g \in Page : p = swap[s][1] /\ g = swap[s][2]
    BY Zenon DEF IInv, Typed, TypeOK, Contents
  <2>2. ClaimOf(s, p, g) /\ Is(p, g, swap[s])
    BY <2>1, Zenon DEF IInv, Claims, Is
  <2> QED BY <2>1, <2>2, Zenon DEF ClaimOf, Claimed, Resting, Evicting, InEvict
<1> QED BY <1>1, Invariance, PTL

\* A frame is pinned only while its owner is in the system call, and what
\* pin_buffer has pinned stays the page's frame until unpin_buffer.
THEOREM PinnedFramesStay == Spec => []PinnedStays
<1>1. Inductive => PinnedStays
  <2> SUFFICES ASSUME IInv PROVE PinnedStays
    BY Zenon DEF Inductive
  <2>1. frame_table \in Seq(FrameEntry) /\ Distinct
    BY Types, Zenon DEF IInv
  <2>2. \A i \in DOMAIN frame_table : frame_table[i].pinned => pc[frame_table[i].p] # "user"
    BY Zenon DEF IInv, Pins, Table
  <2>3. ASSUME NEW p \in Proc, pc[p] = "sys", ld[p].f # None
        PROVE  Holds(p, ld[p].g, ld[p].f) /\ pte[p][ld[p].g].f = ld[p].f
    <3>1. PICK x \in Table : x.p = p /\ x.g = ld[p].g /\ x.f = ld[p].f
      BY <2>3, Zenon DEF IInv, Pins
    <3>2. pte[p][ld[p].g].f = ld[p].f
      BY <2>3, <3>1, Zenon DEF IInv, TableOwned
    <3> QED BY <2>1, <3>1, <3>2, HoldsOwn, ZenonT(30) DEF Own
  <2> QED BY <2>2, <2>3, Zenon DEF PinnedStays
<1> QED BY <1>1, Invariance, PTL

\* Every step is a step of UserMemory or changes no page.
LEMMA NextRefines ==
  ASSUME Inductive, Inductive', [Next]_vars
  PROVE  UserMemoryStep
<1>1. CASE UNCHANGED vars
  <2>1. ValuesOf /\ ValuesOf'
    BY ValueLemma, ValueNext, Zenon DEF Inductive
  <2>2. UNCHANGED <<pc, spt, pte, frameVars, content, swap, file, ld, ev>>
    BY <1>1, Zenon DEF vars, frameVars
  <2>3. \A q \in Proc : Alive(q)' <=> Alive(q)
    BY <2>2, Zenon DEF Alive
  <2> QED BY <2>1, <2>2, <2>3, StopKept, SameRefines, Zenon DEF Inductive
<1>2. ASSUME NEW p \in Proc, UserStep(p) \/ KernelStep(p) PROVE UserMemoryStep
  BY <1>2, StepRefines, Zenon DEF Inductive
<1> QED BY <1>1, <1>2, Zenon DEF Next, Halted

\* No page has been written, and every process is there.
LEMMA InitRefines == Init => UM!Init
<1> SUFFICES ASSUME Init PROVE UM!Init
  BY Zenon
<1>1. \A p \in Proc : Alive(p) = TRUE
  BY Zenon DEF Init, Alive
<1>2. ASSUME NEW p \in Proc, NEW g \in Page PROVE Value(p, g) = 0
  <2>1. pte[p][g].f = None /\ spt[p][g] = None /\ file[p][g] = 0 /\ \A q \in Proc : pc[q] = "load"
    BY Zenon DEF Init
  <2>2. Evicting(p, g) = {}
    BY <2>1, Zenon DEF Evicting, InEvict
  <2> QED BY <2>1, <2>2, Zenon DEF Value, Mapped, pagedir_get_page
<1> QED BY <1>1, <1>2, Zenon DEF UM!Init

\* A page reads as it was last written: whatever frame_alloc, evict_frame, swap_out,
\* swap_in, spt_load_page, mmap_unmap and process_exit do with frames, slots and files
\* on behalf of the processes, every step of the kernel changes nothing a program
\* can read, and a mapped file keeps what was written to it.
THEOREM PagesReadAsWritten == Spec => ReadsLastWritten
<1>1. Init => UM!Init
  BY InitRefines, Zenon
<1>2. Inductive /\ Inductive' /\ [Next]_vars => UserMemoryStep
  BY NextRefines, Zenon
<1> QED BY <1>1, <1>2, Invariance, PTL DEF Spec, UM!Spec, UserMemoryStep, ReadsLastWritten
==============================================================================
