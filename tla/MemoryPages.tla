----------------------------- MODULE MemoryPages -----------------------------
(***************************************************************************)
(* The invariant is kept by the steps on the table of a process: building, *)
(* mapping and unmapping, pinning, and giving it up at exit.               *)
(***************************************************************************)
EXTENDS MemoryLemmas

\* A step of p that changes its entry for page g, p being in none of the busy
\* functions before or after (sys_mmap, spt_remove_entry).
LEMMA EntryStep ==
  ASSUME IInv, NEW p \in Proc, NEW g \in Page, NEW e \in {None, spt_set_mmap},
         Kind[g] = "map", g \in Layout[p], pte[p][g].f = None, NoEvictor(p, g),
         NEW l \in {"user", "exit"}, NEW r \in Locals, r.g \in Layout[p],
         pc[p] \in {"user", "unmap_remove"},
         spt' = [spt EXCEPT ![p][g] = e], pc' = [pc EXCEPT ![p] = l], ld' = [ld EXCEPT ![p] = r],
         UNCHANGED <<pte, frameVars, content, swap, file, ev, outcome>>, touches' \in [Proc -> Nat],
         Alive(p)' <=> Alive(p)
  PROVE  IInv'
<1>1. /\ pc' \in [Proc -> PC] /\ ld' \in [Proc -> Locals]
      /\ pc'[p] = l /\ ld'[p] = r
      /\ \A q \in Proc \ {p} : pc'[q] = pc[q] /\ ld'[q] = ld[q]
  BY LocalTypes, Zenon DEF PC, Loading, Seeking
<1>2. /\ e # None => e \in Entry /\ e.type = "MMAP" /\ e.loaded = FALSE /\ e.writable = TRUE
      /\ e \in {None} \cup Entry
  <2>1. /\ spt_set_mmap \in Entry /\ spt_set_mmap.type = "MMAP"
        /\ spt_set_mmap.loaded = FALSE /\ spt_set_mmap.writable = TRUE
    BY Zenon DEF spt_set_mmap, NewEntry, Entry
  <2> QED BY <2>1, Zenon
<1>3. /\ spt' \in [Proc -> [Page -> {None} \cup Entry]] /\ spt'[p][g] = e
      /\ \A q \in Proc, h \in Page : (q # p \/ h # g) => spt'[q][h] = spt[q][h]
  BY <1>2, Zenon DEF IInv, Typed, TypeOK
<1>4. /\ pte' = pte /\ frame_table' = frame_table /\ clock_hand' = clock_hand
      /\ free_frames' = free_frames /\ content' = content /\ swap' = swap /\ file' = file
      /\ ev' = ev /\ outcome' = outcome /\ Table' = Table
  BY Zenon DEF frameVars, Table
<1>5. \A q \in Proc : /\ pc'[q] \in Busy \/ pc[q] \in Busy =>
                           pc'[q] = pc[q] /\ ld'[q] = ld[q] /\ q # p
                      /\ Hand(q)' <=> Hand(q)
                      /\ Alive(q)' <=> Alive(q)
                      /\ pc'[q] \in Loading => pc[q] \in Loading /\ q # p
                      /\ pc'[q] \in InEvict <=> pc[q] \in InEvict
  BY <1>1, SMTT(30) DEF Busy, Hand, Alive, InEvict, Loading, Seeking
<1>6. Typed'
  <2>1. TypeOK'
    BY <1>1, <1>3, <1>4, SMTT(30) DEF IInv, Typed, TypeOK, Locals
  <2> QED BY <1>1, <1>4, <1>5, <2>1, SMTT(30)
             DEF IInv, Typed, Unmapping, Loading, Seeking, InEvict
<1>7. Distinct' /\ Partition'
  BY <1>4, <1>5, SMTT(30) DEF IInv, Distinct, Partition
<1>8. TableOwned' /\ Present'
  BY <1>1, <1>4, <1>5, Refers, SMTT(30) DEF IInv, TableOwned, Present, Own, Busy
<1>9. Filling'
  BY <1>1, <1>4, <1>5, SMTT(30) DEF IInv, Filling, Own, Busy, Seeking, InEvict
<1>10. HasEntry'
  <2> SUFFICES ASSUME NEW q \in Proc, NEW h \in Page PROVE EntryOf(q, h)'
    BY Zenon DEF HasEntry
  <2>1. EntryOf(q, h)
    BY Zenon DEF IInv, HasEntry
  <2>2. CASE q = p /\ h = g
    BY <1>2, <1>3, <1>4, <1>5, <2>2, Zenon DEF EntryOf
  <2>3. CASE q # p \/ h # g
    <3>1. \A t \in Proc : pc[t] \in {"evict_find", "evict_mark"} => pc'[t] = pc[t]
      BY <1>1, Zenon
    <3>2. /\ pc[q] = "record" => pc'[q] = pc[q] /\ ld'[q] = ld[q]
          /\ pc'[q] \in Loading => pc'[q] = pc[q] /\ ld'[q] = ld[q]
      BY <1>1, <1>5, Zenon
    <3>3. spt'[q][h] = spt[q][h]
      BY <1>3, <2>3, Zenon
    <3> QED BY <1>4, <2>1, <3>1, <3>2, <3>3, ZenonT(30) DEF EntryOf
  <2> QED BY <2>2, <2>3, Zenon
<1>11. Ends'
  <2>1. EndOf(p)'
    BY <1>1, Zenon DEF EndOf, Unmapping, Ending
  <2>2. \A q \in Proc \ {p} : EndOf(q)'
    <3> TAKE q \in Proc \ {p}
    <3>1. pc'[q] = pc[q] /\ ld'[q] = ld[q] /\ \A h \in Page : spt'[q][h] = spt[q][h]
      BY <1>1, <1>3, Zenon
    <3>2. EndOf(q) /\ ld[q].g \in Page
      BY LocalTypes, Zenon DEF IInv, Ends
    <3> QED BY <1>4, <1>5, <3>1, <3>2, SMTT(30) DEF EndOf
  <2> QED BY <2>1, <2>2, Zenon DEF Ends
<1>12. Evicts'
  <2>1. OneEvictor'
    BY <1>4, <1>5, ZenonT(30) DEF IInv, Evicts, OneEvictor
  <2>2. \A q, o \in Proc, h \in Page : EvictOf(q, o, h)'
    <3> TAKE q, o \in Proc, h \in Page
    <3>1. EvictOf(q, o, h)
      BY Zenon DEF IInv, Evicts
    <3>2. CASE o = p /\ h = g
      BY <1>4, <1>5, <3>2, Zenon DEF EvictOf, NoEvictor
    <3>3. CASE o # p \/ h # g
      BY <1>1, <1>3, <1>4, <1>5, <3>1, <3>3, SMTT(30) DEF EvictOf, Busy, InEvict
    <3> QED BY <3>2, <3>3, Zenon
  <2> QED BY <2>1, <2>2, Zenon DEF Evicts
<1>13. Kinds'
  <2>1. \A q \in Proc, h \in Page : KindOf(q, h)'
    BY <1>2, <1>3, <1>4, SMTT(30) DEF IInv, Kinds, KindOf
  <2>2. \A q \in Proc : EvictKind(q)'
    BY <1>4, <1>5, SMTT(30) DEF IInv, Kinds, EvictKind, Busy, InEvict
  <2> QED BY <2>1, <2>2, Zenon DEF Kinds
<1>14. FrameContents'
  <2> SUFFICES ASSUME NEW x \in Table PROVE FrameHolds(x)'
    BY <1>4, Zenon DEF FrameContents
  <2>1. x.p \in Proc /\ x.g \in Page /\ FrameHolds(x)
    BY Refers, Zenon DEF IInv, FrameContents
  <2>2. pc'[x.p] \in {"install", "unmap_free"} =>
          pc[x.p] = pc'[x.p] /\ ld'[x.p] = ld[x.p] /\ x.p # p
    BY <1>1, <2>1, Zenon
  <2> QED BY <1>3, <1>4, <2>1, <2>2, Zenon DEF FrameHolds
<1>15. EvictContents'
  BY <1>4, <1>5, SMTT(30) DEF IInv, EvictContents, EvictHolds
<1>16. \A q \in Proc, h \in Page : /\ Resting(q, h)' <=> Resting(q, h)
                                   /\ Resting(q, h) => spt'[q][h] = spt[q][h]
  <2> SUFFICES ASSUME NEW q \in Proc, NEW h \in Page
               PROVE  /\ Resting(q, h)' <=> Resting(q, h)
                      /\ Resting(q, h) => spt'[q][h] = spt[q][h]
    BY Zenon
  <2>1. CASE q = p /\ h = g
    BY <1>2, <1>3, <2>1, Zenon DEF Resting, IInv, Kinds, KindOf
  <2>2. CASE q # p \/ h # g
    <3>1. NoEvictor(q, h)' <=> NoEvictor(q, h)
      BY <1>4, <1>5, Zenon DEF NoEvictor
    <3>2. (pc'[q] \in {"install", "record"} /\ ld'[q].g = h) <=>
          (pc[q] \in {"install", "record"} /\ ld[q].g = h)
      BY <1>1, Zenon
    <3> QED BY <1>3, <2>2, <3>1, <3>2, Zenon DEF Resting
  <2> QED BY <2>1, <2>2, Zenon
<1>17. Swapped'
  <2>1. \A q \in Proc, h \in Page : SlotHolds(q, h)'
    BY <1>4, <1>5, <1>16, Zenon DEF IInv, Swapped, SlotHolds
  <2>2. \A q \in Proc : EvictSlots(q)'
    BY <1>4, <1>5, Refers, SMTT(30) DEF IInv, Swapped, EvictSlots, InEvict, Busy
  <2> QED BY <2>1, <2>2, Zenon DEF Swapped
<1>18. Claims'
  <2>1. \A t \in Proc : pc[t] = "evict_slot" => pc'[t] = pc[t]
    BY <1>1, Zenon
  <2> QED BY <1>4, <1>16, <2>1, SMTT(30) DEF IInv, Claims, ClaimOf
<1>19. Pins'
  BY <1>1, <1>4, Refers, SMTT(30) DEF IInv, Pins
<1> QED BY <1>6, <1>7, <1>8, <1>9, <1>10, <1>11, <1>12, <1>13, <1>14, <1>15, <1>17, <1>18, <1>19,
           Zenon DEF IInv

\* mmap_map adds an entry.
LEMMA Maps ==
  ASSUME IInv, NEW p \in Proc, NEW g \in Page, mmap_map(p, g)
  PROVE  IInv'
<1>1. /\ pc[p] = "user" /\ g \in Layout[p] /\ Kind[g] = "map" /\ spt[p][g] = None
      /\ spt' = [spt EXCEPT ![p][g] = spt_set_mmap]
      /\ UNCHANGED <<pte, frameVars, content, swap, file, ev, outcome>>
      /\ pc' = [pc EXCEPT ![p] = "user"] /\ ld' = [ld EXCEPT ![p] = ld[p]]
  BY LocalTypes, Zenon DEF mmap_map, Running
<1>2. touches' \in [Proc -> Nat]
  <2>1. touches[p] \in Nat /\ touches[p] > 0 /\ touches' = [touches EXCEPT ![p] = touches[p] - 1]
    BY LocalTypes, Zenon DEF mmap_map
  <2> QED BY <2>1, LocalTypes, SMTT(30)
<1>3. pte[p][g].f = None /\ NoEvictor(p, g)
  BY <1>1, SMTT(30) DEF IInv, HasEntry, EntryOf, Evicts, EvictOf, NoEvictor
<1>4. Alive(p)' <=> Alive(p)
  BY <1>1, SMTT(30) DEF Alive
<1>5. ld[p] \in Locals /\ ld[p].g \in Layout[p]
  BY LocalTypes, Zenon
<1> QED BY <1>1, <1>2, <1>3, <1>4, <1>5, EntryStep, Zenon

\* spt_remove_entry drops the entry of an unmapped page.
LEMMA RemoveStep ==
  ASSUME IInv, NEW p \in Proc, spt_remove_entry(p)
  PROVE  IInv'
<1>1. PICK g, l : g = ld[p].g /\ l = ld[p].then
  BY Zenon
<1>2. pc[p] = "unmap_remove"
  BY Zenon DEF spt_remove_entry, Running
<1>3. CASE Evicting(p, g) # {}
  <2>1. Stop("freed_entry")
    BY <1>1, <1>3, Zenon DEF spt_remove_entry
  <2> QED BY <2>1, StopsStep, Outcomes, Zenon DEF Windows
<1>4. CASE Evicting(p, g) = {}
  <2>1. /\ spt' = [spt EXCEPT ![p][g] = None]
        /\ pc' = [pc EXCEPT ![p] = l] /\ ld' = [ld EXCEPT ![p] = Idle(p)]
        /\ UNCHANGED <<pte, frameVars, content, swap, file, ev, touches, outcome>>
    BY <1>1, <1>4, Zenon DEF spt_remove_entry, Goto
  <2>2. /\ g \in Page /\ g \in Layout[p] /\ Kind[g] = "map" /\ pte[p][g].f = None
        /\ l \in {"user", "exit"}
    BY <1>1, <1>2, LocalTypes, Zenon DEF IInv, Ends, EndOf, Filling, Typed, Unmapping
  <2>3. NoEvictor(p, g)
    BY <1>4, Zenon DEF NoEvictor, Evicting
  <2>4. Alive(p)' <=> Alive(p)
    BY <1>1, <1>2, <2>1, <2>2, LocalTypes, IdleLocals, Zenon DEF Alive
  <2> QED BY <1>2, <2>1, <2>2, <2>3, <2>4, LocalTypes, IdleLocals, EntryStep, Zenon
<1> QED BY <1>3, <1>4, Zenon

\* load_segment and setup_stack build a table of entries not loaded.
LEMMA StartStep ==
  ASSUME IInv, NEW p \in Proc, setup_stack(p)
  PROVE  IInv'
<1> DEFINE New == [g \in Page |->
                     IF g \notin Layout[p] \/ Kind[g] \in {"grow", "map"} THEN None
                     ELSE IF Kind[g] = "stack" THEN spt_set_zero ELSE load_segment(g)]
<1>1. /\ pc[p] = "load"
      /\ spt' = [spt EXCEPT ![p] = New] /\ ld' = [ld EXCEPT ![p] = Idle(p)]
      /\ pc' = [pc EXCEPT ![p] = "alloc"]
      /\ UNCHANGED <<pte, frameVars, content, swap, file, ev, touches, outcome>>
  BY Zenon DEF setup_stack, Running, Goto
<1>2. /\ spt_set_zero \in Entry /\ spt_set_zero.type = "ZERO"
      /\ spt_set_zero.loaded = FALSE /\ spt_set_zero.writable = TRUE
  BY Zenon DEF spt_set_zero, NewEntry, Entry
<1>3. \A g \in Page : /\ load_segment(g) \in Entry /\ load_segment(g).type = "FILE"
                      /\ load_segment(g).loaded = FALSE
                      /\ load_segment(g).writable <=> Kind[g] # "code"
  <2>1. \A b \in BOOLEAN : /\ spt_set_file(b) \in Entry /\ spt_set_file(b).type = "FILE"
                           /\ spt_set_file(b).loaded = FALSE /\ spt_set_file(b).writable = b
    BY Zenon DEF spt_set_file, NewEntry, Entry
  <2> QED BY <2>1, Zenon DEF load_segment
<1>4. /\ New \in [Page -> {None} \cup Entry]
      /\ \A g \in Page : New[g] # None =>
           /\ g \in Layout[p] /\ Kind[g] \notin {"grow", "map"}
           /\ New[g].type \in {"ZERO", "FILE"} /\ New[g].loaded = FALSE
           /\ Kind[g] = "code" => New[g].type = "FILE"
           /\ New[g].writable <=> Kind[g] # "code"
  BY <1>2, <1>3, Zenon
<1>5. StackPage(p) \in Page /\ Kind[StackPage(p)] = "stack" /\ New[StackPage(p)] # None
  <2>1. StackPage(p) \in Layout[p] /\ Kind[StackPage(p)] = "stack" /\ StackPage(p) \in Page
    BY MemoryAssumption, Zenon DEF StackPage
  <2> QED BY <1>2, <2>1, NoneIsNothing, Zenon
<1> HIDE DEF New
<1>6. /\ \A g \in Page : pte[p][g].f = None /\ spt[p][g] = None
      /\ \A q \in Proc : pc[q] \in InEvict => ev[q].p # p
  BY <1>1, Zenon DEF IInv, Ends, EndOf
<1>7. /\ pc' \in [Proc -> PC] /\ ld' \in [Proc -> Locals]
      /\ pc'[p] = "alloc" /\ ld'[p] = Idle(p)
      /\ \A q \in Proc \ {p} : pc'[q] = pc[q] /\ ld'[q] = ld[q]
  BY <1>1, LocalTypes, IdleLocals, Zenon DEF PC, Loading, Seeking
<1>8. /\ spt' \in [Proc -> [Page -> {None} \cup Entry]] /\ spt'[p] = New
      /\ \A q \in Proc \ {p} : spt'[q] = spt[q]
  BY <1>1, <1>4, Zenon DEF IInv, Typed, TypeOK
<1>9. /\ pte' = pte /\ frame_table' = frame_table /\ clock_hand' = clock_hand
      /\ free_frames' = free_frames /\ content' = content /\ swap' = swap /\ file' = file
      /\ ev' = ev /\ outcome' = outcome /\ touches' = touches /\ Table' = Table
  BY <1>1, Zenon DEF frameVars, Table
<1>10. \A q \in Proc : /\ pc'[q] \in Busy \/ (pc[q] \in Busy /\ q # p) => pc'[q] = pc[q] /\ ld'[q] = ld[q] /\ q # p
                       /\ Hand(q)' <=> Hand(q)
                       /\ Alive(q)' <=> Alive(q)
                       /\ pc'[q] \in InEvict <=> pc[q] \in InEvict
  BY <1>1, <1>7, Zenon DEF Busy, Hand, Alive, InEvict
<1>11. \A x \in Table : x.p # p
  BY <1>1, <1>6, Refers, SMTT(30) DEF IInv, TableOwned
<1>12. Typed'
  <2>1. TypeOK'
    BY <1>7, <1>8, <1>9, Zenon DEF IInv, Typed, TypeOK, Locals
  <2> QED BY <1>1, <1>7, <1>9, <1>10, <2>1, IdleLocals, SMTT(30)
             DEF IInv, Typed, Unmapping, Loading, Seeking, InEvict
<1>13. Distinct' /\ Partition'
  BY <1>9, <1>10, Zenon DEF IInv, Distinct, Partition
<1>14. TableOwned' /\ Present'
  BY <1>1, <1>7, <1>9, Refers, SMTT(30) DEF IInv, TableOwned, Present, Own
<1>15. Filling'
  BY <1>5, <1>6, <1>7, <1>9, IdleLocals, StackIn, SMTT(30)
     DEF IInv, Filling, Own, Seeking, InEvict
<1>16. HasEntry'
  <2>1. \A h \in Page : EntryOf(p, h)'
    <3>1. ld'[p].g = StackPage(p)
      BY <1>7, SMTT(30) DEF Idle
    <3> QED BY <1>4, <1>5, <1>6, <1>8, <1>9, <3>1, SMTT(30) DEF EntryOf
  <2>2. \A q \in Proc \ {p}, h \in Page : EntryOf(q, h)'
    <3> TAKE q \in Proc \ {p}, h \in Page
    <3>1. EntryOf(q, h) /\ spt'[q] = spt[q] /\ pc'[q] = pc[q] /\ ld'[q] = ld[q]
      BY <1>7, <1>8, Zenon DEF IInv, HasEntry
    <3>2. \A t \in Proc : pc[t] \in {"evict_find", "evict_mark"} => pc'[t] = pc[t]
      BY <1>1, <1>7, Zenon
    <3> QED BY <1>9, <3>1, <3>2, Zenon DEF EntryOf
  <2> QED BY <2>1, <2>2, Zenon DEF HasEntry
<1>17. Ends'
  <2>1. EndOf(p)'
    BY <1>7, Zenon DEF EndOf, Unmapping, Ending
  <2>2. \A q \in Proc \ {p} : EndOf(q)'
    <3> TAKE q \in Proc \ {p}
    <3>1. pc'[q] = pc[q] /\ ld'[q] = ld[q] /\ spt'[q] = spt[q] /\ EndOf(q)
      BY <1>7, <1>8, Zenon DEF IInv, Ends
    <3> QED BY <1>9, <1>10, <3>1, Zenon DEF EndOf
  <2> QED BY <2>1, <2>2, Zenon DEF Ends
<1>18. Evicts'
  <2>1. OneEvictor'
    BY <1>9, <1>10, Zenon DEF IInv, Evicts, OneEvictor
  <2>2. \A q, o \in Proc, h \in Page : EvictOf(q, o, h)'
    <3> TAKE q, o \in Proc, h \in Page
    <3>1. EvictOf(q, o, h)
      BY Zenon DEF IInv, Evicts
    <3>2. CASE o = p
      BY <1>6, <1>9, <1>10, <3>2, Zenon DEF EvictOf
    <3>3. CASE o # p
      BY <1>7, <1>8, <1>9, <1>10, <3>1, <3>3, Zenon DEF EvictOf, Busy, InEvict
    <3> QED BY <3>2, <3>3, Zenon
  <2> QED BY <2>1, <2>2, Zenon DEF Evicts
<1>19. Kinds'
  <2>1. \A h \in Page : KindOf(p, h)'
    BY <1>4, <1>8, <1>9, Zenon DEF IInv, Kinds, KindOf
  <2>2. \A q \in Proc \ {p}, h \in Page : KindOf(q, h)'
    BY <1>8, <1>9, SMTT(30) DEF IInv, Kinds, KindOf
  <2>3. \A q \in Proc : EvictKind(q)'
    BY <1>1, <1>7, <1>9, <1>10, SMTT(30) DEF IInv, Kinds, EvictKind
  <2> QED BY <2>1, <2>2, <2>3, Zenon DEF Kinds
<1>20. FrameContents'
  <2> SUFFICES ASSUME NEW x \in Table PROVE FrameHolds(x)'
    BY <1>9, Zenon DEF FrameContents
  <2>1. x.p \in Proc \ {p} /\ FrameHolds(x)
    BY <1>11, Refers, Zenon DEF IInv, FrameContents
  <2>2. pc'[x.p] = pc[x.p] /\ ld'[x.p] = ld[x.p] /\ spt'[x.p] = spt[x.p]
    BY <1>7, <1>8, <2>1, Zenon
  <2> QED BY <1>9, <2>1, <2>2, Zenon DEF FrameHolds
<1>21. EvictContents'
  BY <1>9, <1>10, Zenon DEF IInv, EvictContents, EvictHolds
<1>22. \A q \in Proc, h \in Page : /\ Resting(q, h)' <=> Resting(q, h)
                                   /\ Resting(q, h) => spt'[q][h] = spt[q][h]
  <2> SUFFICES ASSUME NEW q \in Proc, NEW h \in Page
               PROVE  /\ Resting(q, h)' <=> Resting(q, h)
                      /\ Resting(q, h) => spt'[q][h] = spt[q][h]
    BY Zenon
  <2>1. CASE q = p
    BY <1>4, <1>6, <1>8, <2>1, Zenon DEF Resting
  <2>2. CASE q # p
    <3>1. NoEvictor(q, h)' <=> NoEvictor(q, h)
      BY <1>9, <1>10, Zenon DEF NoEvictor
    <3>2. pc'[q] = pc[q] /\ ld'[q] = ld[q] /\ spt'[q] = spt[q]
      BY <1>7, <1>8, <2>2, Zenon
    <3> QED BY <3>1, <3>2, Zenon DEF Resting
  <2> QED BY <2>1, <2>2, Zenon
<1>23. Swapped'
  <2>1. \A q \in Proc, h \in Page : SlotHolds(q, h)'
    BY <1>9, <1>10, <1>22, Zenon DEF IInv, Swapped, SlotHolds
  <2>2. \A q \in Proc : EvictSlots(q)'
    BY <1>9, <1>10, Refers, Zenon DEF IInv, Swapped, EvictSlots, InEvict, Busy
  <2> QED BY <2>1, <2>2, Zenon DEF Swapped
<1>24. Claims'
  <2> SUFFICES ASSUME NEW s \in Slot \ {0}, NEW q \in Proc, NEW h \in Page PROVE ClaimOf(s, q, h)'
    BY Zenon DEF Claims
  <2>1. \A t \in Proc : pc[t] = "evict_slot" => pc'[t] = pc[t]
    BY <1>1, <1>7, Zenon
  <2>2. ClaimOf(s, q, h)
    BY Zenon DEF IInv, Claims
  <2> QED BY <1>9, <1>22, <2>1, <2>2, Zenon DEF ClaimOf
<1>25. Pins'
  BY <1>1, <1>7, <1>9, Refers, ZenonT(30) DEF IInv, Pins
<1> QED BY <1>12, <1>13, <1>14, <1>15, <1>16, <1>17, <1>18, <1>19, <1>20, <1>21, <1>23, <1>24,
           <1>25, Zenon DEF IInv

\* mmap_unmap writes a dirty page back.
LEMMA UnmapWriteStep ==
  ASSUME IInv, NEW p \in Proc, UnmapWrite(p)
  PROVE  IInv'
<1>1. PICK g, f, v : g = ld[p].g /\ f = ld[p].f /\ v = content[f][3]
  BY Zenon
<1>2. pc[p] = "unmap_write"
  BY Zenon DEF UnmapWrite, Running
<1>3. CASE ~Holds(p, g, f)
  <2>1. Stop("stolen_frame")
    BY <1>1, <1>3, Zenon DEF UnmapWrite
  <2> QED BY <2>1, StopsStep, Outcomes, Zenon DEF Windows
<1>4. CASE Holds(p, g, f)
  <2>1. /\ file' = [file EXCEPT ![p][g] = v] /\ pc' = [pc EXCEPT ![p] = "unmap_free"]
        /\ UNCHANGED <<spt, pte, frameVars, content, swap, ld, ev, touches, outcome>>
    BY <1>1, <1>4, Zenon DEF UnmapWrite, Goto
  <2>2. Own(p, g, f) /\ g \in Page
    BY <1>1, <1>4, HoldsOwn, Types, LocalTypes, Zenon DEF IInv
  <2>3. /\ pte[p][g].f = f /\ content[f] \in Contents /\ NoEvictor(p, g)
        /\ \A x \in Table : x.p = p /\ x.g = g => x.f = f
    BY <1>2, <2>2, Registered, Zenon
  <2>4. v \in {0, 1}
    BY <1>1, <2>3, Zenon DEF Contents
  <2>5. /\ pc' \in [Proc -> PC] /\ pc'[p] = "unmap_free" /\ \A q \in Proc \ {p} : pc'[q] = pc[q]
    BY <2>1, LocalTypes, Zenon DEF PC, Unmapping
  <2>6. /\ file' \in [Proc -> [Page -> {0, 1}]] /\ file'[p][g] = v
        /\ \A q \in Proc, h \in Page : (q # p \/ h # g) => file'[q][h] = file[q][h]
    BY <2>1, <2>2, <2>4, Zenon DEF IInv, Typed, TypeOK
  <2>7. /\ spt' = spt /\ pte' = pte /\ frame_table' = frame_table /\ clock_hand' = clock_hand
        /\ free_frames' = free_frames /\ content' = content /\ swap' = swap
        /\ ld' = ld /\ ev' = ev /\ touches' = touches /\ outcome' = outcome /\ Table' = Table
    BY <2>1, Zenon DEF frameVars, Table
  <2>8. \A q \in Proc : /\ pc'[q] \in Busy \/ pc[q] \in Busy => pc'[q] = pc[q] /\ q # p
                        /\ pc'[q] \in Loading <=> pc[q] \in Loading
                        /\ pc'[q] \in InEvict <=> pc[q] \in InEvict
                        /\ Hand(q)' <=> Hand(q)
                        /\ Alive(q)' <=> Alive(q)
    BY <1>2, <2>5, <2>7, Zenon DEF InEvict, Loading, Seeking, Hand, Alive, Busy
  <2>9. Typed'
    BY <1>2, <2>5, <2>6, <2>7, <2>8, Zenon DEF IInv, Typed, TypeOK, Unmapping
  <2>10. Distinct' /\ Partition'
    BY <2>7, <2>8, Zenon DEF IInv, Distinct, Partition
  <2>11. TableOwned' /\ Present'
    BY <1>2, <2>5, <2>7, Refers, SMTT(30) DEF IInv, TableOwned, Present, Own
  <2>12. Filling'
    BY <1>2, <2>5, <2>7, SMTT(30) DEF IInv, Filling, Own, Seeking, InEvict
  <2>13. HasEntry'
    <3> SUFFICES ASSUME NEW q \in Proc, NEW h \in Page PROVE EntryOf(q, h)'
      BY Zenon DEF HasEntry
    <3>1. EntryOf(q, h)
      BY Zenon DEF IInv, HasEntry
    <3>2. /\ pc[q] = "record" => pc'[q] = "record"
          /\ \A t \in Proc : pc[t] \in {"evict_find", "evict_mark"} => pc'[t] = pc[t]
      BY <1>2, <2>5, Zenon
    <3> QED BY <2>7, <2>8, <3>1, <3>2, Zenon DEF EntryOf
  <2>14. Ends'
    <3> SUFFICES ASSUME NEW q \in Proc PROVE EndOf(q)'
      BY Zenon DEF Ends
    <3>1. EndOf(q)
      BY Zenon DEF IInv, Ends
    <3>2. pc'[q] \in {"load", "dead", "destroy_free"} \cup Ending => pc'[q] = pc[q]
      BY <2>5, Zenon DEF Ending
    <3>3. /\ pc'[q] \in Unmapping => pc[q] \in Unmapping
          /\ pc'[q] \in Unmapping \cup {"destroy_free"} => pc[q] \in Unmapping \cup {"destroy_free"}
      BY <1>2, <2>5, Zenon DEF Unmapping
    <3> QED BY <2>7, <2>8, <3>1, <3>2, <3>3, Zenon DEF EndOf
  <2>15. Evicts'
    <3>1. OneEvictor'
      BY <2>7, <2>8, Zenon DEF IInv, Evicts, OneEvictor
    <3>2. ASSUME NEW q \in Proc, NEW o \in Proc, NEW h \in Page PROVE EvictOf(q, o, h)'
      <4>1. EvictOf(q, o, h)
        BY Zenon DEF IInv, Evicts
      <4>2. pc'[q] \in {"evict_find", "evict_mark"} <=> pc[q] \in {"evict_find", "evict_mark"}
        BY <1>2, <2>5, Zenon
      <4> QED BY <2>7, <2>8, <4>1, <4>2, Zenon DEF EvictOf
    <3> QED BY <3>1, <3>2, Zenon DEF Evicts
  <2>16. Kinds'
    BY <1>2, <2>5, <2>7, <2>8, ZenonT(30) DEF IInv, Kinds, KindOf, EvictKind
  <2>17. FrameContents'
    <3> SUFFICES ASSUME NEW x \in Table PROVE FrameHolds(x)'
      BY <2>7, Zenon DEF FrameContents
    <3>1. x.p \in Proc /\ x.g \in Page /\ FrameHolds(x)
      BY Refers, Zenon DEF IInv, FrameContents
    <3>2. pc'[x.p] = "install" => pc[x.p] = "install" /\ x.p # p
      BY <2>5, <3>1, Zenon
    <3>3. CASE x.p = p /\ x.g = g
      <4>1. content[x.f][3] = file'[p][g]
        BY <1>1, <2>3, <2>6, <3>3, Zenon
      <4> QED BY <2>7, <3>1, <3>2, <3>3, <4>1, Zenon DEF FrameHolds
    <3>4. CASE x.p # p \/ x.g # g
      <4>1. file'[x.p][x.g] = file[x.p][x.g]
        BY <2>6, <3>1, <3>4, Zenon
      <4>2. pc'[x.p] = "unmap_free" /\ ld[x.p].g = x.g => pc[x.p] = "unmap_free"
        BY <1>1, <2>5, <3>1, <3>4, Zenon
      <4> QED BY <2>7, <3>1, <3>2, <4>1, <4>2, Zenon DEF FrameHolds
    <3> QED BY <3>3, <3>4, Zenon
  <2>18. EvictContents'
    <3> SUFFICES ASSUME NEW q \in Proc, pc'[q] \in InEvict PROVE EvictHolds(q)'
      BY Zenon DEF EvictContents, EvictHolds
    <3>1. pc[q] \in InEvict /\ EvictHolds(q) /\ ev[q].p \in Proc /\ ev[q].g \in Page
      BY <2>8, Refers, Zenon DEF IInv, EvictContents
    <3>2. file'[ev[q].p][ev[q].g] = file[ev[q].p][ev[q].g]
      BY <2>3, <2>6, <3>1, Zenon DEF NoEvictor
    <3> QED BY <2>7, <3>1, <3>2, Zenon DEF EvictHolds
  <2>19. \A q \in Proc, h \in Page : Resting(q, h)' <=> Resting(q, h)
    BY <1>2, <2>5, <2>7, <2>8, Zenon DEF Resting, NoEvictor
  <2>20. Swapped'
    <3>1. \A q \in Proc, h \in Page : SlotHolds(q, h)'
      BY <2>7, <2>8, <2>19, Zenon DEF IInv, Swapped, SlotHolds
    <3>2. \A q \in Proc : EvictSlots(q)'
      BY <1>2, <2>5, <2>7, <2>8, Refers, Zenon DEF IInv, Swapped, EvictSlots, InEvict
    <3> QED BY <3>1, <3>2, Zenon DEF Swapped
  <2>21. Claims'
    BY <1>2, <2>5, <2>7, <2>19, SMTT(30) DEF IInv, Claims, ClaimOf
  <2>22. Pins'
    BY <1>2, <2>5, <2>7, Refers, SMTT(30) DEF IInv, Pins
  <2> QED BY <2>9, <2>10, <2>11, <2>12, <2>13, <2>14, <2>15, <2>16, <2>17, <2>18, <2>20, <2>21,
             <2>22, Zenon DEF IInv
<1> QED BY <1>3, <1>4, Zenon

\* mmap_unmap clears the page table after the frame is freed.
LEMMA ClearStep ==
  ASSUME IInv, NEW p \in Proc, UnmapClear(p)
  PROVE  IInv'
<1>1. PICK g : g = ld[p].g
  BY Zenon
<1>2. /\ pc[p] = "unmap_clear" /\ pc' = [pc EXCEPT ![p] = "unmap_remove"]
      /\ pte' = [pte EXCEPT ![p][g].f = None]
      /\ UNCHANGED <<spt, frameVars, content, swap, file, ld, ev, touches, outcome>>
  BY <1>1, Zenon DEF UnmapClear, Running, Goto, pagedir_clear_page
<1>3. /\ g \in Page /\ Kind[g] = "map" /\ \A x \in Table : ~(x.p = p /\ x.g = g)
  BY <1>1, <1>2, LocalTypes, Zenon DEF IInv, Filling, Ends, EndOf, Unmapping
<1>4. /\ pc' \in [Proc -> PC] /\ pc'[p] = "unmap_remove" /\ \A q \in Proc \ {p} : pc'[q] = pc[q]
  BY <1>2, LocalTypes, Zenon DEF PC, Unmapping
<1>5. /\ pte' \in [Proc -> [Page -> [f : Frame \cup {None}, A : BOOLEAN, D : BOOLEAN]]]
      /\ pte'[p][g].f = None /\ pte'[p][g].D = pte[p][g].D
      /\ \A q \in Proc, h \in Page : (q # p \/ h # g) => pte'[q][h] = pte[q][h]
  <2>1. pte \in [Proc -> [Page -> [f : Frame \cup {None}, A : BOOLEAN, D : BOOLEAN]]]
    BY Zenon DEF IInv, Typed, TypeOK
  <2>2. pte[p][g] \in [f : Frame \cup {None}, A : BOOLEAN, D : BOOLEAN]
    BY <1>3, <2>1, Zenon
  <2>3. /\ pte'[p][g] = [pte[p][g] EXCEPT !.f = None]
        /\ \A q \in Proc, h \in Page : (q # p \/ h # g) => pte'[q][h] = pte[q][h]
        /\ pte' = [pte EXCEPT ![p] = [pte[p] EXCEPT ![g] = [pte[p][g] EXCEPT !.f = None]]]
    BY <1>2, <1>3, <2>1, Zenon
  <2>4. [pte[p][g] EXCEPT !.f = None] \in [f : Frame \cup {None}, A : BOOLEAN, D : BOOLEAN]
    BY <2>2, Zenon
  <2> QED BY <1>3, <2>1, <2>2, <2>3, <2>4, ZenonT(30)
<1>6. /\ spt' = spt /\ file' = file /\ frame_table' = frame_table /\ clock_hand' = clock_hand
      /\ free_frames' = free_frames /\ content' = content /\ swap' = swap
      /\ ld' = ld /\ ev' = ev /\ touches' = touches /\ outcome' = outcome /\ Table' = Table
  BY <1>2, Zenon DEF frameVars, Table
<1>7. \A q \in Proc : /\ pc'[q] \in Loading <=> pc[q] \in Loading
                      /\ pc'[q] \in Seeking <=> pc[q] \in Seeking
                      /\ pc'[q] \in InEvict <=> pc[q] \in InEvict
                      /\ Hand(q)' <=> Hand(q)
                      /\ Alive(q)' <=> Alive(q)
  BY <1>2, <1>4, <1>6, Zenon DEF InEvict, Loading, Seeking, Hand, Alive
<1>8. Typed'
  BY <1>2, <1>4, <1>5, <1>6, <1>7, SMTT(30) DEF IInv, Typed, TypeOK, Unmapping
<1>9. Distinct' /\ Partition'
  BY <1>6, <1>7, ZenonT(30) DEF IInv, Distinct, Partition
<1>10. TableOwned'
  BY <1>2, <1>3, <1>4, <1>5, <1>6, Refers, SMTT(30) DEF IInv, TableOwned
<1>11. Present'
  BY <1>1, <1>2, <1>4, <1>5, <1>6, SMTT(30) DEF IInv, Present, Own
<1>12. Filling'
  <2> SUFFICES ASSUME NEW q \in Proc
               PROVE  (/\ pc[q] \in {"fill", "install", "record"} => Own(q, ld[q].g, ld[q].f)
                       /\ pc[q] \in Seeking \cup {"fill", "install", "unmap_remove"} =>
                            pte[q][ld[q].g].f = None
                       /\ pc[q] = "record" => pte[q][ld[q].g].f = ld[q].f
                       /\ pc[q] = "unmap_clear" => \A x \in Table : ~(x.p = q /\ x.g = ld[q].g))'
    BY Zenon DEF Filling
  <2>1. CASE q = p
    BY <1>1, <1>4, <1>5, <1>6, <2>1, Zenon DEF Seeking, InEvict
  <2>2. CASE q # p
    <3>1. PICK h \in Page : h = ld[q].g
      BY LocalTypes, Zenon
    <3>2. pte'[q][h] = pte[q][h] /\ pc'[q] = pc[q]
      BY <1>4, <1>5, <2>2, Zenon
    <3> QED BY <1>6, <3>1, <3>2, SMTT(30) DEF IInv, Filling, Own
  <2> QED BY <2>1, <2>2, Zenon
<1>13. HasEntry'
  BY <1>2, <1>3, <1>4, <1>5, <1>6, <1>7, SMTT(30) DEF IInv, HasEntry, EntryOf
<1>14. Ends'
  BY <1>2, <1>3, <1>4, <1>5, <1>6, <1>7, SMTT(30) DEF IInv, Ends, EndOf, Ending, Unmapping
<1>15. Evicts'
  <2>1. \A q \in Proc, h \in Page : pte[q][h].f = None => pte'[q][h].f = None
    BY <1>5, Zenon
  <2>2. \A q \in Proc : pc[q] \in InEvict => pc'[q] = pc[q]
    BY <1>2, <1>4, Zenon DEF InEvict
  <2> QED BY <1>6, <1>7, <2>1, <2>2, SMTT(30) DEF IInv, Evicts, EvictOf, OneEvictor
<1>16. Kinds'
  <2>1. \A q \in Proc, h \in Page : KindOf(q, h)'
    BY <1>5, <1>6, SMTT(30) DEF IInv, Kinds, KindOf
  <2>2. \A q \in Proc : EvictKind(q)'
    BY <1>2, <1>4, <1>6, <1>7, Zenon DEF IInv, Kinds, EvictKind
  <2> QED BY <2>1, <2>2, Zenon DEF Kinds
<1>17. FrameContents'
  <2> SUFFICES ASSUME NEW x \in Table PROVE FrameHolds(x)'
    BY <1>6, Zenon DEF FrameContents
  <2>1. x.p \in Proc /\ x.g \in Page /\ FrameHolds(x) /\ (x.p # p \/ x.g # g)
    BY <1>3, Refers, Zenon DEF IInv, FrameContents
  <2>2. pc'[x.p] \in {"install", "unmap_free"} => pc[x.p] = pc'[x.p]
    BY <1>4, <2>1, Zenon
  <2>3. pte'[x.p][x.g] = pte[x.p][x.g]
    BY <1>5, <2>1, Zenon
  <2> QED BY <1>6, <2>1, <2>2, <2>3, Zenon DEF FrameHolds
<1>18. EvictContents'
  BY <1>6, <1>7, Zenon DEF IInv, EvictContents, EvictHolds
<1>19. \A q \in Proc, h \in Page : Resting(q, h)' <=> Resting(q, h)
  BY <1>2, <1>4, <1>6, <1>7, ZenonT(30) DEF Resting, NoEvictor
<1>20. Swapped'
  <2>1. \A q \in Proc, h \in Page : SlotHolds(q, h)'
    BY <1>6, <1>7, <1>19, Zenon DEF IInv, Swapped, SlotHolds
  <2>2. \A q \in Proc : EvictSlots(q)'
    BY <1>2, <1>4, <1>6, <1>7, Refers, Zenon DEF IInv, Swapped, EvictSlots, InEvict
  <2> QED BY <2>1, <2>2, Zenon DEF Swapped
<1>21. Claims'
  BY <1>2, <1>4, <1>6, <1>19, SMTT(30) DEF IInv, Claims, ClaimOf
<1>22. Pins'
  BY <1>2, <1>4, <1>6, Refers, SMTT(30) DEF IInv, Pins
<1> QED BY <1>8, <1>9, <1>10, <1>11, <1>12, <1>13, <1>14, <1>15, <1>16, <1>17, <1>18, <1>20,
           <1>21, <1>22, Zenon DEF IInv

\* mmap_unmap frees the frame of the page.
LEMMA UnmapFreeStep ==
  ASSUME IInv, NEW p \in Proc, UnmapFree(p)
  PROVE  IInv'
<1>1. PICK g, f : g = ld[p].g /\ f = ld[p].f
  BY Zenon
<1>2. pc[p] = "unmap_free"
  BY Zenon DEF UnmapFree, Running
<1>3. CASE ~Holds(p, g, f)
  <2>1. Stop("stolen_frame")
    BY <1>1, <1>3, Zenon DEF UnmapFree
  <2> QED BY <2>1, StopsStep, Outcomes, Zenon DEF Windows
<1>4. CASE Holds(p, g, f) /\ Walked(p)
  <2>1. Stop("walk")
    BY <1>1, <1>4, Zenon DEF UnmapFree
  <2> QED BY <2>1, StopsStep, Outcomes, Zenon DEF Windows
<1>5. CASE Holds(p, g, f) /\ ~Walked(p)
  <2>1. /\ frame_free(f) /\ pc' = [pc EXCEPT ![p] = "unmap_clear"]
        /\ UNCHANGED <<spt, pte, swap, file, ld, ev, touches, outcome>>
    BY <1>1, <1>5, Zenon DEF UnmapFree, Goto
  <2>2. Own(p, g, f) /\ g \in Page
    BY <1>1, <1>5, HoldsOwn, Types, LocalTypes, Zenon DEF IInv
  <2>3. /\ pte[p][g].f = f /\ f # None
        /\ \A x \in Table : x.p = p /\ x.g = g => x.f = f
    BY <1>2, <2>2, Registered, Zenon
  <2>4. PICK x0 \in Table : x0.p = p /\ x0.g = g /\ x0.f = f
    BY <2>2, Zenon DEF Own
  <2>5. /\ pc' \in [Proc -> PC] /\ pc'[p] = "unmap_clear" /\ \A q \in Proc \ {p} : pc'[q] = pc[q]
    BY <2>1, LocalTypes, Zenon DEF PC, Unmapping
  <2>6. /\ spt' = spt /\ pte' = pte /\ swap' = swap /\ file' = file /\ ld' = ld
        /\ ev' = ev /\ touches' = touches /\ outcome' = outcome
    BY <2>1, Zenon
  <2>7. \A q \in Proc : /\ pc'[q] \in Loading <=> pc[q] \in Loading
                        /\ pc'[q] \in Unmapping <=> pc[q] \in Unmapping
                        /\ pc'[q] \in InEvict <=> pc[q] \in InEvict
                        /\ pc[q] \in InEvict => pc'[q] = pc[q]
                        /\ Hand(q)' <=> Hand(q)
                        /\ Alive(q)' <=> Alive(q)
    BY <1>2, <2>5, <2>6, Zenon DEF InEvict, Loading, Seeking, Hand, Alive, Unmapping
  <2>8. SameHands
    BY <2>6, <2>7, Zenon DEF SameHands
  <2>9. /\ frame_table' \in Seq(FrameEntry) /\ Distinct' /\ Partition' /\ Table' = Table \ {x0}
        /\ clock_hand' \in Frame \cup {None, Stale} /\ free_frames' \subseteq Frame
        /\ content' \in [Frame -> {None} \cup Contents]
        /\ \A y \in Table' : content'[y.f] = content[y.f]
        /\ \A q \in Proc : pc[q] \in InEvict => content'[ev[q].f] = content[ev[q].f]
    BY <2>1, <2>4, <2>8, Freed, Zenon
  <2>10. \A x \in Table' : x \in Table /\ x.p \in Proc /\ x.g \in Page /\ (x.p # p \/ x.g # g)
    BY <2>3, <2>4, <2>9, Refers, Unique, SMTT(30) DEF IInv
  <2>11. \A q, h, k : Own(q, h, k) /\ (q # p \/ h # g) => Own(q, h, k)'
    BY <2>4, <2>9, Zenon DEF Own
  <2>12. Typed'
    BY <2>5, <2>6, <2>7, <2>9, Zenon DEF IInv, Typed, TypeOK, FrameEntry
  <2>13. TableOwned'
    BY <1>2, <2>5, <2>6, <2>10, Zenon DEF IInv, TableOwned
  <2>14. Present'
    <3> SUFFICES ASSUME NEW q \in Proc, NEW h \in Page, pte[q][h].f # None
                 PROVE  Own(q, h, pte[q][h].f)' \/ (pc'[q] = "unmap_clear" /\ ld[q].g = h)
      BY <2>6, Zenon DEF Present
    <3>1. CASE q = p /\ h = g
      BY <1>1, <2>5, <3>1, Zenon
    <3>2. CASE q # p \/ h # g
      <4>1. PICK k : k = pte[q][h].f /\ k = pte'[q][h].f
        BY <2>6, Zenon
      <4>2. Own(q, h, k) \/ (pc[q] = "unmap_clear" /\ ld[q].g = h)
        BY <4>1, ZenonT(30) DEF IInv, Present
      <4>3. Own(q, h, k)' <=> Own(q, h, pte[q][h].f)'
        BY <4>1, Zenon DEF Own
      <4> QED BY <1>2, <2>5, <2>11, <3>2, <4>2, <4>3, Zenon
    <3> QED BY <3>1, <3>2, Zenon
  <2>15. Filling'
    <3> SUFFICES ASSUME NEW q \in Proc
                 PROVE  (/\ pc[q] \in {"fill", "install", "record"} => Own(q, ld[q].g, ld[q].f)
                         /\ pc[q] \in Seeking \cup {"fill", "install", "unmap_remove"} =>
                              pte[q][ld[q].g].f = None
                         /\ pc[q] = "record" => pte[q][ld[q].g].f = ld[q].f
                         /\ pc[q] = "unmap_clear" => \A x \in Table : ~(x.p = q /\ x.g = ld[q].g))'
      BY Zenon DEF Filling
    <3>1. CASE q = p
      BY <1>1, <2>5, <2>6, <2>10, <3>1, Zenon DEF Seeking, InEvict
    <3>2. CASE q # p
      <4>1. pc'[q] = pc[q] /\ ld'[q] = ld[q]
        BY <2>5, <2>6, <3>2, Zenon
      <4>2. Own(q, ld[q].g, ld[q].f) => Own(q, ld[q].g, ld[q].f)'
        BY <2>4, <2>9, <3>2, <4>1, Zenon DEF Own
      <4> QED BY <2>6, <2>10, <4>1, <4>2, Zenon DEF IInv, Filling
    <3> QED BY <3>1, <3>2, Zenon
  <2>16. HasEntry'
    <3> SUFFICES ASSUME NEW q \in Proc, NEW h \in Page PROVE EntryOf(q, h)'
      BY Zenon DEF HasEntry
    <3>1. EntryOf(q, h)
      BY Zenon DEF IInv, HasEntry
    <3>2. /\ pc[q] = "record" => pc'[q] = "record"
         /\ \A t \in Proc : pc[t] \in {"evict_find", "evict_mark"} => pc'[t] = pc[t]
      BY <1>2, <2>5, Zenon
    <3> QED BY <2>6, <2>7, <3>1, <3>2, Zenon DEF EntryOf
  <2>17. Ends'
    <3> SUFFICES ASSUME NEW q \in Proc PROVE EndOf(q)'
      BY Zenon DEF Ends
    <3>1. EndOf(q)
      BY Zenon DEF IInv, Ends
    <3>2. pc'[q] \in {"load", "dead", "destroy_free"} \cup Ending => pc'[q] = pc[q]
      BY <2>5, Zenon DEF Ending
    <3> QED BY <2>6, <2>7, <3>1, <3>2, Zenon DEF EndOf
  <2>18. Evicts'
    BY <2>6, <2>7, SMTT(30) DEF IInv, Evicts, EvictOf, OneEvictor
  <2>19. Kinds'
    <3>1. \A q \in Proc, h \in Page : KindOf(q, h)'
      BY <2>6, ZenonT(30) DEF IInv, Kinds, KindOf
    <3>2. \A q \in Proc : EvictKind(q)'
      BY <1>2, <2>5, <2>6, <2>7, Zenon DEF IInv, Kinds, EvictKind
    <3> QED BY <3>1, <3>2, Zenon DEF Kinds
  <2>20. FrameContents'
    <3> SUFFICES ASSUME NEW x \in Table' PROVE FrameHolds(x)'
      BY Zenon DEF FrameContents
    <3>1. x.p \in Proc /\ x.g \in Page /\ FrameHolds(x) /\ content'[x.f] = content[x.f]
      BY <2>9, <2>10, Zenon DEF IInv, FrameContents
    <3>2. pc'[x.p] \in {"install", "unmap_free"} => pc[x.p] = pc'[x.p]
      BY <1>2, <2>5, <3>1, Zenon
    <3> QED BY <2>6, <3>1, <3>2, Zenon DEF FrameHolds, Is
  <2>21. EvictContents'
    <3> SUFFICES ASSUME NEW q \in Proc, pc'[q] \in InEvict PROVE EvictHolds(q)'
      BY Zenon DEF EvictContents, EvictHolds
    <3>1. pc[q] \in InEvict /\ EvictHolds(q) /\ content'[ev[q].f] = content[ev[q].f]
      BY <2>7, <2>9, Zenon DEF IInv, EvictContents
    <3> QED BY <2>6, <3>1, Zenon DEF EvictHolds, Is
  <2>22. \A q \in Proc, h \in Page : Resting(q, h)' <=> Resting(q, h)
    BY <1>2, <2>5, <2>6, <2>7, ZenonT(30) DEF Resting, NoEvictor
  <2>23. Swapped'
    <3>1. \A q \in Proc, h \in Page : SlotHolds(q, h)'
      BY <2>6, <2>7, <2>22, Zenon DEF IInv, Swapped, SlotHolds
    <3>2. ASSUME NEW q \in Proc, pc'[q] = "evict_slot"
          PROVE  (ev[q].slot \in Slot /\ (Alive(ev[q].p) => swap[ev[q].slot] = content[ev[q].f]))'
      <4>1. pc[q] = "evict_slot" /\ pc[q] \in InEvict
        BY <1>2, <2>5, <3>2, Zenon DEF InEvict
      <4>2. ev[q].p \in Proc /\ EvictSlots(q)
        BY <4>1, Refers, Zenon DEF IInv, Swapped
      <4>3. Alive(ev[q].p)' <=> Alive(ev[q].p)
        BY <1>2, <2>5, <2>6, <4>2, Zenon DEF Alive
      <4> QED BY <2>6, <2>9, <4>1, <4>2, <4>3, Zenon DEF EvictSlots
    <3> QED BY <3>1, <3>2, Zenon DEF Swapped, EvictSlots
  <2>24. Claims'
    <3> SUFFICES ASSUME NEW s \in Slot \ {0}, NEW q \in Proc, NEW h \in Page PROVE ClaimOf(s, q, h)'
      BY Zenon DEF Claims
    <3>1. ClaimOf(s, q, h)
      BY Zenon DEF IInv, Claims
    <3>2. \A o \in Proc : pc[o] = "evict_slot" => pc'[o] = "evict_slot"
      BY <1>2, <2>5, Zenon
    <3> QED BY <2>6, <2>22, <3>1, <3>2, Zenon DEF ClaimOf
  <2>25. Pins'
    <3>1. ASSUME NEW x \in Table', x.pinned
          PROVE  /\ pc'[x.p] \in {"sys", "unpin", "unpin_walk"}
                 /\ ld[x.p].f = x.f /\ ld[x.p].g = x.g
      <4>1. /\ x.p \in Proc /\ pc[x.p] \in {"sys", "unpin", "unpin_walk"}
            /\ ld[x.p].f = x.f /\ ld[x.p].g = x.g
        BY <2>10, <3>1, Zenon DEF IInv, Pins
      <4> QED BY <1>2, <2>5, <4>1, Zenon
    <3>2. ASSUME NEW q \in Proc, pc'[q] = "sys", ld[q].f # None
          PROVE  \E x \in Table' : x.p = q /\ x.g = ld[q].g /\ x.f = ld[q].f /\ x.pinned
      <4>1. q # p /\ pc[q] = "sys"
        BY <2>5, <3>2, Zenon
      <4>2. PICK x \in Table : x.p = q /\ x.g = ld[q].g /\ x.f = ld[q].f /\ x.pinned
        BY <3>2, <4>1, Zenon DEF IInv, Pins
      <4> QED BY <2>4, <2>9, <4>1, <4>2, Zenon
    <3> QED BY <2>6, <3>1, <3>2, Zenon DEF Pins
  <2> QED BY <2>9, <2>12, <2>13, <2>14, <2>15, <2>16, <2>17, <2>18, <2>19, <2>20, <2>21, <2>23,
             <2>24, <2>25, Zenon DEF IInv
<1> QED BY <1>3, <1>4, <1>5, Zenon

\* spt_destroy_func frees the frame or the slot of an entry.
LEMMA DestroyStep ==
  ASSUME IInv, Looked, NEW p \in Proc, spt_destroy_func(p)
  PROVE  IInv'
<1>1. PICK g, f, s, b : /\ g = ld[p].g /\ f = ld[p].f /\ s = spt[p][g].slot
                        /\ b = (spt[p][g].type = "SWAP" /\ s # 0)
  BY Zenon
<1>2. pc[p] = "destroy_free"
  BY Zenon DEF spt_destroy_func, Running
<1>3. CASE \/ Evicting(p, g) # {}
           \/ f # None /\ (~Holds(p, g, f) \/ Walked(p))
           \/ b /\ swap[s] # None /\ swap[s][1] # p
  <2>1. \E o \in Windows : Stop(o)
    BY <1>1, <1>3, Zenon DEF spt_destroy_func, Windows
  <2> QED BY <2>1, StopsStep, Outcomes, Zenon DEF Windows
<1>4. CASE /\ Evicting(p, g) = {}
           /\ f # None => Holds(p, g, f) /\ ~Walked(p)
           /\ b /\ swap[s] # None => swap[s][1] = p
  <2>1. /\ pte' = [pte EXCEPT ![p][g].f = None]
        /\ IF f = None THEN UNCHANGED <<frameVars, content>> ELSE frame_free(f)
        /\ swap' = IF b THEN [swap EXCEPT ![s] = None] ELSE swap
        /\ spt' = [spt EXCEPT ![p][g] = None]
        /\ ld' = [ld EXCEPT ![p] = Idle(p)] /\ pc' = [pc EXCEPT ![p] = "destroy"]
        /\ UNCHANGED <<file, ev, touches, outcome>>
    BY <1>1, <1>4, Zenon DEF spt_destroy_func, pagedir_clear_page, Goto, swap_free
  <2>2. /\ g \in Page /\ spt[p][g] # None /\ NoEvictor(p, g) /\ ~Alive(p)
    BY <1>1, <1>2, <1>4, LocalTypes, Zenon DEF IInv, Ends, EndOf, Evicting, NoEvictor, Alive
  <2>3. b => s \in Slot
    BY <1>1, <2>2, Zenon DEF IInv, Kinds, KindOf
  <2>4. \A h \in Proc, k \in Page : b /\ Is(h, k, swap[s]) => h = p
    BY <1>4, Zenon DEF Is
  <2>5. /\ pc' \in [Proc -> PC] /\ pc'[p] = "destroy" /\ ld' \in [Proc -> Locals] /\ ld'[p] = Idle(p)
        /\ \A q \in Proc \ {p} : pc'[q] = pc[q] /\ ld'[q] = ld[q]
    BY <2>1, LocalTypes, IdleLocals, Zenon DEF PC, Ending
  <2>6. /\ pte' \in [Proc -> [Page -> [f : Frame \cup {None}, A : BOOLEAN, D : BOOLEAN]]]
        /\ pte'[p][g].f = None /\ pte'[p][g].D = pte[p][g].D
        /\ \A q \in Proc, h \in Page : (q # p \/ h # g) => pte'[q][h] = pte[q][h]
    <3>1. pte \in [Proc -> [Page -> [f : Frame \cup {None}, A : BOOLEAN, D : BOOLEAN]]]
      BY Zenon DEF IInv, Typed, TypeOK
    <3>2. pte[p][g] \in [f : Frame \cup {None}, A : BOOLEAN, D : BOOLEAN]
      BY <2>2, <3>1, Zenon
    <3>3. /\ pte'[p][g] = [pte[p][g] EXCEPT !.f = None]
          /\ \A q \in Proc, h \in Page : (q # p \/ h # g) => pte'[q][h] = pte[q][h]
          /\ pte' = [pte EXCEPT ![p] = [pte[p] EXCEPT ![g] = [pte[p][g] EXCEPT !.f = None]]]
      BY <2>1, <2>2, <3>1, Zenon
    <3>4. [pte[p][g] EXCEPT !.f = None] \in [f : Frame \cup {None}, A : BOOLEAN, D : BOOLEAN]
      BY <3>2, Zenon
    <3> QED BY <2>2, <3>1, <3>2, <3>3, <3>4, Zenon
  <2>7. /\ spt' \in [Proc -> [Page -> {None} \cup Entry]] /\ spt'[p][g] = None
        /\ \A q \in Proc, h \in Page : (q # p \/ h # g) => spt'[q][h] = spt[q][h]
    BY <2>1, <2>2, Zenon DEF IInv, Typed, TypeOK
  <2>8. /\ swap' \in [Slot -> {None} \cup Contents]
        /\ b => swap'[s] = None
        /\ \A k \in Slot : (~b \/ k # s) => swap'[k] = swap[k]
    BY <2>1, <2>3, Zenon DEF IInv, Typed, TypeOK
  <2>9. file' = file /\ ev' = ev /\ touches' = touches /\ outcome' = outcome
    BY <2>1, Zenon
  <2>10. /\ pc[p] \notin Loading /\ pc'[p] \notin Loading /\ ~Alive(p)'
         /\ \A q \in Proc : /\ pc'[q] \in InEvict <=> pc[q] \in InEvict
                            /\ pc[q] \in InEvict => pc'[q] = pc[q]
                            /\ Hand(q)' <=> Hand(q)
                            /\ Alive(q)' => Alive(q) /\ q # p
    BY <1>2, <2>5, Zenon DEF InEvict, Loading, Seeking, Hand, Alive
  <2>11. SameHands
    BY <2>9, <2>10, Zenon DEF SameHands
  <2>12. /\ frame_table' \in Seq(FrameEntry) /\ Distinct' /\ Partition'
         /\ Table' \subseteq Table /\ \A x \in Table : (x.p # p \/ x.g # g) => x \in Table'
         /\ \A x \in Table' : x.p # p \/ x.g # g
         /\ clock_hand' \in Frame \cup {None, Stale} /\ free_frames' \subseteq Frame
         /\ content' \in [Frame -> {None} \cup Contents]
         /\ \A y \in Table' : content'[y.f] = content[y.f]
         /\ \A q \in Proc : pc[q] \in InEvict => content'[ev[q].f] = content[ev[q].f]
    BY <1>1, <1>2, <1>4, <2>1, <2>11, Emptied, ZenonT(30)
  <2>13. \A x \in Table' : x \in Table /\ x.p \in Proc /\ x.g \in Page /\ (x.p # p \/ x.g # g)
    BY <2>12, Refers, Zenon
  <2>14. \A q, h, k : Own(q, h, k) /\ (q # p \/ h # g) => Own(q, h, k)'
    BY <2>12, Zenon DEF Own
  <2>15. Typed'
    <3>1. TypeOK'
      BY <2>5, <2>6, <2>7, <2>8, <2>9, <2>12, Zenon DEF IInv, Typed, TypeOK, FrameEntry, Locals
    <3>2. \A q \in Proc : (/\ ld[q].g \in Layout[q]
                           /\ pc[q] \in Loading => ld[q].then # "exit"
                           /\ pc[q] \in Unmapping => ld[q].then \in {"user", "exit"})'
      <4>1. Idle(p).g \in Layout[p] /\ "destroy" \notin Loading /\ "destroy" \notin Unmapping
        BY StackIn, Zenon DEF Idle, Loading, Seeking, InEvict, Unmapping
      <4> QED BY <2>5, <4>1, Zenon DEF IInv, Typed
    <3>3. \A q \in Proc : (Hand(q) <=> ev[q] # None)'
      BY <2>9, <2>10, Zenon DEF IInv, Typed
    <3> QED BY <2>5, <3>1, <3>2, <3>3, Zenon DEF Typed
  <2>16. TableOwned'
    <3> SUFFICES ASSUME NEW x \in Table'
                 PROVE  \/ pte'[x.p][x.g].f = x.f
                        \/ pc'[x.p] \in {"fill", "install"} /\ ld'[x.p].f = x.f /\ ld'[x.p].g = x.g
      BY Zenon DEF TableOwned
    <3>1. x.p \in Proc /\ pte'[x.p][x.g] = pte[x.p][x.g]
      BY <2>6, <2>13, Zenon
    <3> QED BY <1>2, <2>5, <2>13, <3>1, ZenonT(30) DEF IInv, TableOwned
  <2>17. Present'
    <3> SUFFICES ASSUME NEW q \in Proc, NEW h \in Page, pte'[q][h].f # None
                 PROVE  Own(q, h, pte[q][h].f)' \/ (pc'[q] = "unmap_clear" /\ ld'[q].g = h)
      BY Zenon DEF Present
    <3>1. q # p \/ h # g
      BY <2>6, Zenon
    <3>2. PICK k : k = pte[q][h].f /\ k = pte'[q][h].f
      BY <2>6, <3>1, Zenon
    <3>3. Own(q, h, k) \/ (pc[q] = "unmap_clear" /\ ld[q].g = h)
      BY <3>2, ZenonT(30) DEF IInv, Present
    <3>4. Own(q, h, k)' <=> Own(q, h, pte[q][h].f)'
      BY <3>2, Zenon DEF Own
    <3> QED BY <1>2, <2>5, <2>14, <3>1, <3>3, <3>4, Zenon
  <2>18. Filling'
    <3> SUFFICES ASSUME NEW q \in Proc
                 PROVE  (/\ pc[q] \in {"fill", "install", "record"} => Own(q, ld[q].g, ld[q].f)
                         /\ pc[q] \in Seeking \cup {"fill", "install", "unmap_remove"} =>
                              pte[q][ld[q].g].f = None
                         /\ pc[q] = "record" => pte[q][ld[q].g].f = ld[q].f
                         /\ pc[q] = "unmap_clear" => \A x \in Table : ~(x.p = q /\ x.g = ld[q].g))'
      BY Zenon DEF Filling
    <3>1. CASE q = p
      BY <2>5, <3>1, Zenon DEF Seeking, InEvict
    <3>2. CASE q # p
      <4>1. PICK h \in Page : h = ld[q].g
        BY LocalTypes, Zenon
      <4>2. pc'[q] = pc[q] /\ ld'[q] = ld[q] /\ pte'[q][h] = pte[q][h]
        BY <2>5, <2>6, <3>2, Zenon
      <4>3. Own(q, ld[q].g, ld[q].f) => Own(q, ld[q].g, ld[q].f)'
        BY <2>12, <3>2, <4>2, Zenon DEF Own
      <4>4. /\ pc[q] \in {"fill", "install", "record"} => Own(q, ld[q].g, ld[q].f)
            /\ pc[q] \in Seeking \cup {"fill", "install", "unmap_remove"} =>
                 pte[q][ld[q].g].f = None
            /\ pc[q] = "record" => pte[q][ld[q].g].f = ld[q].f
            /\ pc[q] = "unmap_clear" => \A x \in Table : ~(x.p = q /\ x.g = ld[q].g)
        BY Zenon DEF IInv, Filling
      <4> QED BY <2>13, <4>1, <4>2, <4>3, <4>4, Zenon
    <3> QED BY <3>1, <3>2, Zenon
  <2>19. HasEntry'
    <3> SUFFICES ASSUME NEW q \in Proc, NEW h \in Page PROVE EntryOf(q, h)'
      BY Zenon DEF HasEntry
    <3>1. CASE q = p /\ h = g
      BY <2>6, <2>7, <2>10, <3>1, Zenon DEF EntryOf
    <3>2. CASE q # p \/ h # g
      <4>1. EntryOf(q, h) /\ pte'[q][h] = pte[q][h] /\ spt'[q][h] = spt[q][h]
        BY <2>6, <2>7, <3>2, Zenon DEF IInv, HasEntry
      <4>2. /\ pc[q] = "record" => pc'[q] = "record" /\ ld'[q] = ld[q]
            /\ pc'[q] \in Loading => pc[q] \in Loading /\ ld'[q] = ld[q]
        BY <1>2, <2>5, <2>10, Zenon
      <4>3. \A o \in Proc : pc[o] \in {"evict_find", "evict_mark"} => pc'[o] = pc[o]
        BY <1>2, <2>5, Zenon
      <4> QED BY <2>9, <4>1, <4>2, <4>3, Zenon DEF EntryOf
    <3> QED BY <3>1, <3>2, Zenon
  <2>20. Ends'
    <3> SUFFICES ASSUME NEW q \in Proc PROVE EndOf(q)'
      BY Zenon DEF Ends
    <3>1. CASE q = p
      <4>1. \A h \in Page : Kind[h] = "map" => spt[p][h] = None
        BY <1>2, Zenon DEF IInv, Ends, EndOf, Ending
      <4>2. \A h \in Page : Kind[h] = "map" => spt'[p][h] = None
        BY <2>7, <4>1, SMTT(30)
      <4> QED BY <2>5, <3>1, <4>2, Zenon DEF EndOf, Unmapping
    <3>2. CASE q # p
      <4>1. EndOf(q) /\ pc'[q] = pc[q] /\ ld'[q] = ld[q] /\ ld[q].g \in Page
        BY <2>5, <3>2, LocalTypes, Zenon DEF IInv, Ends
      <4>2. \A h \in Page : pte'[q][h] = pte[q][h] /\ spt'[q][h] = spt[q][h]
        BY <2>6, <2>7, <3>2, Zenon
      <4>3. \A o \in Proc : pc'[o] \in InEvict => pc[o] \in InEvict
        BY <2>10, Zenon
      <4> QED BY <2>9, <4>1, <4>2, <4>3, Zenon DEF EndOf
    <3> QED BY <3>1, <3>2, Zenon
  <2>21. Evicts'
    <3>1. OneEvictor'
      BY <2>9, <2>10, Zenon DEF IInv, Evicts, OneEvictor
    <3> SUFFICES ASSUME NEW q \in Proc, NEW o \in Proc, NEW h \in Page, pc[q] \in InEvict,
                        ev[q].p = o, ev[q].g = h
                 PROVE  EvictOf(q, o, h)'
      BY <2>9, <2>10, <3>1, SMTT(30) DEF Evicts, EvictOf
    <3>2. EvictOf(q, o, h) /\ (o # p \/ h # g)
      BY <2>2, Zenon DEF IInv, Evicts, NoEvictor
    <3>3. pte'[o][h] = pte[o][h] /\ spt'[o][h] = spt[o][h]
      BY <2>6, <2>7, <3>2, ZenonT(30)
    <3>4. pc'[o] \in Loading => pc[o] \in Loading /\ ld'[o] = ld[o]
      BY <2>5, <2>10, Zenon
    <3> QED BY <2>9, <2>10, <3>2, <3>3, <3>4, Zenon DEF EvictOf
  <2>22. Kinds'
    <3>1. ASSUME NEW q \in Proc, NEW h \in Page PROVE KindOf(q, h)'
      <4>1. KindOf(q, h)
        BY Zenon DEF IInv, Kinds
      <4>2. CASE q = p /\ h = g
        BY <2>6, <2>7, <4>1, <4>2, Zenon DEF KindOf
      <4>3. CASE q # p \/ h # g
        <5>1. pte'[q][h] = pte[q][h] /\ spt'[q][h] = spt[q][h]
          BY <2>6, <2>7, <4>3, Zenon
        <5> QED BY <4>1, <5>1, Zenon DEF KindOf
      <4> QED BY <4>2, <4>3, Zenon
    <3>2. \A q \in Proc : EvictKind(q)'
      BY <1>2, <2>5, <2>9, <2>10, ZenonT(30) DEF IInv, Kinds, EvictKind
    <3> QED BY <3>1, <3>2, Zenon DEF Kinds
  <2>23. FrameContents'
    <3> SUFFICES ASSUME NEW x \in Table' PROVE FrameHolds(x)'
      BY Zenon DEF FrameContents
    <3>1. x.p \in Proc /\ x.g \in Page /\ FrameHolds(x) /\ content'[x.f] = content[x.f]
      BY <2>12, <2>13, Zenon DEF IInv, FrameContents
    <3>2. pte'[x.p][x.g] = pte[x.p][x.g] /\ spt'[x.p][x.g] = spt[x.p][x.g]
      BY <2>6, <2>7, <2>13, Zenon
    <3>3. pc'[x.p] \in {"install", "unmap_free"} => pc[x.p] = pc'[x.p] /\ ld'[x.p] = ld[x.p]
      BY <1>2, <2>5, <3>1, Zenon
    <3> QED BY <2>9, <3>1, <3>2, <3>3, Zenon DEF FrameHolds, Is
  <2>24. EvictContents'
    <3> SUFFICES ASSUME NEW q \in Proc, pc'[q] \in InEvict PROVE EvictHolds(q)'
      BY Zenon DEF EvictContents, EvictHolds
    <3>1. pc[q] \in InEvict /\ content'[ev[q].f] = content[ev[q].f]
      BY <2>10, <2>12, Zenon
    <3> QED BY <2>9, <3>1, Zenon DEF IInv, EvictContents, EvictHolds, Is
  <2>25. \A q \in Proc, h \in Page : (q # p \/ h # g) => (Resting(q, h)' <=> Resting(q, h))
    <3> SUFFICES ASSUME NEW q \in Proc, NEW h \in Page, q # p \/ h # g
                 PROVE  Resting(q, h)' <=> Resting(q, h)
      BY Zenon
    <3>1. NoEvictor(q, h)' <=> NoEvictor(q, h)
      BY <2>9, <2>10, Zenon DEF NoEvictor
    <3>2. pc'[q] \in {"install", "record"} /\ ld'[q].g = h
            <=> pc[q] \in {"install", "record"} /\ ld[q].g = h
      BY <1>2, <2>5, Zenon
    <3>3. spt'[q][h] = spt[q][h]
      BY <2>7, Zenon
    <3> QED BY <3>1, <3>2, <3>3, Zenon DEF Resting
  <2>26. Swapped'
    <3>1. ASSUME NEW q \in Proc, NEW h \in Page, Resting(q, h)', Alive(q)'
          PROVE  Is(q, h, swap[spt[q][h].slot])'
      <4>1. q # p /\ Resting(q, h) /\ Alive(q) /\ spt'[q][h] = spt[q][h]
        BY <2>7, <2>10, <2>25, <3>1, Zenon
      <4>2. Is(q, h, swap[spt[q][h].slot]) /\ spt[q][h].slot \in Slot
        BY <4>1, Zenon DEF IInv, Swapped, SlotHolds, Kinds, KindOf, Resting
      <4>3. swap'[spt[q][h].slot] = swap[spt[q][h].slot]
        BY <2>4, <2>8, <4>1, <4>2, Zenon
      <4> QED BY <4>1, <4>2, <4>3, Zenon DEF Is
    <3>2. ASSUME NEW q \in Proc, pc'[q] = "evict_slot"
          PROVE  (ev[q].slot \in Slot /\ (Alive(ev[q].p) => swap[ev[q].slot] = content[ev[q].f]))'
      <4>1. pc[q] = "evict_slot" /\ pc[q] \in InEvict
        BY <1>2, <2>5, <3>2, Zenon DEF InEvict
      <4>2. PICK o, h : o \in Proc /\ h \in Page /\ o = ev[q].p /\ h = ev[q].g
        BY <4>1, Refers, Zenon
      <4>3. ev[q].slot \in Slot /\ (Alive(o) => swap[ev[q].slot] = content[ev[q].f])
        BY <4>1, <4>2, Zenon DEF IInv, Swapped, EvictSlots
      <4>4. Is(o, h, content[ev[q].f])
        BY <4>1, <4>2, Zenon DEF IInv, EvictContents, EvictHolds
      <4>5. Alive(o)' => Alive(o) /\ o # p
        BY <2>10, <4>2, Zenon
      <4>6. Alive(o)' => swap'[ev[q].slot] = swap[ev[q].slot]
        BY <2>4, <2>8, <4>2, <4>3, <4>4, <4>5, Zenon DEF Is
      <4>7. Alive(o)' <=> Alive(ev[q].p)'
        BY <2>9, <4>2, Zenon DEF Alive
      <4> QED BY <2>9, <2>12, <4>1, <4>3, <4>5, <4>6, <4>7, Zenon
    <3> QED BY <3>1, <3>2, Zenon DEF Swapped, SlotHolds, EvictSlots
  <2>27. Claims'
    <3> SUFFICES ASSUME NEW t \in Slot \ {0}, NEW q \in Proc, NEW h \in Page, Is(q, h, swap[t])'
                 PROVE  ClaimOf(t, q, h)'
      BY SMTT(30) DEF Claims, ClaimOf
    <3>1. ~b \/ t # s
      BY <2>8, Zenon DEF Is
    <3>2. Is(q, h, swap[t]) /\ ClaimOf(t, q, h)
      BY <2>8, <3>1, Zenon DEF IInv, Claims, Is
    <3>3. ASSUME Resting(q, h), spt[q][h].slot = t PROVE q # p \/ h # g
      BY <1>1, <3>1, <3>3, Zenon DEF Resting
    <3>4. \A o \in Proc : pc[o] = "evict_slot" => pc'[o] = "evict_slot"
      BY <1>2, <2>5, Zenon
    <3> QED BY <2>7, <2>9, <2>25, <3>2, <3>3, <3>4, Zenon DEF ClaimOf
  <2>28. Pins'
    <3>1. ASSUME NEW x \in Table', x.pinned
          PROVE  /\ pc'[x.p] \in {"sys", "unpin", "unpin_walk"}
                 /\ ld'[x.p].f = x.f /\ ld'[x.p].g = x.g
      <4>1. /\ x.p \in Proc /\ pc[x.p] \in {"sys", "unpin", "unpin_walk"}
            /\ ld[x.p].f = x.f /\ ld[x.p].g = x.g
        BY <2>13, <3>1, Zenon DEF IInv, Pins
      <4> QED BY <1>2, <2>5, <4>1, Zenon
    <3>2. ASSUME NEW q \in Proc, pc'[q] = "sys", ld'[q].f # None
          PROVE  \E x \in Table' : x.p = q /\ x.g = ld'[q].g /\ x.f = ld'[q].f /\ x.pinned
      <4>1. q # p /\ pc[q] = "sys" /\ ld'[q] = ld[q]
        BY <2>5, <3>2, Zenon
      <4>2. PICK x \in Table : x.p = q /\ x.g = ld[q].g /\ x.f = ld[q].f /\ x.pinned
        BY <3>2, <4>1, Zenon DEF IInv, Pins
      <4> QED BY <2>12, <4>1, <4>2, Zenon
    <3> QED BY <3>1, <3>2, Zenon DEF Pins
  <2> QED BY <2>12, <2>15, <2>16, <2>17, <2>18, <2>19, <2>20, <2>21, <2>22, <2>23, <2>24, <2>26,
             <2>27, <2>28, Zenon DEF IInv
<1> QED BY <1>3, <1>4, Zenon

\* The last of process_exit finds no page left.
LEMMA EndStep ==
  ASSUME IInv, NEW p \in Proc, process_exit(p)
  PROVE  IInv'
<1>1. /\ pc[p] = "destroy" /\ pc' = [pc EXCEPT ![p] = "dead"] /\ \A g \in Page : spt[p][g] = None
      /\ free_frames' = free_frames \cup {pte[p][g].f : g \in {g \in Page : pte[p][g].f # None}}
      /\ pte' = [pte EXCEPT ![p] = [g \in Page |-> [f |-> None, A |-> FALSE, D |-> FALSE]]]
      /\ UNCHANGED <<spt, frame_table, clock_hand, content, swap, file, ld, ev, touches, outcome>>
  BY Zenon DEF process_exit, Running, Goto, Mapped, pagedir_get_page
<1>2. \A g \in Page : pte[p][g].f = None
  BY <1>1, SMTT(30) DEF IInv, HasEntry, EntryOf
<1>3. /\ spt' = spt /\ file' = file /\ frame_table' = frame_table /\ clock_hand' = clock_hand
      /\ free_frames' = free_frames /\ content' = content /\ swap' = swap
      /\ ld' = ld /\ ev' = ev /\ touches' = touches /\ outcome' = outcome /\ Table' = Table
  BY <1>1, <1>2, Zenon DEF Table
<1>4. /\ pc' \in [Proc -> PC] /\ pc'[p] = "dead" /\ \A q \in Proc \ {p} : pc'[q] = pc[q]
  BY <1>1, LocalTypes, Zenon DEF PC, Ending
<1>5. /\ pte' \in [Proc -> [Page -> [f : Frame \cup {None}, A : BOOLEAN, D : BOOLEAN]]]
      /\ \A h \in Page : pte'[p][h].f = None /\ ~pte'[p][h].D
      /\ \A q \in Proc \ {p} : pte'[q] = pte[q]
  <2>1. pte \in [Proc -> [Page -> [f : Frame \cup {None}, A : BOOLEAN, D : BOOLEAN]]]
    BY Zenon DEF IInv, Typed, TypeOK
  <2>2. [g \in Page |-> [f |-> None, A |-> FALSE, D |-> FALSE]]
          \in [Page -> [f : Frame \cup {None}, A : BOOLEAN, D : BOOLEAN]]
    BY Zenon
  <2> QED BY <1>1, <2>1, <2>2, Zenon
<1>6. \A q \in Proc, h \in Page : pte'[q][h].f = pte[q][h].f /\ (pte'[q][h].D => pte[q][h].D)
  BY <1>2, <1>5, Zenon
<1>7. \A q \in Proc : /\ pc'[q] \in Loading <=> pc[q] \in Loading
                      /\ pc'[q] \in Unmapping <=> pc[q] \in Unmapping
                      /\ pc'[q] \in InEvict <=> pc[q] \in InEvict
                      /\ pc[q] \in InEvict => pc'[q] = pc[q]
                      /\ Hand(q)' <=> Hand(q)
                      /\ Alive(q)' <=> Alive(q)
  BY <1>1, <1>3, <1>4, Zenon DEF InEvict, Loading, Seeking, Hand, Alive, Unmapping
<1>8. \A x \in Table : x.p \in Proc /\ x.g \in Page /\ x.p # p
  BY <1>1, <1>2, Refers, SMTT(30) DEF IInv, TableOwned
<1>9. Typed'
  BY <1>3, <1>4, <1>5, <1>7, Zenon DEF IInv, Typed, TypeOK
<1>10. Distinct' /\ Partition'
  BY <1>3, <1>7, Zenon DEF IInv, Distinct, Partition
<1>11. TableOwned'
  <2> SUFFICES ASSUME NEW x \in Table
               PROVE  \/ pte'[x.p][x.g].f = x.f
                      \/ pc'[x.p] \in {"fill", "install"} /\ ld'[x.p].f = x.f /\ ld'[x.p].g = x.g
    BY <1>3, Zenon DEF TableOwned
  <2>1. pte'[x.p][x.g].f = pte[x.p][x.g].f /\ pc'[x.p] = pc[x.p]
    BY <1>4, <1>6, <1>8, Zenon
  <2> QED BY <1>3, <2>1, Zenon DEF IInv, TableOwned
<1>12. Present'
  BY <1>1, <1>3, <1>4, <1>6, SMTT(30) DEF IInv, Present, Own
<1>13. Filling'
  BY <1>3, <1>4, <1>6, LocalTypes, SMTT(30) DEF IInv, Filling, Own, Seeking, InEvict
<1>14. HasEntry'
  <2> SUFFICES ASSUME NEW q \in Proc, NEW h \in Page PROVE EntryOf(q, h)'
    BY Zenon DEF HasEntry
  <2>1. EntryOf(q, h) /\ pte'[q][h].f = pte[q][h].f
    BY <1>6, Zenon DEF IInv, HasEntry
  <2>2. (pc[q] = "record" => pc'[q] = "record") /\ (pc'[q] \in Loading <=> pc[q] \in Loading)
    BY <1>1, <1>4, <1>7, Zenon
  <2>3. \A o \in Proc : pc[o] \in {"evict_find", "evict_mark"} => pc'[o] = pc[o]
    BY <1>7, Zenon DEF InEvict
  <2> QED BY <1>3, <2>1, <2>2, <2>3, Zenon DEF EntryOf
<1>15. Ends'
  <2> SUFFICES ASSUME NEW q \in Proc PROVE EndOf(q)'
    BY Zenon DEF Ends
  <2>1. CASE q = p
    BY <1>1, <1>3, <1>4, <2>1, Zenon DEF EndOf, Unmapping
  <2>2. CASE q # p
    <3>1. EndOf(q) /\ pc'[q] = pc[q] /\ pte'[q] = pte[q]
      BY <1>4, <1>5, <2>2, Zenon DEF IInv, Ends
    <3>2. \A o \in Proc : pc'[o] \in InEvict => pc[o] \in InEvict
      BY <1>7, Zenon
    <3> QED BY <1>3, <3>1, <3>2, Zenon DEF EndOf
  <2> QED BY <2>1, <2>2, Zenon
<1>16. Evicts'
  <2>1. OneEvictor'
    BY <1>3, <1>7, Zenon DEF IInv, Evicts, OneEvictor
  <2>2. ASSUME NEW q \in Proc, NEW o \in Proc, NEW h \in Page PROVE EvictOf(q, o, h)'
    <3>1. EvictOf(q, o, h) /\ pte'[o][h].f = pte[o][h].f
      BY <1>6, Zenon DEF IInv, Evicts
    <3> QED BY <1>3, <1>7, <3>1, Zenon DEF EvictOf
  <2> QED BY <2>1, <2>2, Zenon DEF Evicts
<1>17. Kinds'
  <2>1. \A q \in Proc, h \in Page : KindOf(q, h)'
    BY <1>3, <1>6, ZenonT(30) DEF IInv, Kinds, KindOf
  <2>2. \A q \in Proc : EvictKind(q)'
    BY <1>1, <1>3, <1>4, <1>7, ZenonT(30) DEF IInv, Kinds, EvictKind
  <2> QED BY <2>1, <2>2, Zenon DEF Kinds
<1>18. FrameContents'
  <2> SUFFICES ASSUME NEW x \in Table PROVE FrameHolds(x)'
    BY <1>3, Zenon DEF FrameContents
  <2>1. FrameHolds(x) /\ pte'[x.p] = pte[x.p] /\ pc'[x.p] = pc[x.p]
    BY <1>4, <1>5, <1>8, Zenon DEF IInv, FrameContents
  <2> QED BY <1>3, <2>1, Zenon DEF FrameHolds
<1>19. EvictContents'
  BY <1>3, <1>7, Zenon DEF IInv, EvictContents, EvictHolds
<1>20. \A q \in Proc, h \in Page : Resting(q, h)' <=> Resting(q, h)
  BY <1>1, <1>3, <1>4, <1>7, ZenonT(30) DEF Resting, NoEvictor
<1>21. Swapped'
  <2>1. \A q \in Proc, h \in Page : SlotHolds(q, h)'
    BY <1>3, <1>7, <1>20, Zenon DEF IInv, Swapped, SlotHolds
  <2>2. \A q \in Proc : EvictSlots(q)'
    BY <1>4, <1>3, <1>7, Refers, Zenon DEF IInv, Swapped, EvictSlots, InEvict
  <2> QED BY <2>1, <2>2, Zenon DEF Swapped
<1>22. Claims'
  <2>1. \A q \in Proc : pc[q] = "evict_slot" => pc'[q] = "evict_slot"
    BY <1>7, Zenon DEF InEvict
  <2> QED BY <1>3, <1>20, <2>1, SMTT(30) DEF IInv, Claims, ClaimOf
<1>23. Pins'
  BY <1>1, <1>3, <1>4, <1>8, SMTT(30) DEF IInv, Pins
<1> QED BY <1>9, <1>10, <1>11, <1>12, <1>13, <1>14, <1>15, <1>16, <1>17, <1>18, <1>19, <1>21,
           <1>22, <1>23, Zenon DEF IInv

\* The frames and their pages are the same, but for the flag of one entry of p.
LEMMA FlagStep ==
  ASSUME IInv, NEW p \in Proc, NEW y \in Table, y.p = p, y.f = ld[p].f, y.g = ld[p].g, NEW b \in BOOLEAN,
         NEW l, NEW r, r \in Locals, r.g \in Layout[p],
         \/ pc[p] = "pin_walk" /\ l = "sys" /\ b = TRUE /\ r = ld[p]
         \/ pc[p] = "unpin_walk" /\ l = "user" /\ b = FALSE,
         frame_table' \in Seq(FrameEntry), Distinct', Table' = (Table \ {y}) \cup {[y EXCEPT !.pinned = b]},
         pc' = [pc EXCEPT ![p] = l], ld' = [ld EXCEPT ![p] = r],
         UNCHANGED <<spt, pte, clock_hand, free_frames, content, swap, file, ev, touches, outcome>>
  PROVE  IInv'
<1>1. PICK z : z = [y EXCEPT !.pinned = b]
  BY Zenon
<1>2. z.f = y.f /\ z.p = p /\ z.g = y.g /\ z.pinned = b /\ y \in FrameEntry
  BY <1>1, Types, Zenon DEF IInv, FrameEntry
<1>3. /\ \A x \in Table' : x # z => x \in Table /\ x # y
      /\ \A x \in Table : x # y => x \in Table'
      /\ z \in Table'
  BY <1>1, Zenon
<1>4. \A x \in Table' : x.p \in Proc /\ x.g \in Page /\ \E w \in Table : w.f = x.f /\ w.p = x.p /\ w.g = x.g
  BY <1>2, <1>3, Refers, Zenon
<1>5. \A w \in Table : \E x \in Table' : w.f = x.f /\ w.p = x.p /\ w.g = x.g
  BY <1>2, <1>3, Zenon
<1>6. \A q, h, k : Own(q, h, k)' <=> Own(q, h, k)
  BY <1>4, <1>5, SMTT(30) DEF Own
<1>7. /\ pc' \in [Proc -> PC] /\ pc'[p] = l /\ ld' \in [Proc -> Locals] /\ ld'[p] = r
      /\ \A q \in Proc \ {p} : pc'[q] = pc[q] /\ ld'[q] = ld[q]
  BY LocalTypes, Zenon DEF PC
<1>8. /\ spt' = spt /\ pte' = pte /\ clock_hand' = clock_hand /\ free_frames' = free_frames
      /\ content' = content /\ swap' = swap /\ file' = file /\ ev' = ev
      /\ touches' = touches /\ outcome' = outcome
  BY Zenon
<1>9. \A q \in Proc : /\ pc'[q] \in Busy \/ pc[q] \in Busy => pc'[q] = pc[q] /\ ld'[q] = ld[q] /\ q # p
                      /\ pc'[q] \in Loading <=> pc[q] \in Loading
                      /\ pc[q] \in Loading => ld'[q] = ld[q]
                      /\ pc'[q] \in Unmapping \cup Ending => pc'[q] = pc[q] /\ ld'[q] = ld[q]
                      /\ pc'[q] \in InEvict <=> pc[q] \in InEvict
                      /\ pc[q] \in InEvict => pc'[q] = pc[q]
                      /\ Hand(q)' <=> Hand(q)
                      /\ Alive(q)' <=> Alive(q)
  BY <1>7, SMTT(30) DEF InEvict, Loading, Seeking, Hand, Alive, Busy, Unmapping, Ending
<1>10. Typed'
  <2>1. TypeOK'
    BY <1>7, <1>8, SMTT(30) DEF IInv, Typed, TypeOK, FrameEntry, Locals
  <2>2. \A q \in Proc : (/\ ld[q].g \in Layout[q]
                         /\ pc[q] \in Loading => ld[q].then # "exit"
                         /\ pc[q] \in Unmapping => ld[q].then \in {"user", "exit"})'
    BY <1>7, <1>9, SMTT(30) DEF IInv, Typed
  <2>3. \A q \in Proc : (Hand(q) <=> ev[q] # None)'
    BY <1>8, <1>9, SMTT(30) DEF IInv, Typed
  <2> QED BY <1>7, <2>1, <2>2, <2>3, Zenon DEF Typed
<1>11. Partition'
  <2>1. \A x \in Table' : x.f \notin free_frames
    BY <1>4, SMTT(30) DEF IInv, Partition
  <2>2. \A q \in Proc : Hand(q) => \A x \in Table' : x.f # ev[q].f
    BY <1>4, SMTT(30) DEF IInv, Partition
  <2>3. \A k \in Frame : (\E x \in Table : x.f = k) => \E x \in Table' : x.f = k
    BY <1>5, SMTT(30)
  <2> QED BY <1>8, <1>9, <2>1, <2>2, <2>3, SMTT(30) DEF IInv, Partition
<1>12. TableOwned'
  <2> SUFFICES ASSUME NEW x \in Table'
               PROVE  \/ pte[x.p][x.g].f = x.f
                      \/ pc'[x.p] \in {"fill", "install"} /\ ld'[x.p].f = x.f /\ ld'[x.p].g = x.g
    BY <1>8, SMTT(30) DEF TableOwned
  <2>1. PICK w \in Table : w.f = x.f /\ w.p = x.p /\ w.g = x.g /\ x.p \in Proc
    BY <1>4, Zenon
  <2> QED BY <1>9, <2>1, SMTT(30) DEF IInv, TableOwned, Busy
<1>13. Present'
  <2> SUFFICES ASSUME NEW q \in Proc, NEW h \in Page, pte[q][h].f # None
               PROVE  Own(q, h, pte[q][h].f)' \/ (pc'[q] = "unmap_clear" /\ ld'[q].g = h)
    BY <1>8, SMTT(30) DEF Present
  <2>1. PICK k : k = pte[q][h].f /\ k = pte'[q][h].f
    BY <1>8, Zenon
  <2>2. Own(q, h, k) \/ (pc[q] = "unmap_clear" /\ ld[q].g = h)
    BY <2>1, Zenon DEF IInv, Present
  <2>3. Own(q, h, k)' <=> Own(q, h, pte[q][h].f)'
    BY <2>1, Zenon DEF Own
  <2> QED BY <1>6, <1>9, <2>2, <2>3, Zenon DEF Busy
<1>14. Filling'
  <2> SUFFICES ASSUME NEW q \in Proc
               PROVE  (/\ pc[q] \in {"fill", "install", "record"} => Own(q, ld[q].g, ld[q].f)
                       /\ pc[q] \in Seeking \cup {"fill", "install", "unmap_remove"} =>
                            pte[q][ld[q].g].f = None
                       /\ pc[q] = "record" => pte[q][ld[q].g].f = ld[q].f
                       /\ pc[q] = "unmap_clear" => \A x \in Table : ~(x.p = q /\ x.g = ld[q].g))'
    BY Zenon DEF Filling
  <2>1. CASE q = p
    BY <1>7, <2>1, Zenon DEF Seeking, InEvict
  <2>2. CASE q # p
    <3>1. pc'[q] = pc[q] /\ ld'[q] = ld[q]
      BY <1>7, <2>2, Zenon
    <3>2. Own(q, ld[q].g, ld[q].f) => Own(q, ld[q].g, ld[q].f)'
      BY <1>5, <3>1, SMTT(30) DEF Own
    <3> QED BY <1>4, <1>8, <3>1, <3>2, SMTT(30) DEF IInv, Filling
  <2> QED BY <2>1, <2>2, Zenon
<1>15. HasEntry'
  BY <1>8, <1>9, SMTT(30) DEF IInv, HasEntry, EntryOf, Busy, InEvict
<1>16. Ends'
  BY <1>8, <1>9, SMTT(30) DEF IInv, Ends, EndOf, Busy, Ending
<1>17. Evicts'
  BY <1>8, <1>9, SMTT(30) DEF IInv, Evicts, EvictOf, OneEvictor
<1>18. Kinds'
  <2>1. \A q \in Proc, h \in Page : KindOf(q, h)'
    BY <1>8, SMTT(30) DEF IInv, Kinds, KindOf
  <2>2. \A q \in Proc : EvictKind(q)'
    BY <1>8, <1>9, SMTT(30) DEF IInv, Kinds, EvictKind, Busy, InEvict
  <2> QED BY <2>1, <2>2, Zenon DEF Kinds
<1>19. FrameContents'
  <2> SUFFICES ASSUME NEW x \in Table' PROVE FrameHolds(x)'
    BY Zenon DEF FrameContents
  <2>1. PICK w \in Table : w.f = x.f /\ w.p = x.p /\ w.g = x.g /\ x.p \in Proc
    BY <1>4, Zenon
  <2>2. FrameHolds(w)
    BY Zenon DEF IInv, FrameContents
  <2>3. pc'[x.p] \in {"install", "unmap_free"} => pc[x.p] = pc'[x.p] /\ ld'[x.p] = ld[x.p]
    BY <1>9, <2>1, Zenon DEF Busy, Unmapping
  <2> QED BY <1>8, <2>1, <2>2, <2>3, ZenonT(30) DEF FrameHolds
<1>20. EvictContents'
  BY <1>8, <1>9, SMTT(30) DEF IInv, EvictContents, EvictHolds
<1>21. \A q \in Proc, h \in Page : Resting(q, h)' <=> Resting(q, h)
  BY <1>8, <1>9, SMTT(30) DEF Resting, NoEvictor, Busy
<1>22. Swapped'
  <2>1. \A q \in Proc, h \in Page : SlotHolds(q, h)'
    BY <1>8, <1>9, <1>21, Zenon DEF IInv, Swapped, SlotHolds
  <2>2. \A q \in Proc : EvictSlots(q)'
    BY <1>8, <1>9, Refers, SMTT(30) DEF IInv, Swapped, EvictSlots, InEvict, Busy
  <2> QED BY <2>1, <2>2, Zenon DEF Swapped
<1>23. Claims'
  BY <1>8, <1>9, <1>21, SMTT(30) DEF IInv, Claims, ClaimOf, Busy, InEvict
<1>24. Pins'
  <2>1. \A x \in Table : x # y /\ x.pinned => x.p # p
    BY Unique, SMTT(30) DEF IInv, Pins
  <2>2. ASSUME NEW x \in Table', x.pinned
        PROVE  pc'[x.p] \in {"sys", "unpin", "unpin_walk"} /\ ld'[x.p].f = x.f /\ ld'[x.p].g = x.g
    <3>1. CASE x = z
      BY <1>2, <1>7, <2>2, <3>1, Zenon
    <3>2. CASE x # z
      <4>1. x \in Table /\ x.p # p /\ x.p \in Proc
        BY <1>3, <1>4, <2>1, <2>2, <3>2, Zenon
      <4> QED BY <1>7, <2>2, <4>1, Zenon DEF IInv, Pins
    <3> QED BY <3>1, <3>2, Zenon
  <2>3. ASSUME NEW q \in Proc, pc'[q] = "sys", ld'[q].f # None
        PROVE  \E x \in Table' : x.p = q /\ x.g = ld'[q].g /\ x.f = ld'[q].f /\ x.pinned
    <3>1. CASE q = p
      BY <1>2, <1>3, <1>7, <2>3, <3>1, ZenonT(30)
    <3>2. CASE q # p
      <4>1. pc[q] = "sys" /\ ld'[q] = ld[q]
        BY <1>7, <2>3, <3>2, Zenon
      <4>2. PICK x \in Table : x.p = q /\ x.g = ld[q].g /\ x.f = ld[q].f /\ x.pinned
        BY <2>3, <4>1, ZenonT(30) DEF IInv, Pins
      <4> QED BY <1>3, <3>2, <4>1, <4>2, Zenon
    <3> QED BY <3>1, <3>2, Zenon
  <2> QED BY <2>2, <2>3, Zenon DEF Pins
<1> QED BY <1>10, <1>11, <1>12, <1>13, <1>14, <1>15, <1>16, <1>17, <1>18, <1>19, <1>20, <1>22,
           <1>23, <1>24, Zenon DEF IInv

\* frame_pin and frame_unpin set the flag of the entry they walked to.
LEMMA PinStep ==
  ASSUME IInv, NEW p \in Proc, frame_pin(p)
  PROVE  IInv'
<1>1. PICK i, f, l, b, r : /\ f = ld[p].f /\ i = find_frame(f) /\ b = (pc[p] = "pin_walk")
                           /\ l = IF b THEN "sys" ELSE "user"
                           /\ r = IF ~b THEN Idle(p) ELSE IF i = 0 THEN [ld[p] EXCEPT !.f = None] ELSE ld[p]
  BY Zenon
<1>2. pc[p] \in {"pin_walk", "unpin_walk"} /\ b \in BOOLEAN
  BY <1>1, Zenon DEF frame_pin
<1>3. ld[p] \in Locals /\ ld[p].g \in Layout[p] /\ frame_table \in Seq(FrameEntry)
  BY LocalTypes, Types, Zenon DEF IInv
<1>4. r \in Locals /\ r.g \in Layout[p] /\ (~b => r.f = None) /\ (i = 0 => r.f = None)
  <2>1. [ld[p] EXCEPT !.f = None] \in Locals /\ [ld[p] EXCEPT !.f = None].f = None
         /\ [ld[p] EXCEPT !.f = None].g = ld[p].g
    BY <1>3, Zenon DEF Locals
  <2> QED BY <1>1, <1>3, <2>1, IdleLocals, Zenon
<1>5. CASE i # 0 /\ ~Holds(p, ld[p].g, f)
  <2>1. Stop("stolen_frame")
    BY <1>1, <1>5, Zenon DEF frame_pin
  <2> QED BY <2>1, StopsStep, Outcomes, Zenon DEF Windows
<1>6. CASE i = 0
  <2>1. /\ pc' = [pc EXCEPT ![p] = l] /\ ld' = [ld EXCEPT ![p] = r]
        /\ UNCHANGED <<spt, pte, frameVars, content, swap, file, ev>>
        /\ touches' = touches /\ outcome' = outcome
    BY <1>1, <1>2, <1>6, LocalTypes, Zenon DEF frame_pin, Goto, frameVars
  <2>2. \A x \in Table : ~(x.pinned /\ x.p = p)
    <3>1. \A x \in Table : x.f # f
      BY <1>1, <1>3, <1>6, FindFrame, Zenon
    <3> QED BY <1>1, <3>1, SMTT(30) DEF IInv, Pins
  <2>3. Alive(p)' => Alive(p)
    BY <1>2, Zenon DEF Alive
  <2>4. l \in PC \ Busy /\ pc[p] \notin Busy
    BY <1>1, <1>2, Zenon DEF PC, Busy, InEvict
  <2>5. MayGo(p, l, r)
    BY <1>1, <1>2, <1>4, <1>6, <2>2, <2>4, Zenon DEF MayGo, Unmapping, Ending
  <2> QED BY <2>1, <2>3, <2>5, LocalTypes, LocalStep, Zenon
<1>7. CASE i # 0 /\ Holds(p, ld[p].g, f)
  <2>1. /\ frame_table' = [frame_table EXCEPT ![i].pinned = b]
        /\ pc' = [pc EXCEPT ![p] = l] /\ ld' = [ld EXCEPT ![p] = r]
        /\ UNCHANGED <<spt, pte, clock_hand, free_frames, content, swap, file, ev, touches, outcome>>
    BY <1>1, <1>2, <1>7, LocalTypes, Zenon DEF frame_pin, Goto
  <2>2. i \in DOMAIN frame_table /\ frame_table[i].f = f /\ frame_table[i] \in Table
    BY <1>1, <1>3, <1>7, FindFrame, Zenon
  <2>3. frame_table[i].p = p /\ frame_table[i].g = ld[p].g
    BY <1>1, <1>7, Zenon DEF Holds
  <2>4. PICK y \in Table : y = frame_table[i]
    BY <2>2, Zenon
  <2>5. /\ frame_table' \in Seq(FrameEntry) /\ Distinct'
        /\ Table' = (Table \ {y}) \cup {[y EXCEPT !.pinned = b]}
    BY <1>2, <1>3, <2>1, <2>2, <2>4, Replaced, Zenon DEF IInv
  <2>6. \/ pc[p] = "pin_walk" /\ l = "sys" /\ b = TRUE /\ r = ld[p]
        \/ pc[p] = "unpin_walk" /\ l = "user" /\ b = FALSE
    BY <1>1, <1>2, <1>7, Zenon
  <2>7. y.p = p /\ y.f = ld[p].f /\ y.g = ld[p].g
    BY <1>1, <2>2, <2>3, <2>4, Zenon
  <2> QED BY <1>2, <1>4, <2>1, <2>5, <2>6, <2>7, FlagStep, Zenon
<1> QED BY <1>5, <1>6, <1>7, Zenon

\* What is true of a process that is not in a system call on its buffer.
LEMMA NoPins ==
  ASSUME IInv, NEW p \in Proc,
         pc[p] \notin {"sys", "unpin", "unpin_walk"} \/ (pc[p] = "sys" /\ ~Mapped(p, ld[p].g))
  PROVE  \A x \in Table : ~(x.pinned /\ x.p = p)
<1>1. SUFFICES ASSUME NEW x \in Table, x.pinned, x.p = p, pc[p] = "sys", ~Mapped(p, ld[p].g)
               PROVE  FALSE
  BY Zenon DEF IInv, Pins
<1>2. x.g = ld[p].g /\ x.f \in Frame
  BY <1>1, Types, Zenon DEF IInv, Pins, FrameEntry
<1>3. pte[p][ld[p].g].f = x.f
  BY <1>1, <1>2, Zenon DEF IInv, TableOwned
<1> QED BY <1>1, <1>2, <1>3, NoneIsNothing, Zenon DEF Mapped, pagedir_get_page

\* A failed frame_alloc leaves the frames as they are.
LEMMA AllocFails ==
  ASSUME IInv, NEW p \in Proc, frame_alloc_fails(p)
  PROVE  IInv'
<1> DEFINE l == IF ld[p].again THEN "alloc" ELSE IF ld[p].then = "pin_look" THEN "sys" ELSE "exit"
           r == [ld[p] EXCEPT !.again = FALSE, !.f = None]
<1>1. pc[p] = "alloc"
  BY Zenon DEF frame_alloc_fails, Running
<1>2. /\ pc' = [pc EXCEPT ![p] = l] /\ ld' = [ld EXCEPT ![p] = r]
      /\ UNCHANGED <<spt, pte, frameVars, content, swap, file, ev>>
      /\ touches' = touches /\ outcome' = outcome
  BY LocalTypes, Zenon DEF frame_alloc_fails, LoadFails, Goto, Locals
<1>3. r \in Locals /\ r.g = ld[p].g /\ r.then = ld[p].then /\ r.f = None
  BY LocalTypes, Zenon DEF Locals
<1>4. l \in {"alloc", "sys", "exit"}
  BY Zenon
<1> HIDE DEF l, r
<1>5. l \in PC \ Busy /\ pc[p] \notin Busy
  BY <1>1, <1>4, Zenon DEF PC, Busy, Loading, Seeking, InEvict
<1>6. Alive(p)' => Alive(p)
  BY <1>1, Zenon DEF Alive
<1>7. \A x \in Table : ~(x.pinned /\ x.p = p)
  BY <1>1, NoPins, Zenon
<1>8. MayGo(p, l, r)
  BY <1>1, <1>3, <1>4, <1>5, <1>7, LocalTypes, Zenon DEF MayGo, Unmapping, Ending
<1> QED BY <1>2, <1>6, <1>8, LocalTypes, LocalStep, Zenon

\* pin_buffer looks the page up again.
LEMMA LooksAgain ==
  ASSUME IInv, NEW p \in Proc, PinLook(p)
  PROVE  IInv'
<1> DEFINE l == IF Mapped(p, ld[p].g) THEN "pin" ELSE "sys"
           r == [ld[p] EXCEPT !.f = pte[p][ld[p].g].f, !.then = "sys"]
<1>1. pc[p] = "pin_look"
  BY Zenon DEF PinLook, Running
<1>2. /\ pc' = [pc EXCEPT ![p] = l] /\ ld' = [ld EXCEPT ![p] = r]
      /\ UNCHANGED <<spt, pte, frameVars, content, swap, file, ev>>
      /\ touches' = touches /\ outcome' = outcome
  BY LocalTypes, Zenon DEF PinLook, Goto, Locals, pagedir_get_page
<1>3. r \in Locals /\ r.g = ld[p].g /\ r.f = pte[p][ld[p].g].f
  <2>1. pte[p][ld[p].g].f \in Frame \cup {None}
    BY LocalTypes, Types, Zenon DEF IInv
  <2> QED BY <2>1, LocalTypes, Zenon DEF Locals
<1>4. l \in {"pin", "sys"} /\ (l = "sys" => r.f = None)
  BY <1>3, Zenon DEF Mapped, pagedir_get_page
<1> HIDE DEF l, r
<1>5. l \in PC \ Busy /\ pc[p] \notin Busy
  BY <1>1, <1>4, Zenon DEF PC, Busy, Loading, Seeking, InEvict
<1>6. Alive(p)' => Alive(p)
  BY <1>1, Zenon DEF Alive
<1>7. \A x \in Table : ~(x.pinned /\ x.p = p)
  BY <1>1, NoPins, Zenon
<1>8. MayGo(p, l, r)
  BY <1>3, <1>4, <1>5, <1>7, LocalTypes, Zenon DEF MayGo, Unmapping, Ending
<1> QED BY <1>2, <1>6, <1>8, LocalTypes, LocalStep, Zenon

\* frame_pin and frame_unpin begin their walk of the list.
LEMMA Walks ==
  ASSUME IInv, NEW p \in Proc, PinWalk(p)
  PROVE  IInv'
<1> DEFINE l == IF pc[p] = "pin" THEN "pin_walk" ELSE "unpin_walk"
           r == ld[p]
<1>1. pc[p] \in {"pin", "unpin"}
  BY Zenon DEF PinWalk
<1>2. /\ pc' = [pc EXCEPT ![p] = l] /\ ld' = [ld EXCEPT ![p] = r]
      /\ UNCHANGED <<spt, pte, frameVars, content, swap, file, ev>>
      /\ touches' = touches /\ outcome' = outcome
  BY LocalTypes, Zenon DEF PinWalk, Goto
<1>3. l \in {"pin_walk", "unpin_walk"} /\ r \in Locals /\ r.g \in Layout[p]
  BY LocalTypes, Zenon
<1>4. \A x \in Table : x.pinned /\ x.p = p => l = "unpin_walk" /\ r.f = x.f /\ r.g = x.g
  BY <1>1, SMTT(30) DEF IInv, Pins
<1> HIDE DEF l, r
<1>5. l \in PC \ Busy /\ pc[p] \notin Busy
  BY <1>1, <1>3, Zenon DEF PC, Busy, Loading, Seeking, InEvict
<1>6. Alive(p)' => Alive(p)
  BY <1>1, Zenon DEF Alive
<1>7. MayGo(p, l, r)
  BY <1>3, <1>4, <1>5, Zenon DEF MayGo, Unmapping, Ending
<1> QED BY <1>2, <1>6, <1>7, LocalTypes, LocalStep, Zenon

\* page_fault ending the process, and sys_exit.
LEMMA Killed ==
  ASSUME IInv, NEW p \in Proc, pc[p] = "user" \/ (pc[p] = "sys" /\ ~Mapped(p, ld[p].g)),
         pc' = [pc EXCEPT ![p] = "exit"],
         UNCHANGED <<spt, pte, frameVars, content, swap, file, ev, ld>>,
         touches' \in [Proc -> Nat], outcome' \in Outcome
  PROVE  IInv'
<1>1. ld' = [ld EXCEPT ![p] = ld[p]]
  BY LocalTypes, Zenon
<1>2. Alive(p)' => Alive(p)
  BY Zenon DEF Alive
<1>3. \A x \in Table : ~(x.pinned /\ x.p = p)
  BY NoPins, Zenon
<1>4. MayGo(p, "exit", ld[p])
  BY <1>3, LocalTypes, Zenon DEF MayGo, Unmapping, Ending, PC, Busy, Loading, Seeking, InEvict
<1> QED BY <1>1, <1>2, <1>4, LocalStep, Zenon

\* sys_exit.
LEMMA Exits ==
  ASSUME IInv, NEW p \in Proc, sys_exit(p)
  PROVE  IInv'
<1>1. touches' \in [Proc -> Nat] /\ outcome' \in Outcome
  BY LocalTypes, Zenon DEF sys_exit
<1> QED BY <1>1, Killed, Zenon DEF sys_exit, Running, Goto

\* pin_buffer with nothing to load.
LEMMA BufferStep ==
  ASSUME IInv, NEW p \in Proc, NEW g \in Layout[p], pc[p] = "user",
         pc' = [pc EXCEPT ![p] = IF Mapped(p, g) THEN "pin" ELSE "sys"],
         ld' = [ld EXCEPT ![p] = [g |-> g, f |-> pte[p][g].f, again |-> FALSE, then |-> "sys"]],
         UNCHANGED <<spt, pte, frameVars, content, swap, file, ev>>,
         touches' \in [Proc -> Nat], outcome' \in Outcome
  PROVE  IInv'
<1> DEFINE l == IF Mapped(p, g) THEN "pin" ELSE "sys"
           r == [g |-> g, f |-> pte[p][g].f, again |-> FALSE, then |-> "sys"]
<1>1. r \in Locals /\ r.g \in Layout[p] /\ r.f = pte[p][g].f
  <2>1. g \in Page
    BY StackIn, Zenon
  <2>2. pte[p][g].f \in Frame \cup {None}
    BY <2>1, Types, Zenon DEF IInv
  <2> QED BY <2>1, <2>2, Zenon DEF Locals
<1>2. l \in {"pin", "sys"} /\ (l = "sys" => r.f = None)
  BY <1>1, Zenon DEF Mapped, pagedir_get_page
<1>3. pc' = [pc EXCEPT ![p] = l] /\ ld' = [ld EXCEPT ![p] = r]
  BY Zenon
<1> HIDE DEF l, r
<1>4. Alive(p)' => Alive(p)
  BY Zenon DEF Alive
<1>5. \A x \in Table : ~(x.pinned /\ x.p = p)
  BY NoPins, Zenon
<1>6. l \in PC \ Busy /\ pc[p] \notin Busy
  BY <1>2, Zenon DEF PC, Busy, Loading, Seeking, InEvict
<1>7. MayGo(p, l, r)
  BY <1>1, <1>2, <1>5, <1>6, Zenon DEF MayGo, Unmapping, Ending
<1> QED BY <1>3, <1>4, <1>7, LocalStep, Zenon

\* mmap_unmap looks up the page.
LEMMA Unmaps ==
  ASSUME IInv, NEW p \in Proc, NEW g \in Page, mmap_unmap(p, g)
  PROVE  IInv'
<1> DEFINE l == IF ~Mapped(p, g) THEN "unmap_remove"
                ELSE IF pagedir_is_dirty(p, g) THEN "unmap_write" ELSE "unmap_free"
           r == [g |-> g, f |-> pte[p][g].f, again |-> FALSE, then |-> pc[p]]
<1>1. /\ pc[p] \in {"user", "exit"}
      /\ g \in Layout[p] /\ Kind[g] = "map" /\ spt[p][g] # None
  BY Zenon DEF mmap_unmap, MapPages
<1>2. /\ pc' = [pc EXCEPT ![p] = l] /\ ld' = [ld EXCEPT ![p] = r]
      /\ UNCHANGED <<spt, pte, frameVars, content, swap, file, ev>>
      /\ touches' = touches /\ outcome' = outcome
  BY Zenon DEF mmap_unmap, Goto
<1>3. r \in Locals /\ r.g = g /\ r.then = pc[p]
  <2>1. pte[p][g].f \in Frame \cup {None}
    BY Types, Zenon DEF IInv
  <2> QED BY <1>1, <2>1, Zenon DEF Locals
<1>4. /\ l \in {"unmap_remove", "unmap_write", "unmap_free"}
      /\ l = "unmap_remove" => pte[p][g].f = None
      /\ l = "unmap_free" => ~pte[p][g].D
  BY Zenon DEF Mapped, pagedir_get_page, pagedir_is_dirty
<1> HIDE DEF l, r
<1>5. Alive(p)' => Alive(p)
  BY <1>1, <1>2, <1>3, <1>4, LocalTypes, Zenon DEF Alive
<1>6. \A x \in Table : ~(x.pinned /\ x.p = p)
  BY <1>1, NoPins, Zenon
<1>7. l \in PC \ Busy /\ pc[p] \notin Busy
  BY <1>1, <1>4, Zenon DEF PC, Busy, Loading, Seeking, InEvict, Unmapping
<1>8. l = "unmap_free" => \A x \in Table : x.p = p /\ x.g = g => content[x.f][3] = file[p][g]
  <2> SUFFICES ASSUME l = "unmap_free", NEW x \in Table, x.p = p, x.g = g
               PROVE  content[x.f][3] = file[p][g]
    BY Zenon
  <2>1. pte[p][g].f = x.f
    BY <1>1, Zenon DEF IInv, TableOwned
  <2> QED BY <1>1, <1>4, <2>1, Zenon DEF IInv, FrameContents, FrameHolds
<1>9. MayGo(p, l, r)
  BY <1>1, <1>3, <1>4, <1>6, <1>7, <1>8, Zenon DEF MayGo, Ending
<1> QED BY <1>2, <1>5, <1>9, LocalTypes, LocalStep, Zenon

\* spt_destroy takes the lock of the table.
LEMMA Destroys ==
  ASSUME IInv, NEW p \in Proc, spt_destroy(p)
  PROVE  IInv'
<1>1. pc[p] = "exit" /\ MapPages(p) = {}
  BY Zenon DEF spt_destroy, Running
<1>2. /\ pc' = [pc EXCEPT ![p] = "destroy"] /\ ld' = [ld EXCEPT ![p] = Idle(p)]
      /\ UNCHANGED <<spt, pte, frameVars, content, swap, file, ev>>
      /\ touches' = [touches EXCEPT ![p] = 0] /\ outcome' = outcome
  BY Zenon DEF spt_destroy, Goto
<1>3. touches' \in [Proc -> Nat] /\ outcome' \in Outcome
  BY <1>2, LocalTypes, Zenon
<1>4. Alive(p)' => Alive(p)
  BY <1>1, <1>2, LocalTypes, Zenon DEF Alive
<1>5. \A x \in Table : ~(x.pinned /\ x.p = p)
  BY <1>1, NoPins, Zenon
<1>6. \A g \in Page : Kind[g] = "map" => spt[p][g] = None
  BY <1>1, Zenon DEF MapPages, IInv, Kinds, KindOf, EvictKind
<1>7. MayGo(p, "destroy", Idle(p))
  BY <1>1, <1>5, <1>6, IdleLocals, Zenon
     DEF MayGo, Unmapping, Ending, PC, Busy, Loading, Seeking, InEvict
<1> QED BY <1>2, <1>3, <1>4, <1>7, LocalStep, Zenon

\* spt_destroy_func looks up the frame of an entry.
LEMMA LooksToFree ==
  ASSUME IInv, NEW p \in Proc, DestroyLook(p)
  PROVE  IInv'
<1>1. pc[p] = "destroy"
  BY Zenon DEF DestroyLook, Running
<1>2. PICK g \in Page : /\ spt[p][g] # None
                        /\ ld' = [ld EXCEPT ![p].g = g, ![p].f = pagedir_get_page(p, g)]
  BY Zenon DEF DestroyLook
<1> DEFINE r == [ld[p] EXCEPT !.g = g, !.f = pte[p][g].f]
<1>3. /\ pc' = [pc EXCEPT ![p] = "destroy_free"] /\ ld' = [ld EXCEPT ![p] = r]
      /\ UNCHANGED <<spt, pte, frameVars, content, swap, file, ev>>
      /\ touches' = touches /\ outcome' = outcome
  BY <1>2, LocalTypes, Zenon DEF DestroyLook, Goto, Locals, pagedir_get_page
<1>4. r \in Locals /\ r.g = g
  <2>1. pte[p][g].f \in Frame \cup {None}
    BY Types, Zenon DEF IInv
  <2> QED BY <2>1, LocalTypes, Zenon DEF Locals
<1>5. Alive(p)' => Alive(p)
  BY <1>1, <1>3, LocalTypes, Zenon DEF Alive
<1>6. \A x \in Table : ~(x.pinned /\ x.p = p)
  BY <1>1, NoPins, Zenon
<1>7. \A h \in Page : Kind[h] = "map" => spt[p][h] = None
  BY <1>1, Zenon DEF IInv, Ends, EndOf, Ending
<1>8. g \in Layout[p]
  BY <1>2, Zenon DEF IInv, Kinds, KindOf, EvictKind
<1> HIDE DEF r
<1>9. MayGo(p, "destroy_free", r)
  BY <1>1, <1>2, <1>4, <1>6, <1>7, <1>8, Zenon
     DEF MayGo, Unmapping, Ending, PC, Busy, Loading, Seeking, InEvict
<1> QED BY <1>3, <1>5, <1>9, LocalTypes, LocalStep, Zenon
==============================================================================
