---------------------------- MODULE MemoryFrames -----------------------------
(***************************************************************************)
(* The invariant is kept by the steps that bring a page into a frame: from *)
(* the pool, or one whose page is moved to its file or to swap first, is   *)
(* registered, filled, installed and recorded.                             *)
(***************************************************************************)
EXTENDS MemoryLemmas

\* What spt_set_loaded, the eviction and spt_set_swap do to an entry.
LEMMA Marked ==
  ASSUME NEW e \in Entry, NEW b \in BOOLEAN
  PROVE  \E n \in Entry : /\ n = [e EXCEPT !.loaded = b] /\ n.loaded = b /\ n.type = e.type
                          /\ n.writable = e.writable /\ n.slot = e.slot
<1> DEFINE n == [e EXCEPT !.loaded = b]
<1>1. /\ n \in Entry /\ n.loaded = b /\ n.type = e.type /\ n.writable = e.writable
      /\ n.slot = e.slot
  BY Zenon DEF Entry
<1> QED BY <1>1, Zenon

\* A step that changes only where in evict_frame a thread is, and keeps the frame
\* in its hands.
LEMMA FindStep ==
  ASSUME IInv, NEW p \in Proc, EvictFind(p)
  PROVE  IInv'
<1>1. pc[p] = "evict_find" /\ pc[p] \in InEvict
  BY Zenon DEF EvictFind, Running, InEvict
<1>2. /\ pc' = [pc EXCEPT ![p] = "evict_mark"]
      /\ UNCHANGED <<spt, pte, frameVars, content, swap, file, ld, ev, touches, outcome>>
  <2>1. spt[ev[p].p][ev[p].g] # None
    BY <1>1, Taken, SMTT(30)
  <2> QED BY <2>1, Zenon DEF EvictFind, Goto, spt_get_entry
<1>3. /\ pc' \in [Proc -> PC] /\ pc'[p] = "evict_mark" /\ \A q \in Proc \ {p} : pc'[q] = pc[q]
      /\ \A q \in Proc : pc'[q] # pc[q] => pc[q] = "evict_find" /\ pc'[q] = "evict_mark"
  BY <1>1, <1>2, LocalTypes, Zenon DEF PC, Loading, Seeking, InEvict
<1>4. /\ spt' = spt /\ pte' = pte /\ frame_table' = frame_table /\ clock_hand' = clock_hand
      /\ free_frames' = free_frames /\ content' = content /\ swap' = swap /\ file' = file
      /\ ld' = ld /\ ev' = ev /\ touches' = touches /\ outcome' = outcome /\ Table' = Table
  BY <1>2, Zenon DEF frameVars, Table
<1>5. \A q \in Proc : /\ pc'[q] \in InEvict <=> pc[q] \in InEvict
                      /\ pc'[q] \in Loading <=> pc[q] \in Loading
                      /\ pc'[q] \in Seeking <=> pc[q] \in Seeking
                      /\ Hand(q)' <=> Hand(q)
                      /\ Alive(q)' <=> Alive(q)
  BY <1>1, <1>3, <1>4, Zenon DEF InEvict, Loading, Seeking, Hand, Alive
<1>6. Typed'
  BY <1>3, <1>4, <1>5, Zenon DEF IInv, Typed, TypeOK, Unmapping
<1>7. Distinct' /\ Partition'
  BY <1>4, <1>5, Zenon DEF IInv, Distinct, Partition
<1>8. TableOwned' /\ Present'
  BY <1>3, <1>4, Refers, SMTT(30) DEF IInv, TableOwned, Present, Own
<1>9. Filling'
  BY <1>3, <1>4, <1>5, SMTT(30) DEF IInv, Filling, Own
<1>10. HasEntry'
  BY <1>3, <1>4, <1>5, SMTT(30) DEF IInv, HasEntry, EntryOf
<1>11. Ends'
  BY <1>3, <1>4, <1>5, SMTT(30) DEF IInv, Ends, EndOf, Ending, Unmapping
<1>12. Evicts'
  BY <1>3, <1>4, <1>5, SMTT(30) DEF IInv, Evicts, EvictOf, OneEvictor
<1>13. Kinds'
  BY <1>3, <1>4, <1>5, SMTT(30) DEF IInv, Kinds, KindOf, EvictKind
<1>14. FrameContents'
  <2> SUFFICES ASSUME NEW x \in Table PROVE FrameHolds(x)'
    BY <1>4, Zenon DEF FrameContents
  <2>1. x.p \in Proc /\ FrameHolds(x)
    BY Refers, Zenon DEF IInv, FrameContents
  <2>2. pc'[x.p] \in {"install", "unmap_free"} => pc'[x.p] = pc[x.p]
    BY <1>3, <2>1, Zenon
  <2> QED BY <1>4, <2>1, <2>2, Zenon DEF FrameHolds, Is
<1>15. EvictContents'
  BY <1>4, <1>5, Zenon DEF IInv, EvictContents, EvictHolds
<1>16. \A q \in Proc, h \in Page : Resting(q, h)' <=> Resting(q, h)
  BY <1>3, <1>4, <1>5, Zenon DEF Resting, NoEvictor
<1>17. Swapped'
  BY <1>3, <1>4, <1>5, <1>16, Refers, Zenon DEF IInv, Swapped, SlotHolds, EvictSlots, InEvict
<1>18. Claims'
  BY <1>3, <1>4, <1>16, SMTT(30) DEF IInv, Claims, ClaimOf
<1>19. Pins'
  BY <1>3, <1>4, Refers, SMTT(30) DEF IInv, Pins
<1> QED BY <1>6, <1>7, <1>8, <1>9, <1>10, <1>11, <1>12, <1>13, <1>14, <1>15, <1>17, <1>18, <1>19,
           Zenon DEF IInv

\* evict_frame marks the entry not loaded.
LEMMA MarkStep ==
  ASSUME IInv, NEW p \in Proc, EvictMark(p)
  PROVE  IInv'
<1>1. PICK o, g : o = ev[p].p /\ g = ev[p].g
  BY Zenon
<1> DEFINE e == spt[o][g]
           l == IF e.type = "MMAP" THEN IF ev[p].dirty THEN "evict_write" ELSE "register"
                ELSE IF ev[p].dirty \/ e.writable THEN "swap_out" ELSE "register"
<1>2. /\ pc[p] = "evict_mark" /\ pc[p] \in InEvict
      /\ spt' = [spt EXCEPT ![o][g].loaded = FALSE]
      /\ pc' = [pc EXCEPT ![p] = l]
      /\ UNCHANGED <<pte, frameVars, content, swap, file, ld, ev, touches, outcome>>
  BY <1>1, Zenon DEF EvictMark, Goto, Running, InEvict
<1>3. /\ o \in Proc /\ g \in Page /\ pte[o][g].f = None /\ e # None /\ e \in Entry
      /\ ~(pc[o] \in Loading /\ ld[o].g = g) /\ pc[o] # "load"
      /\ \A x \in Table : ~(x.p = o /\ x.g = g)
      /\ \A r \in Proc : pc[r] \in InEvict /\ ev[r].p = o /\ ev[r].g = g => r = p
      /\ KindOf(o, g) /\ EvictKind(p)
  <2>1. pc[p] \in InEvict /\ o = ev[p].p /\ g = ev[p].g /\ e = spt[o][g]
    BY <1>1, <1>2, Zenon
  <2>2. /\ o \in Proc /\ g \in Page /\ pte[o][g].f = None /\ spt[o][g] # None /\ spt[o][g] \in Entry
        /\ ~(pc[o] \in Loading /\ ld[o].g = g) /\ pc[o] # "load"
        /\ \A x \in Table : ~(x.p = o /\ x.g = g)
        /\ KindOf(o, g) /\ EvictKind(p)
    BY <2>1, Taken, SMTT(30)
  <2>3. \A r \in Proc : pc[r] \in InEvict /\ ev[r].p = o /\ ev[r].g = g => r = p
    BY <2>1, Zenon DEF IInv, Evicts, OneEvictor
  <2> QED BY <2>1, <2>2, <2>3, Zenon
<1>4. /\ l \in {"evict_write", "register", "swap_out"}
      /\ l = "evict_write" => Kind[g] = "map"
      /\ l = "swap_out" => Kind[g] \notin {"map", "code"}
      /\ l = "register" => e.type # "SWAP"
  BY <1>1, <1>2, <1>3, Zenon DEF KindOf, EvictKind, Hand
<1> HIDE DEF l
<1>5. /\ pc' \in [Proc -> PC] /\ pc'[p] = l /\ \A q \in Proc \ {p} : pc'[q] = pc[q]
      /\ \A q \in Proc : pc'[q] # pc[q] => q = p
  BY <1>2, <1>4, LocalTypes, Zenon DEF PC, Loading, Seeking, InEvict
<1>6. /\ spt' \in [Proc -> [Page -> {None} \cup Entry]]
      /\ spt'[o][g] \in Entry /\ spt'[o][g] # None /\ spt'[o][g].loaded = FALSE
      /\ spt'[o][g].type = e.type /\ spt'[o][g].writable = e.writable /\ spt'[o][g].slot = e.slot
      /\ \A q \in Proc, h \in Page : (q # o \/ h # g) => spt'[q][h] = spt[q][h]
  <2>1. PICK e1 \in Entry : /\ e1 = [e EXCEPT !.loaded = FALSE]
                            /\ e1.loaded = FALSE /\ e1.type = e.type /\ e1.writable = e.writable
                            /\ e1.slot = e.slot
    <3>1. e \in Entry
      BY <1>3, Zenon
    <3> HIDE DEF e
    <3> QED BY <3>1, Marked, Zenon
  <2>2. spt' = [spt EXCEPT ![o][g] = e1]
    BY <1>2, <1>3, <2>1, Zenon DEF IInv, Typed, TypeOK
  <2> HIDE DEF e
  <2> QED BY <1>3, <2>1, <2>2, NoneIsNothing, ZenonT(30) DEF IInv, Typed, TypeOK
<1>7. /\ pte' = pte /\ frame_table' = frame_table /\ clock_hand' = clock_hand
      /\ free_frames' = free_frames /\ content' = content /\ swap' = swap /\ file' = file
      /\ ld' = ld /\ ev' = ev /\ touches' = touches /\ outcome' = outcome /\ Table' = Table
  BY <1>2, Zenon DEF frameVars, Table
<1>8. \A q \in Proc : /\ pc'[q] \in InEvict => pc[q] \in InEvict
                      /\ pc'[q] \in Loading <=> pc[q] \in Loading
                      /\ pc'[q] \in Seeking <=> pc[q] \in Seeking
                      /\ Hand(q)' <=> Hand(q)
                      /\ Alive(q)' <=> Alive(q)
  BY <1>2, <1>4, <1>5, <1>7, Zenon DEF InEvict, Loading, Seeking, Hand, Alive
<1>9. Typed'
  BY <1>2, <1>4, <1>5, <1>6, <1>7, <1>8, SMTT(30) DEF IInv, Typed, TypeOK, Unmapping
<1>10. Distinct' /\ Partition'
  BY <1>7, <1>8, Zenon DEF IInv, Distinct, Partition
<1>11. TableOwned' /\ Present'
  BY <1>2, <1>4, <1>5, <1>7, Refers, SMTT(30) DEF IInv, TableOwned, Present, Own
<1>12. Filling'
  BY <1>2, <1>4, <1>5, <1>7, <1>8, SMTT(30) DEF IInv, Filling, Own, Seeking
<1>13. HasEntry'
  <2> SUFFICES ASSUME NEW q \in Proc, NEW h \in Page PROVE EntryOf(q, h)'
    BY Zenon DEF HasEntry
  <2>1. EntryOf(q, h)
    BY Zenon DEF IInv, HasEntry
  <2>2. CASE q = o /\ h = g
    BY <1>3, <1>6, <1>7, <2>2, Zenon DEF EntryOf
  <2>3. CASE q # o \/ h # g
    <3>1. \A t \in Proc : pc[t] \in {"evict_find", "evict_mark"} /\ ev[t].p = q /\ ev[t].g = h =>
                            pc'[t] = pc[t]
      BY <1>1, <1>5, <2>3, Zenon
    <3> QED BY <1>2, <1>4, <1>5, <1>6, <1>7, <1>8, <2>1, <2>3, <3>1, SMTT(30) DEF EntryOf
  <2> QED BY <2>2, <2>3, Zenon
<1>14. Ends'
  <2> SUFFICES ASSUME NEW q \in Proc PROVE EndOf(q)'
    BY Zenon DEF Ends
  <2>1. EndOf(q) /\ ld[q].g \in Page
    BY LocalTypes, Zenon DEF IInv, Ends
  <2>2. pc'[q] \in {"load", "dead"} \cup Unmapping \cup Ending => pc'[q] = pc[q]
    BY <1>2, <1>4, <1>5, Zenon DEF Unmapping, Ending
  <2>3. \A h \in Page : spt'[q][h] = None <=> spt[q][h] = None
    BY <1>3, <1>6, Zenon
  <2> QED BY <1>7, <1>8, <2>1, <2>2, <2>3, Zenon DEF EndOf, Ending
<1>15. Evicts'
  <2>1. OneEvictor'
    BY <1>7, <1>8, Zenon DEF IInv, Evicts, OneEvictor
  <2>2. \A q, t \in Proc, h \in Page : EvictOf(q, t, h)'
    <3> TAKE q, t \in Proc, h \in Page
    <3>1. EvictOf(q, t, h)
      BY Zenon DEF IInv, Evicts
    <3>2. CASE t = o /\ h = g
      BY <1>3, <1>4, <1>5, <1>6, <1>7, <1>8, <3>1, <3>2, Zenon DEF EvictOf
    <3>3. CASE t # o \/ h # g
      BY <1>1, <1>5, <1>6, <1>7, <1>8, <3>1, <3>3, ZenonT(30) DEF EvictOf
    <3> QED BY <3>2, <3>3, Zenon
  <2> QED BY <2>1, <2>2, Zenon DEF Evicts
<1>16. Kinds'
  <2>1. \A q \in Proc, h \in Page : KindOf(q, h)'
    BY <1>3, <1>6, <1>7, SMTT(30) DEF IInv, Kinds, KindOf
  <2>2. \A q \in Proc : EvictKind(q)'
    BY <1>1, <1>2, <1>4, <1>5, <1>7, <1>8, ZenonT(30) DEF IInv, Kinds, EvictKind
  <2> QED BY <2>1, <2>2, Zenon DEF Kinds
<1>17. FrameContents'
  <2> SUFFICES ASSUME NEW x \in Table PROVE FrameHolds(x)'
    BY <1>7, Zenon DEF FrameContents
  <2>1. x.p \in Proc /\ x.g \in Page /\ FrameHolds(x)
    BY Refers, Zenon DEF IInv, FrameContents
  <2>2. pc'[x.p] \in {"install", "unmap_free"} => pc[x.p] = pc'[x.p]
    BY <1>4, <1>5, <2>1, Zenon
  <2> QED BY <1>3, <1>6, <1>7, <2>1, <2>2, Zenon DEF FrameHolds
<1>18. EvictContents'
  BY <1>7, <1>8, Zenon DEF IInv, EvictContents, EvictHolds
<1>19. \A q \in Proc, h \in Page : (q # o \/ h # g) => (Resting(q, h)' <=> Resting(q, h))
  <2> SUFFICES ASSUME NEW q \in Proc, NEW h \in Page, q # o \/ h # g
               PROVE  Resting(q, h)' <=> Resting(q, h)
    BY Zenon
  <2>1. NoEvictor(q, h)' <=> NoEvictor(q, h)
    BY <1>1, <1>5, <1>7, Zenon DEF NoEvictor
  <2>2. pc'[q] \in {"install", "record"} <=> pc[q] \in {"install", "record"}
    BY <1>2, <1>4, <1>5, Zenon
  <2> QED BY <1>6, <1>7, <2>1, <2>2, Zenon DEF Resting
<1>20. ~Resting(o, g) /\ ~Resting(o, g)'
  <2>1. ~NoEvictor(o, g)
    BY <1>1, <1>2, Zenon DEF NoEvictor
  <2>2. pc'[p] \in InEvict => ~NoEvictor(o, g)'
    BY <1>1, <1>7, Zenon DEF NoEvictor
  <2>3. pc'[p] \notin InEvict => l = "register"
    BY <1>4, <1>5, Zenon DEF InEvict
  <2> QED BY <1>4, <1>6, <2>1, <2>2, <2>3, Zenon DEF Resting
<1>21. Swapped'
  <2>1. \A q \in Proc, h \in Page : SlotHolds(q, h)'
    BY <1>6, <1>7, <1>8, <1>19, <1>20, ZenonT(30) DEF IInv, Swapped, SlotHolds
  <2>2. \A q \in Proc : EvictSlots(q)'
    BY <1>4, <1>5, <1>7, <1>8, Refers, ZenonT(30) DEF IInv, Swapped, EvictSlots, InEvict
  <2> QED BY <2>1, <2>2, Zenon DEF Swapped
<1>22. Claims'
  <2> SUFFICES ASSUME NEW s \in Slot \ {0}, NEW q \in Proc, NEW h \in Page PROVE ClaimOf(s, q, h)'
    BY Zenon DEF Claims
  <2>1. ClaimOf(s, q, h)
    BY Zenon DEF IInv, Claims
  <2>2. \A t \in Proc : pc[t] = "evict_slot" => pc'[t] = pc[t]
    BY <1>2, <1>5, Zenon
  <2> QED BY <1>6, <1>7, <1>19, <1>20, <2>1, <2>2, Zenon DEF ClaimOf
<1>23. Pins'
  BY <1>2, <1>4, <1>5, <1>7, Refers, SMTT(30) DEF IInv, Pins
<1> QED BY <1>9, <1>10, <1>11, <1>12, <1>13, <1>14, <1>15, <1>16, <1>17, <1>18, <1>21, <1>22,
           <1>23, Zenon DEF IInv

\* evict_frame writes a mapped page back to its file.
LEMMA WriteStep ==
  ASSUME IInv, NEW p \in Proc, EvictWrite(p)
  PROVE  IInv'
<1>1. PICK o, g : o = ev[p].p /\ g = ev[p].g
  BY Zenon
<1>2. PICK v : v = content[ev[p].f][3]
  BY Zenon
<1>3. /\ pc[p] = "evict_write" /\ pc[p] \in InEvict
      /\ file' = [file EXCEPT ![o][g] = v]
      /\ pc' = [pc EXCEPT ![p] = "register"]
      /\ UNCHANGED <<spt, pte, frameVars, content, swap, ld, ev, touches, outcome>>
  BY <1>1, <1>2, Zenon DEF EvictWrite, Goto, Running, InEvict
<1>4. /\ o \in Proc /\ g \in Page
      /\ \A x \in Table : ~(x.p = o /\ x.g = g)
      /\ \A r \in Proc : pc[r] \in InEvict /\ ev[r].p = o /\ ev[r].g = g => r = p
      /\ EvictKind(p) /\ content[ev[p].f] \in Contents /\ KindOf(o, g)
  BY <1>1, <1>3, Taken, SMTT(30)
<1>5. v \in {0, 1} /\ Kind[g] = "map" /\ spt[o][g].type # "SWAP"
  <2>1. v \in {0, 1}
    BY <1>2, <1>4, Zenon DEF Contents
  <2>2. Kind[g] = "map" /\ spt[o][g] # None
    BY <1>1, <1>3, <1>4, Taken, SMTT(30) DEF EvictKind
  <2> QED BY <1>4, <2>1, <2>2, Zenon DEF KindOf
<1>6. /\ pc' \in [Proc -> PC] /\ pc'[p] = "register" /\ \A q \in Proc \ {p} : pc'[q] = pc[q]
      /\ \A q \in Proc : pc'[q] # pc[q] => q = p
  BY <1>3, LocalTypes, Zenon DEF PC, Loading, Seeking
<1>7. /\ file' \in [Proc -> [Page -> {0, 1}]]
      /\ \A q \in Proc, h \in Page : (q # o \/ h # g) => file'[q][h] = file[q][h]
  BY <1>3, <1>4, <1>5, Zenon DEF IInv, Typed, TypeOK
<1>8. /\ spt' = spt /\ pte' = pte /\ frame_table' = frame_table /\ clock_hand' = clock_hand
      /\ free_frames' = free_frames /\ content' = content /\ swap' = swap
      /\ ld' = ld /\ ev' = ev /\ touches' = touches /\ outcome' = outcome /\ Table' = Table
  BY <1>3, Zenon DEF frameVars, Table
<1>9. \A q \in Proc : /\ pc'[q] \in InEvict => pc[q] \in InEvict /\ q # p
                      /\ pc'[q] \in Loading <=> pc[q] \in Loading
                      /\ pc'[q] \in Seeking <=> pc[q] \in Seeking
                      /\ Hand(q)' <=> Hand(q)
                      /\ Alive(q)' <=> Alive(q)
  BY <1>3, <1>6, <1>8, Zenon DEF InEvict, Loading, Seeking, Hand, Alive
<1>10. Typed'
  BY <1>3, <1>6, <1>7, <1>8, <1>9, SMTT(30) DEF IInv, Typed, TypeOK, Unmapping
<1>11. Distinct' /\ Partition'
  BY <1>8, <1>9, Zenon DEF IInv, Distinct, Partition
<1>12. TableOwned' /\ Present'
  BY <1>3, <1>6, <1>8, Refers, SMTT(30) DEF IInv, TableOwned, Present, Own
<1>13. Filling'
  BY <1>3, <1>6, <1>8, <1>9, SMTT(30) DEF IInv, Filling, Own, Seeking
<1>14. HasEntry'
  BY <1>3, <1>6, <1>8, <1>9, SMTT(30) DEF IInv, HasEntry, EntryOf
<1>15. Ends'
  <2> SUFFICES ASSUME NEW q \in Proc PROVE EndOf(q)'
    BY Zenon DEF Ends
  <2>1. EndOf(q)
    BY Zenon DEF IInv, Ends
  <2>2. pc'[q] \in {"load", "dead"} \cup Unmapping \cup Ending => pc'[q] = pc[q]
    BY <1>6, Zenon DEF Unmapping, Ending
  <2> QED BY <1>8, <1>9, <2>1, <2>2, Zenon DEF EndOf, Ending
<1>16. Evicts'
  BY <1>6, <1>8, <1>9, SMTT(30) DEF IInv, Evicts, EvictOf, OneEvictor
<1>17. Kinds'
  BY <1>6, <1>8, <1>9, ZenonT(30) DEF IInv, Kinds, KindOf, EvictKind
<1>18. FrameContents'
  <2> SUFFICES ASSUME NEW x \in Table PROVE FrameHolds(x)'
    BY <1>8, Zenon DEF FrameContents
  <2>1. x.p \in Proc /\ x.g \in Page /\ FrameHolds(x) /\ (x.p # o \/ x.g # g)
    BY <1>4, Refers, Zenon DEF IInv, FrameContents
  <2>2. pc'[x.p] \in {"install", "unmap_free"} => pc[x.p] = pc'[x.p]
    BY <1>6, <2>1, Zenon
  <2>3. file'[x.p][x.g] = file[x.p][x.g]
    BY <1>7, <2>1, Zenon
  <2> QED BY <1>8, <2>1, <2>2, <2>3, Zenon DEF FrameHolds
<1>19. EvictContents'
  <2> SUFFICES ASSUME NEW q \in Proc, pc'[q] \in InEvict PROVE EvictHolds(q)'
    BY Zenon DEF EvictContents, EvictHolds
  <2>1. pc[q] \in InEvict /\ EvictHolds(q) /\ ev[q].p \in Proc /\ ev[q].g \in Page
    BY <1>9, Refers, Zenon DEF IInv, EvictContents
  <2>2. ev[q].p # o \/ ev[q].g # g
    BY <1>4, <1>9, <2>1, Zenon
  <2>3. file'[ev[q].p][ev[q].g] = file[ev[q].p][ev[q].g]
    BY <1>7, <2>1, <2>2, Zenon
  <2> QED BY <1>8, <2>1, <2>3, Zenon DEF EvictHolds
<1>20. \A q \in Proc, h \in Page : Resting(q, h)' <=> Resting(q, h)
  <2> SUFFICES ASSUME NEW q \in Proc, NEW h \in Page PROVE Resting(q, h)' <=> Resting(q, h)
    BY Zenon
  <2>1. CASE q = o /\ h = g
    BY <1>5, <1>8, <2>1, Zenon DEF Resting
  <2>2. CASE q # o \/ h # g
    <3>1. NoEvictor(q, h)' <=> NoEvictor(q, h)
      BY <1>1, <1>6, <1>8, <2>2, Zenon DEF NoEvictor
    <3>2. pc'[q] \in {"install", "record"} <=> pc[q] \in {"install", "record"}
      BY <1>3, <1>6, Zenon
    <3> QED BY <1>8, <3>1, <3>2, Zenon DEF Resting
  <2> QED BY <2>1, <2>2, Zenon
<1>21. Swapped'
  <2>1. \A q \in Proc, h \in Page : SlotHolds(q, h)'
    BY <1>8, <1>9, <1>20, Zenon DEF IInv, Swapped, SlotHolds
  <2>2. \A q \in Proc : EvictSlots(q)'
    BY <1>6, <1>8, <1>9, Refers, Zenon DEF IInv, Swapped, EvictSlots, InEvict
  <2> QED BY <2>1, <2>2, Zenon DEF Swapped
<1>22. Claims'
  <2>1. \A t \in Proc : pc[t] = "evict_slot" => pc'[t] = pc[t]
    BY <1>3, <1>6, Zenon
  <2> QED BY <1>8, <1>20, <2>1, SMTT(30) DEF IInv, Claims, ClaimOf
<1>23. Pins'
  BY <1>3, <1>6, <1>8, Refers, SMTT(30) DEF IInv, Pins
<1> QED BY <1>10, <1>11, <1>12, <1>13, <1>14, <1>15, <1>16, <1>17, <1>18, <1>19, <1>21, <1>22,
           <1>23, Zenon DEF IInv

\* swap_out takes a slot no page is in.
LEMMA SwapOutStep ==
  ASSUME IInv, NEW p \in Proc, swap_out(p)
  PROVE  IInv'
<1> DEFINE clear == {s \in Slot : swap[s] = None}
<1>1. pc[p] = "swap_out" /\ pc[p] \in InEvict
  BY Zenon DEF swap_out, Running, InEvict
<1>2. CASE clear = {}
  <2>1. Stop("swap_full")
    BY <1>2, Zenon DEF swap_out
  <2> QED BY <2>1, StopsStep, Outcomes, Zenon DEF Panics
<1>3. CASE clear # {}
  <2>1. PICK m \in First(clear) :
          /\ swap' = [swap EXCEPT ![m] = content[ev[p].f]]
          /\ ev' = [ev EXCEPT ![p].slot = m]
          /\ Goto(p, "evict_slot")
          /\ UNCHANGED <<spt, pte, frameVars, content, file, ld, touches, outcome>>
    BY <1>3, Zenon DEF swap_out
  <2>2. m \in Slot /\ swap[m] = None
    BY <2>1, Zenon DEF First
  <2>3. PICK o, g, c : o = ev[p].p /\ g = ev[p].g /\ c = content[ev[p].f]
    BY Zenon
  <2>4. /\ swap' = [swap EXCEPT ![m] = c]
        /\ ev' = [ev EXCEPT ![p].slot = m]
        /\ pc' = [pc EXCEPT ![p] = "evict_slot"]
        /\ UNCHANGED <<spt, pte, frameVars, content, file, ld, touches, outcome>>
    BY <2>1, <2>3, Zenon DEF Goto
  <2>5. /\ o \in Proc /\ g \in Page /\ Is(o, g, c) /\ c \in Contents
        /\ \A r \in Proc : pc[r] \in InEvict /\ ev[r].p = o /\ ev[r].g = g => r = p
        /\ EvictKind(p) /\ EvictHolds(p)
    BY <1>1, <2>3, Taken, SMTT(30) DEF EvictHolds
  <2>6. /\ pc' \in [Proc -> PC] /\ pc'[p] = "evict_slot" /\ \A q \in Proc \ {p} : pc'[q] = pc[q]
        /\ \A q \in Proc : pc'[q] # pc[q] => q = p
    BY <2>4, LocalTypes, Zenon DEF PC, Loading, Seeking, InEvict
  <2>7. /\ swap' \in [Slot -> {None} \cup Contents] /\ swap'[m] = c
        /\ \A s \in Slot \ {m} : swap'[s] = swap[s]
    BY <2>2, <2>4, <2>5, Zenon DEF IInv, Typed, TypeOK
  <2>8. /\ ev' \in [Proc -> {None} \cup Victim] /\ \A q \in Proc \ {p} : ev'[q] = ev[q]
        /\ ev'[p] # None /\ ev'[p].slot = m
        /\ \A q \in Proc : Hand(q) => /\ ev'[q].p = ev[q].p /\ ev'[q].g = ev[q].g
                                      /\ ev'[q].f = ev[q].f /\ ev'[q].dirty = ev[q].dirty
    <3>1. ev[p] \in Victim
      BY <1>1, Types, Zenon DEF IInv, Hand
    <3>2. PICK v \in Victim : /\ v = [ev[p] EXCEPT !.slot = m] /\ v.slot = m /\ v.p = ev[p].p
                              /\ v.g = ev[p].g /\ v.f = ev[p].f /\ v.dirty = ev[p].dirty
      <4> DEFINE v == [ev[p] EXCEPT !.slot = m]
      <4>1. /\ v \in Victim /\ v.slot = m /\ v.p = ev[p].p
            /\ v.g = ev[p].g /\ v.f = ev[p].f /\ v.dirty = ev[p].dirty
        BY <2>2, <3>1, Zenon DEF Victim
      <4> QED BY <4>1, Zenon
    <3>3. ev' = [ev EXCEPT ![p] = v]
      BY <2>4, <3>2, Zenon
    <3> QED BY <3>2, <3>3, NoneIsNothing, Zenon DEF IInv, Typed, TypeOK
  <2>9. /\ spt' = spt /\ pte' = pte /\ frame_table' = frame_table /\ clock_hand' = clock_hand
        /\ free_frames' = free_frames /\ content' = content /\ file' = file
        /\ ld' = ld /\ touches' = touches /\ outcome' = outcome /\ Table' = Table
    BY <2>4, Zenon DEF frameVars, Table
  <2>10. \A q \in Proc : /\ pc'[q] \in InEvict <=> pc[q] \in InEvict
                         /\ pc'[q] \in Loading <=> pc[q] \in Loading
                         /\ pc'[q] \in Seeking <=> pc[q] \in Seeking
                         /\ Hand(q)' <=> Hand(q)
                         /\ pc[q] \in InEvict => Hand(q)
                         /\ Alive(q)' <=> Alive(q)
    BY <1>1, <2>6, <2>9, Zenon DEF InEvict, Loading, Seeking, Hand, Alive
  <2>11. Typed'
    <3>1. TypeOK'
      BY <2>7, <2>8, <2>9, Zenon DEF IInv, Typed, TypeOK
    <3>2. \A q \in Proc : Hand(q)' <=> ev'[q] # None
      BY <1>1, <2>8, <2>10, Zenon DEF IInv, Typed
    <3> QED BY <1>1, <2>6, <2>9, <2>10, <3>1, <3>2, Zenon DEF IInv, Typed, Unmapping
  <2>12. Distinct' /\ Partition'
    BY <2>8, <2>9, <2>10, SMTT(30) DEF IInv, Distinct, Partition
  <2>13. TableOwned' /\ Present'
    BY <1>1, <2>6, <2>9, Refers, SMTT(30) DEF IInv, TableOwned, Present, Own
  <2>14. Filling'
    BY <1>1, <2>6, <2>9, <2>10, SMTT(30) DEF IInv, Filling, Own, Seeking
  <2>15. HasEntry'
    <3>1. \A q \in Proc : pc[q] \in {"evict_find", "evict_mark"} => pc'[q] = pc[q] /\ ev'[q] = ev[q]
      BY <1>1, <2>6, <2>8, Zenon
    <3> QED BY <1>1, <2>6, <2>9, <2>10, <3>1, SMTT(30) DEF IInv, HasEntry, EntryOf
  <2>16. Ends'
    <3> SUFFICES ASSUME NEW q \in Proc PROVE EndOf(q)'
      BY Zenon DEF Ends
    <3>1. EndOf(q)
      BY Zenon DEF IInv, Ends
    <3>2. pc'[q] \in {"load", "dead"} \cup Unmapping \cup Ending => pc'[q] = pc[q]
      BY <2>6, Zenon DEF Unmapping, Ending
    <3> QED BY <2>8, <2>9, <2>10, <3>1, <3>2, Zenon DEF EndOf, Ending
  <2>17. Evicts'
    <3>1. OneEvictor'
      BY <2>8, <2>9, <2>10, Zenon DEF IInv, Evicts, OneEvictor
    <3>2. ASSUME NEW q \in Proc, NEW w \in Proc, NEW h \in Page PROVE EvictOf(q, w, h)'
      <4>1. EvictOf(q, w, h)
        BY Zenon DEF IInv, Evicts
      <4>2. pc'[q] \in {"evict_find", "evict_mark"} <=> pc[q] \in {"evict_find", "evict_mark"}
        BY <1>1, <2>6, Zenon
      <4> QED BY <2>8, <2>9, <2>10, <4>1, <4>2, Zenon DEF EvictOf
    <3> QED BY <3>1, <3>2, Zenon DEF Evicts
  <2>18. Kinds'
    <3>1. ASSUME NEW q \in Proc, NEW h \in Page PROVE KindOf(q, h)'
      BY <2>9, Zenon DEF IInv, Kinds, KindOf
    <3>2. ASSUME NEW q \in Proc PROVE EvictKind(q)'
      BY <1>1, <2>6, <2>8, <2>9, <2>10, SMTT(30) DEF IInv, Kinds, EvictKind
    <3> QED BY <3>1, <3>2, Zenon DEF Kinds
  <2>19. FrameContents'
    <3> SUFFICES ASSUME NEW x \in Table PROVE FrameHolds(x)'
      BY <2>9, Zenon DEF FrameContents
    <3>1. x.p \in Proc /\ FrameHolds(x)
      BY Refers, Zenon DEF IInv, FrameContents
    <3>2. pc'[x.p] \in {"install", "unmap_free"} => pc[x.p] = pc'[x.p]
      BY <2>6, <3>1, Zenon
    <3> QED BY <2>9, <3>1, <3>2, Zenon DEF FrameHolds
  <2>20. EvictContents'
    BY <2>8, <2>9, <2>10, ZenonT(30) DEF IInv, EvictContents, EvictHolds
  <2>21. \A q \in Proc, h \in Page : Resting(q, h)' <=> Resting(q, h)
    <3> SUFFICES ASSUME NEW q \in Proc, NEW h \in Page PROVE Resting(q, h)' <=> Resting(q, h)
      BY Zenon
    <3>1. NoEvictor(q, h)' <=> NoEvictor(q, h)
      BY <2>8, <2>10, Zenon DEF NoEvictor
    <3>2. pc'[q] \in {"install", "record"} <=> pc[q] \in {"install", "record"}
      BY <1>1, <2>6, Zenon
    <3> QED BY <2>9, <3>1, <3>2, Zenon DEF Resting
  <2>22. Swapped'
    <3>1. \A q \in Proc, h \in Page : SlotHolds(q, h)'
      <4> SUFFICES ASSUME NEW q \in Proc, NEW h \in Page, Resting(q, h), Alive(q)
                   PROVE  Is(q, h, swap'[spt[q][h].slot])
        BY <2>9, <2>10, <2>21, Zenon DEF SlotHolds
      <4>1. Is(q, h, swap[spt[q][h].slot]) /\ spt[q][h].slot \in Slot
        BY Zenon DEF IInv, Swapped, SlotHolds, Resting, Kinds, KindOf
      <4> QED BY <2>2, <2>7, <4>1, Zenon DEF Is
    <3>2. \A q \in Proc \ {p} : EvictSlots(q)'
      <4> SUFFICES ASSUME NEW q \in Proc \ {p}, pc[q] = "evict_slot"
                   PROVE  /\ ev[q].slot \in Slot
                          /\ Alive(ev[q].p) => swap'[ev[q].slot] = content[ev[q].f]
        <5>1. \A q \in Proc : pc[q] = "evict_slot" => ev[q].p \in Proc
          BY Refers, Zenon DEF InEvict
        <5> QED BY <2>6, <2>8, <2>9, <2>10, <5>1, SMTT(30) DEF EvictSlots
      <4>1. EvictSlots(q) /\ content[ev[q].f] \in Contents
        <5>1. pc[q] \in InEvict
          BY Zenon DEF InEvict
        <5>2. content[ev[q].f] \in Contents
          BY <5>1, Taken, SMTT(30)
        <5> QED BY <5>2, Zenon DEF IInv, Swapped
      <4> QED BY <2>2, <2>7, <4>1, NoneIsNothing, Zenon DEF EvictSlots
    <3>3. EvictSlots(p)'
      BY <1>1, <2>2, <2>3, <2>7, <2>8, <2>9, <2>10, Zenon DEF EvictSlots
    <3> QED BY <3>1, <3>2, <3>3, Zenon DEF Swapped
  <2>23. Claims'
    <3> SUFFICES ASSUME NEW s \in Slot \ {0}, NEW q \in Proc, NEW h \in Page PROVE ClaimOf(s, q, h)'
      BY Zenon DEF Claims
    <3>1. CASE s = m
      <4>1. Is(q, h, swap'[s]) => q = o /\ h = g
        BY <2>5, <2>7, <3>1, Zenon DEF Is
      <4>2. pc'[p] = "evict_slot" /\ ev'[p].p = o /\ ev'[p].g = g /\ ev'[p].slot = s
        BY <1>1, <2>3, <2>6, <2>8, <2>10, <3>1, Zenon
      <4> QED BY <4>1, <4>2, Zenon DEF ClaimOf
    <3>2. CASE s # m
      <4>1. ClaimOf(s, q, h) /\ swap'[s] = swap[s]
        BY <2>7, <3>2, Zenon DEF IInv, Claims
      <4>2. \A t \in Proc : pc[t] = "evict_slot" => pc'[t] = pc[t] /\ ev'[t] = ev[t]
        BY <1>1, <2>6, <2>8, Zenon
      <4> QED BY <2>9, <2>21, <4>1, <4>2, Zenon DEF ClaimOf
    <3> QED BY <3>1, <3>2, Zenon
  <2>24. Pins'
    <3>1. \A q \in Proc : pc[q] \in {"sys", "unpin", "unpin_walk"} \/ pc'[q] = "sys" => pc'[q] = pc[q]
      BY <1>1, <2>6, Zenon
    <3> QED BY <2>9, <3>1, Refers, Zenon DEF IInv, Pins
  <2> QED BY <2>11, <2>12, <2>13, <2>14, <2>15, <2>16, <2>17, <2>18, <2>19, <2>20, <2>22, <2>23,
             <2>24, Zenon DEF IInv
<1> QED BY <1>2, <1>3, Zenon

\* spt_set_swap hands the slot from the evictor to the entry.
LEMMA SlotStep ==
  ASSUME IInv, NEW p \in Proc, EvictSlot(p)
  PROVE  IInv'
<1>1. PICK o, g, s0 : o = ev[p].p /\ g = ev[p].g /\ s0 = ev[p].slot
  BY Zenon
<1> DEFINE e == spt[o][g]
<1>2. /\ pc[p] = "evict_slot" /\ pc[p] \in InEvict
      /\ spt' = [spt EXCEPT ![o][g].type = "SWAP", ![o][g].slot = s0]
      /\ pc' = [pc EXCEPT ![p] = "register"]
      /\ UNCHANGED <<pte, frameVars, content, swap, file, ld, ev, touches, outcome>>
  BY <1>1, Zenon DEF EvictSlot, Goto, Running, InEvict
<1>3. pc[p] \in InEvict
  BY <1>2, Zenon
<1>4. /\ o \in Proc /\ g \in Page /\ pte[o][g].f = None /\ e # None /\ e \in Entry
      /\ ~(pc[o] \in Loading /\ ld[o].g = g) /\ pc[o] # "load"
      /\ \A x \in Table : ~(x.p = o /\ x.g = g)
      /\ \A r \in Proc : pc[r] \in InEvict /\ ev[r].p = o /\ ev[r].g = g => r = p
      /\ KindOf(o, g) /\ EvictKind(p) /\ EvictHolds(p)
  BY <1>1, <1>3, Taken, SMTT(30)
<1>5. e.loaded <=> pc[p] \in {"evict_find", "evict_mark"}
  BY <1>1, <1>3, Taken, SMTT(30)
<1>6. /\ Kind[g] \notin {"map", "code"} /\ s0 \in Slot
      /\ Alive(o) => Is(o, g, swap[s0])
  BY <1>1, <1>2, <1>4, Zenon DEF EvictKind, EvictHolds, IInv, Swapped, EvictSlots
<1>7. /\ pc' \in [Proc -> PC] /\ pc'[p] = "register" /\ \A q \in Proc \ {p} : pc'[q] = pc[q]
      /\ \A q \in Proc : pc'[q] # pc[q] => q = p
  BY <1>2, LocalTypes, Zenon DEF PC, Loading, Seeking
<1>8. /\ spt' \in [Proc -> [Page -> {None} \cup Entry]]
      /\ spt'[o][g] \in Entry /\ spt'[o][g] # None /\ spt'[o][g].loaded = FALSE
      /\ spt'[o][g].type = "SWAP" /\ spt'[o][g].writable = e.writable /\ spt'[o][g].slot = s0
      /\ \A q \in Proc, h \in Page : (q # o \/ h # g) => spt'[q][h] = spt[q][h]
  <2>1. NowInSlot(o, g, s0)
    BY <1>1, SlotNamed, Zenon
  <2> QED BY <2>1, Zenon DEF NowInSlot
<1>9. /\ pte' = pte /\ frame_table' = frame_table /\ clock_hand' = clock_hand
      /\ free_frames' = free_frames /\ content' = content /\ swap' = swap /\ file' = file
      /\ ld' = ld /\ ev' = ev /\ touches' = touches /\ outcome' = outcome /\ Table' = Table
  BY <1>2, Zenon DEF frameVars, Table
<1>10. \A q \in Proc : /\ pc'[q] \in InEvict => pc[q] \in InEvict
                       /\ pc'[q] \in Loading <=> pc[q] \in Loading
                       /\ pc'[q] \in Seeking <=> pc[q] \in Seeking
                       /\ Hand(q)' <=> Hand(q)
                       /\ Alive(q)' <=> Alive(q)
  BY <1>2, <1>7, <1>9, Zenon DEF InEvict, Loading, Seeking, Hand, Alive
<1>11. Typed'
  BY <1>2, <1>7, <1>8, <1>9, <1>10, SMTT(30) DEF IInv, Typed, TypeOK, Unmapping
<1>12. Distinct' /\ Partition'
  BY <1>9, <1>10, Zenon DEF IInv, Distinct, Partition
<1>13. TableOwned' /\ Present'
  BY <1>2, <1>7, <1>9, Refers, SMTT(30) DEF IInv, TableOwned, Present, Own
<1>14. Filling'
  <2> SUFFICES ASSUME NEW q \in Proc
               PROVE  (/\ pc[q] \in {"fill", "install", "record"} => Own(q, ld[q].g, ld[q].f)
                       /\ pc[q] \in Seeking \cup {"fill", "install", "unmap_remove"} =>
                            pte[q][ld[q].g].f = None
                       /\ pc[q] = "record" => pte[q][ld[q].g].f = ld[q].f
                       /\ pc[q] = "unmap_clear" => \A x \in Table : ~(x.p = q /\ x.g = ld[q].g))'
    BY Zenon DEF Filling
  <2>1. /\ pc'[q] \in {"fill", "install", "record", "unmap_remove", "unmap_clear"} => pc'[q] = pc[q]
        /\ pc'[q] \in Seeking => pc[q] \in Seeking
    BY <1>7, <1>10, Zenon
  <2>2. Own(q, ld[q].g, ld[q].f)' <=> Own(q, ld[q].g, ld[q].f)
    BY <1>9, Zenon DEF Own
  <2>3. /\ pc[q] \in {"fill", "install", "record"} => Own(q, ld[q].g, ld[q].f)
        /\ pc[q] \in Seeking \cup {"fill", "install", "unmap_remove"} => pte[q][ld[q].g].f = None
        /\ pc[q] = "record" => pte[q][ld[q].g].f = ld[q].f
        /\ pc[q] = "unmap_clear" => \A x \in Table : ~(x.p = q /\ x.g = ld[q].g)
    BY Zenon DEF IInv, Filling
  <2> QED BY <1>9, <2>1, <2>2, <2>3, Zenon
<1>15. HasEntry'
  <2> SUFFICES ASSUME NEW q \in Proc, NEW h \in Page PROVE EntryOf(q, h)'
    BY Zenon DEF HasEntry
  <2>1. EntryOf(q, h)
    BY Zenon DEF IInv, HasEntry
  <2>2. CASE q = o /\ h = g
    BY <1>4, <1>8, <1>9, <2>2, Zenon DEF EntryOf
  <2>3. CASE q # o \/ h # g
    <3>1. \A t \in Proc : pc[t] \in {"evict_find", "evict_mark"} => pc'[t] = pc[t]
      BY <1>2, <1>7, Zenon
    <3>2. pc[q] = "record" => pc'[q] = "record"
      BY <1>2, <1>7, Zenon
    <3>3. spt'[q][h] = spt[q][h]
      BY <1>8, <2>3, Zenon
    <3> QED BY <1>9, <1>10, <2>1, <3>1, <3>2, <3>3, Zenon DEF EntryOf
  <2> QED BY <2>2, <2>3, Zenon
<1>16. Ends'
  <2> SUFFICES ASSUME NEW q \in Proc PROVE EndOf(q)'
    BY Zenon DEF Ends
  <2>1. EndOf(q) /\ ld[q].g \in Page
    BY LocalTypes, Zenon DEF IInv, Ends
  <2>2. pc'[q] \in {"load", "dead"} \cup Unmapping \cup Ending => pc'[q] = pc[q]
    BY <1>7, Zenon DEF Unmapping, Ending
  <2>3. \A h \in Page : spt'[q][h] = None <=> spt[q][h] = None
    BY <1>4, <1>8, Zenon
  <2> QED BY <1>9, <1>10, <2>1, <2>2, <2>3, Zenon DEF EndOf, Ending
<1>17. Evicts'
  <2>1. OneEvictor'
    BY <1>9, <1>10, Zenon DEF IInv, Evicts, OneEvictor
  <2>2. \A q, t \in Proc, h \in Page : EvictOf(q, t, h)'
    <3> TAKE q, t \in Proc, h \in Page
    <3>1. EvictOf(q, t, h)
      BY Zenon DEF IInv, Evicts
    <3>2. CASE t = o /\ h = g
      BY <1>4, <1>7, <1>9, <1>10, <3>2, Zenon DEF EvictOf, InEvict
    <3>3. CASE t # o \/ h # g
      BY <1>1, <1>7, <1>8, <1>9, <1>10, <3>1, <3>3, Zenon DEF EvictOf
    <3> QED BY <3>2, <3>3, Zenon
  <2> QED BY <2>1, <2>2, Zenon DEF Evicts
<1>18. Kinds'
  <2>1. \A q \in Proc, h \in Page : KindOf(q, h)'
    <3> SUFFICES ASSUME NEW q \in Proc, NEW h \in Page PROVE KindOf(q, h)'
      BY Zenon
    <3>1. KindOf(q, h)
      BY Zenon DEF IInv, Kinds
    <3>2. CASE q = o /\ h = g
      BY <1>4, <1>6, <1>8, <1>9, <3>1, <3>2, Zenon DEF KindOf
    <3>3. CASE q # o \/ h # g
      BY <1>8, <1>9, <3>1, <3>3, Zenon DEF KindOf
    <3> QED BY <3>2, <3>3, Zenon
  <2>2. \A q \in Proc : EvictKind(q)'
    BY <1>2, <1>7, <1>9, <1>10, Zenon DEF IInv, Kinds, EvictKind
  <2> QED BY <2>1, <2>2, Zenon DEF Kinds
<1>19. FrameContents'
  <2> SUFFICES ASSUME NEW x \in Table PROVE FrameHolds(x)'
    BY <1>9, Zenon DEF FrameContents
  <2>1. x.p \in Proc /\ x.g \in Page /\ FrameHolds(x)
    BY Refers, Zenon DEF IInv, FrameContents
  <2>2. pc'[x.p] \in {"install", "unmap_free"} => pc[x.p] = pc'[x.p]
    BY <1>7, <2>1, Zenon
  <2> QED BY <1>4, <1>8, <1>9, <2>1, <2>2, Zenon DEF FrameHolds
<1>20. EvictContents'
  BY <1>9, <1>10, Zenon DEF IInv, EvictContents, EvictHolds
<1>21. \A q \in Proc, h \in Page : (q # o \/ h # g) => (Resting(q, h)' <=> Resting(q, h))
  <2> SUFFICES ASSUME NEW q \in Proc, NEW h \in Page, q # o \/ h # g
               PROVE  Resting(q, h)' <=> Resting(q, h)
    BY Zenon
  <2>1. NoEvictor(q, h)' <=> NoEvictor(q, h)
    BY <1>1, <1>7, <1>9, Zenon DEF NoEvictor
  <2>2. pc'[q] \in {"install", "record"} <=> pc[q] \in {"install", "record"}
    BY <1>2, <1>7, Zenon
  <2> QED BY <1>8, <1>9, <2>1, <2>2, Zenon DEF Resting
<1>22. ~Resting(o, g) /\ Resting(o, g)'
  <2>1. ~NoEvictor(o, g)
    BY <1>1, <1>2, Zenon DEF NoEvictor
  <2>2. NoEvictor(o, g)'
    BY <1>4, <1>7, <1>9, <1>10, Zenon DEF NoEvictor, InEvict
  <2>3. ~(pc'[o] \in {"install", "record"} /\ ld'[o].g = g)
    BY <1>4, <1>7, <1>9, Zenon DEF Loading
  <2> QED BY <1>8, <2>1, <2>2, <2>3, Zenon DEF Resting
<1>23. Swapped'
  <2>1. \A q \in Proc, h \in Page : SlotHolds(q, h)'
    BY <1>6, <1>8, <1>9, <1>10, <1>21, ZenonT(30) DEF IInv, Swapped, SlotHolds
  <2>2. \A q \in Proc : EvictSlots(q)'
    BY <1>7, <1>9, <1>10, Refers, Zenon DEF IInv, Swapped, EvictSlots, InEvict
  <2> QED BY <2>1, <2>2, Zenon DEF Swapped
<1>24. Claims'
  <2> SUFFICES ASSUME NEW s \in Slot \ {0}, NEW q \in Proc, NEW h \in Page PROVE ClaimOf(s, q, h)'
    BY Zenon DEF Claims
  <2>1. ClaimOf(s, q, h)
    BY Zenon DEF IInv, Claims
  <2>2. CASE q = o /\ h = g
    <3>1. Is(o, g, swap[s]) => s = s0
      BY <1>1, <1>4, <1>22, <2>1, <2>2, Zenon DEF ClaimOf, InEvict
    <3> QED BY <1>8, <1>9, <1>22, <2>2, <3>1, Zenon DEF ClaimOf
  <2>3. CASE q # o \/ h # g
    <3>1. \A t \in Proc : pc[t] = "evict_slot" /\ ev[t].p = q /\ ev[t].g = h => pc'[t] = pc[t]
      BY <1>1, <1>7, <2>3, Zenon
    <3> QED BY <1>8, <1>9, <1>21, <2>1, <2>3, <3>1, Zenon DEF ClaimOf
  <2> QED BY <2>2, <2>3, Zenon
<1>25. Pins'
  BY <1>2, <1>7, <1>9, Refers, SMTT(30) DEF IInv, Pins
<1> QED BY <1>11, <1>12, <1>13, <1>14, <1>15, <1>16, <1>17, <1>18, <1>19, <1>20, <1>23, <1>24,
           <1>25, Zenon DEF IInv

\* spt_set_loaded records a page that is in its frame.
LEMMA RecordStep ==
  ASSUME IInv, NEW p \in Proc, spt_set_loaded(p)
  PROVE  IInv'
<1>1. PICK g, f, e, l, r : /\ g = ld[p].g /\ f = ld[p].f /\ e = [spt[p][g] EXCEPT !.loaded = TRUE]
                           /\ l = ld[p].then
                           /\ r = IF l = "user" THEN Idle(p) ELSE [ld[p] EXCEPT !.f = None]
  BY Zenon
<1>2. /\ pc[p] = "record" /\ pc' = [pc EXCEPT ![p] = l] /\ spt' = [spt EXCEPT ![p][g].loaded = TRUE]
      /\ ld' = IF l = "user" THEN [ld EXCEPT ![p] = Idle(p)] ELSE [ld EXCEPT ![p].f = None]
      /\ UNCHANGED <<pte, frameVars, content, swap, file, ev, touches, outcome>>
  BY <1>1, Zenon DEF spt_set_loaded, Running, Goto
<1>3. /\ g \in Page /\ g \in Layout[p] /\ ld[p] \in Locals /\ Own(p, g, f)
      /\ spt[p][g] # None /\ ~spt[p][g].loaded /\ l \in {"user", "pin_look", "sys"}
  <2>1. /\ g \in Page /\ g \in Layout[p] /\ ld[p] \in Locals
        /\ pc[p] \in Loading /\ ld[p].then # "exit"
    BY <1>1, <1>2, LocalTypes, Zenon DEF IInv, Typed, Loading
  <2>2. Own(p, g, f) /\ EntryOf(p, g)
    BY <1>1, <1>2, <2>1, Zenon DEF IInv, Filling, HasEntry
  <2>3. spt[p][g] # None /\ ~spt[p][g].loaded
    BY <1>1, <2>1, <2>2, Zenon DEF EntryOf
  <2>4. l \in {"user", "pin_look", "sys"}
    BY <1>1, <2>1, SMTT(30) DEF Locals
  <2> QED BY <2>1, <2>2, <2>3, <2>4, Zenon
<1>4. NoEvictor(p, g) /\ pte[p][g].f # None
  BY <1>2, <1>3, Registered, Zenon
<1>5. spt[p][g] \in Entry
  BY <1>3, Types, Zenon DEF IInv
<1>6. /\ e \in Entry /\ e # None /\ e.loaded /\ e.type = spt[p][g].type
      /\ e.writable = spt[p][g].writable /\ e.slot = spt[p][g].slot
  BY <1>1, <1>5, NoneIsNothing, Zenon DEF Entry
<1>7. /\ spt' \in [Proc -> [Page -> {None} \cup Entry]] /\ spt'[p][g] = e
      /\ \A q \in Proc, h \in Page : (q # p \/ h # g) => spt'[q][h] = spt[q][h]
  <2>1. spt' = [spt EXCEPT ![p] = [spt[p] EXCEPT ![g] = e]]
    BY <1>1, <1>2, <1>3, Zenon DEF IInv, Typed, TypeOK
  <2> HIDE DEF Entry
  <2> QED BY <1>3, <1>6, <2>1, Zenon DEF IInv, Typed, TypeOK
<1>8. r \in Locals /\ r.f = None /\ r.g \in Layout[p]
  <2>1. Idle(p) \in Locals /\ Idle(p).f = None /\ Idle(p).g \in Layout[p]
    BY IdleLocals, StackIn, Zenon DEF Idle
  <2>2. [ld[p] EXCEPT !.f = None] \in Locals /\ [ld[p] EXCEPT !.f = None].f = None
         /\ [ld[p] EXCEPT !.f = None].g = ld[p].g
    BY <1>3, Zenon DEF Locals
  <2> QED BY <1>1, <1>3, <2>1, <2>2, Zenon
<1>9. /\ pc' \in [Proc -> PC] /\ pc'[p] = l /\ ld' \in [Proc -> Locals] /\ ld'[p] = r
      /\ \A q \in Proc \ {p} : pc'[q] = pc[q] /\ ld'[q] = ld[q]
  <2>1. ld' = [ld EXCEPT ![p] = r]
    BY <1>1, <1>2, LocalTypes, Zenon
  <2> QED BY <1>2, <1>3, <1>8, <2>1, LocalTypes, Zenon DEF PC
<1>10. /\ pte' = pte /\ file' = file /\ frame_table' = frame_table /\ clock_hand' = clock_hand
       /\ free_frames' = free_frames /\ content' = content /\ swap' = swap
       /\ ev' = ev /\ touches' = touches /\ outcome' = outcome /\ Table' = Table
  BY <1>2, Zenon DEF frameVars, Table
<1>11. /\ pc[p] \in Loading /\ pc[p] \notin InEvict /\ ~Hand(p) /\ pc'[p] \notin Loading
       /\ pc'[p] \notin Unmapping /\ pc'[p] \notin Ending
       /\ \A q \in Proc : /\ pc'[q] \in InEvict <=> pc[q] \in InEvict
                          /\ pc[q] \in InEvict => pc'[q] = pc[q]
                          /\ Hand(q)' <=> Hand(q)
                          /\ Alive(q)' <=> Alive(q)
  BY <1>2, <1>3, <1>9, <1>10, Zenon DEF InEvict, Loading, Seeking, Hand, Alive, Unmapping, Ending
<1>12. Typed'
  BY <1>3, <1>7, <1>8, <1>9, <1>10, <1>11, ZenonT(30) DEF IInv, Typed, TypeOK, Locals
<1>13. Distinct' /\ Partition'
  BY <1>10, <1>11, Zenon DEF IInv, Distinct, Partition
<1>14. TableOwned' /\ Present'
  BY <1>2, <1>3, <1>9, <1>10, Refers, SMTT(30) DEF IInv, TableOwned, Present, Own
<1>15. Filling'
  BY <1>3, <1>9, <1>10, SMTT(30) DEF IInv, Filling, Own, Seeking, InEvict
<1>16. HasEntry'
  <2> SUFFICES ASSUME NEW q \in Proc, NEW h \in Page PROVE EntryOf(q, h)'
    BY Zenon DEF HasEntry
  <2>1. EntryOf(q, h)
    BY Zenon DEF IInv, HasEntry
  <2>2. CASE q = p /\ h = g
    BY <1>4, <1>6, <1>7, <1>10, <1>11, <2>2, Zenon DEF EntryOf
  <2>3. CASE q = p /\ h # g
    BY <1>1, <1>7, <1>9, <1>10, <1>11, <2>1, <2>3, SMTT(30) DEF EntryOf, InEvict
  <2>4. CASE q # p
    BY <1>7, <1>9, <1>10, <1>11, <2>1, <2>4, ZenonT(30) DEF EntryOf, InEvict
  <2> QED BY <2>2, <2>3, <2>4, Zenon
<1>17. Ends'
  <2> SUFFICES ASSUME NEW q \in Proc PROVE EndOf(q)'
    BY Zenon DEF Ends
  <2>1. CASE q = p
    BY <1>3, <1>9, <1>11, <2>1, Zenon DEF EndOf, Ending
  <2>2. CASE q # p
    <3>1. EndOf(q) /\ ld[q].g \in Page
      BY LocalTypes, Zenon DEF IInv, Ends
    <3>2. pc'[q] = pc[q] /\ ld'[q] = ld[q] /\ \A h \in Page : spt'[q][h] = spt[q][h]
      BY <1>7, <1>9, <2>2, Zenon
    <3>3. \A o \in Proc : pc'[o] \in InEvict <=> pc[o] \in InEvict
      BY <1>11, Zenon
    <3> QED BY <1>10, <3>1, <3>2, <3>3, Zenon DEF EndOf
  <2> QED BY <2>1, <2>2, Zenon
<1>18. Evicts'
  <2>1. OneEvictor'
    BY <1>10, <1>11, Zenon DEF IInv, Evicts, OneEvictor
  <2> SUFFICES ASSUME NEW q \in Proc, NEW o \in Proc, NEW h \in Page, pc[q] \in InEvict,
                      ev[q].p = o, ev[q].g = h
               PROVE  EvictOf(q, o, h)'
    BY <1>10, <1>11, <2>1, SMTT(30) DEF Evicts, EvictOf
  <2>2. EvictOf(q, o, h) /\ (o # p \/ h # g)
    BY <1>4, Zenon DEF IInv, Evicts, NoEvictor
  <2>3. spt'[o][h] = spt[o][h]
    BY <1>7, <2>2, Zenon
  <2>4. pc'[o] \in Loading => pc[o] \in Loading /\ ld'[o] = ld[o]
    BY <1>9, <1>11, Zenon
  <2> QED BY <1>10, <1>11, <2>2, <2>3, <2>4, Zenon DEF EvictOf
<1>19. Kinds'
  <2>1. ASSUME NEW q \in Proc, NEW h \in Page PROVE KindOf(q, h)'
    <3>1. KindOf(q, h)
      BY Zenon DEF IInv, Kinds
    <3>2. CASE q = p /\ h = g
      BY <1>3, <1>6, <1>7, <1>10, <3>1, <3>2, Zenon DEF KindOf
    <3>3. CASE q # p \/ h # g
      BY <1>7, <1>10, <3>1, <3>3, SMTT(30) DEF KindOf
    <3> QED BY <3>2, <3>3, Zenon
  <2>2. \A q \in Proc : EvictKind(q)'
    BY <1>2, <1>3, <1>9, <1>10, <1>11, SMTT(30) DEF IInv, Kinds, EvictKind
  <2> QED BY <2>1, <2>2, Zenon DEF Kinds
<1>20. FrameContents'
  <2> SUFFICES ASSUME NEW x \in Table PROVE FrameHolds(x)'
    BY <1>10, Zenon DEF FrameContents
  <2>1. x.p \in Proc /\ x.g \in Page /\ FrameHolds(x)
    BY Refers, Zenon DEF IInv, FrameContents
  <2>2. pc'[x.p] \in {"install", "unmap_free"} =>
          pc[x.p] = pc'[x.p] /\ ld'[x.p] = ld[x.p] /\ spt'[x.p][x.g] = spt[x.p][x.g]
    BY <1>3, <1>7, <1>9, <2>1, Zenon
  <2> QED BY <1>10, <2>1, <2>2, Zenon DEF FrameHolds
<1>21. EvictContents'
  BY <1>10, <1>11, Zenon DEF IInv, EvictContents, EvictHolds
<1>22. \A q \in Proc, h \in Page :
         /\ Resting(q, h)' <=> Resting(q, h)
         /\ Resting(q, h) => spt'[q][h] = spt[q][h]
  <2> SUFFICES ASSUME NEW q \in Proc, NEW h \in Page
               PROVE  /\ Resting(q, h)' <=> Resting(q, h)
                      /\ Resting(q, h) => spt'[q][h] = spt[q][h]
    BY Zenon
  <2>1. NoEvictor(q, h)' <=> NoEvictor(q, h)
    BY <1>10, <1>11, Zenon DEF NoEvictor
  <2>2. CASE q = p /\ h = g
    BY <1>1, <1>2, <1>6, <1>7, <2>2, ZenonT(30) DEF Resting
  <2>3. CASE q = p /\ h # g
    BY <1>1, <1>3, <1>7, <1>9, <2>1, <2>3, Zenon DEF Resting
  <2>4. CASE q # p
    BY <1>7, <1>9, <2>1, <2>4, Zenon DEF Resting
  <2> QED BY <2>2, <2>3, <2>4, Zenon
<1>23. Swapped'
  <2>1. \A q \in Proc, h \in Page : SlotHolds(q, h)'
    BY <1>10, <1>11, <1>22, Zenon DEF IInv, Swapped, SlotHolds
  <2>2. \A q \in Proc : EvictSlots(q)'
    BY <1>3, <1>9, <1>10, <1>11, Refers, Zenon DEF IInv, Swapped, EvictSlots, InEvict
  <2> QED BY <2>1, <2>2, Zenon DEF Swapped
<1>24. Claims'
  <2> SUFFICES ASSUME NEW s \in Slot \ {0}, NEW q \in Proc, NEW h \in Page PROVE ClaimOf(s, q, h)'
    BY Zenon DEF Claims
  <2>1. ClaimOf(s, q, h)
    BY Zenon DEF IInv, Claims
  <2>2. \A r0 \in Proc : pc[r0] = "evict_slot" => pc'[r0] = "evict_slot"
    BY <1>2, <1>9, Zenon
  <2> QED BY <1>10, <1>22, <2>1, <2>2, Zenon DEF ClaimOf
<1>25. Pins'
  BY <1>2, <1>3, <1>8, <1>9, <1>10, Refers, SMTT(30) DEF IInv, Pins
<1> QED BY <1>12, <1>13, <1>14, <1>15, <1>16, <1>17, <1>18, <1>19, <1>20, <1>21, <1>23, <1>24,
           <1>25, Zenon DEF IInv

\* pagedir_set_page makes the filled frame present.
LEMMA InstallStep ==
  ASSUME IInv, NEW p \in Proc, pagedir_set_page(p)
  PROVE  IInv'
<1>1. PICK g, f : g = ld[p].g /\ f = ld[p].f
  BY Zenon
<1>2. /\ pc[p] = "install" /\ pc' = [pc EXCEPT ![p] = "record"]
      /\ pte' = [pte EXCEPT ![p][g] = [f |-> f, A |-> FALSE, D |-> FALSE]]
      /\ UNCHANGED <<spt, frameVars, content, swap, file, ld, ev, touches, outcome>>
  BY <1>1, Zenon DEF pagedir_set_page, Running, Goto
<1>3. /\ g \in Page /\ f \in Frame /\ f # None /\ Own(p, g, f) /\ pte[p][g].f = None
      /\ spt[p][g] # None /\ ~spt[p][g].loaded /\ NoEvictor(p, g)
      /\ \A x \in Table : x.p = p /\ x.g = g => x.f = f
  BY <1>1, <1>2, Fills, Zenon
<1>4. /\ pc' \in [Proc -> PC] /\ pc'[p] = "record" /\ \A q \in Proc \ {p} : pc'[q] = pc[q]
  BY <1>2, LocalTypes, Zenon DEF PC, Loading
<1>5. /\ pte' \in [Proc -> [Page -> [f : Frame \cup {None}, A : BOOLEAN, D : BOOLEAN]]]
      /\ pte'[p][g].f = f /\ ~pte'[p][g].D
      /\ \A q \in Proc, h \in Page : (q # p \/ h # g) => pte'[q][h] = pte[q][h]
  BY <1>2, <1>3, Zenon DEF IInv, Typed, TypeOK
<1>6. /\ spt' = spt /\ file' = file /\ frame_table' = frame_table /\ clock_hand' = clock_hand
      /\ free_frames' = free_frames /\ content' = content /\ swap' = swap
      /\ ld' = ld /\ ev' = ev /\ touches' = touches /\ outcome' = outcome /\ Table' = Table
  BY <1>2, Zenon DEF frameVars, Table
<1>7. \A q \in Proc : /\ pc'[q] \in Loading <=> pc[q] \in Loading
                      /\ pc'[q] \in Seeking <=> pc[q] \in Seeking
                      /\ pc'[q] \in Unmapping <=> pc[q] \in Unmapping
                      /\ pc'[q] \in InEvict <=> pc[q] \in InEvict
                      /\ pc[q] \in InEvict => pc'[q] = pc[q]
                      /\ Hand(q)' <=> Hand(q)
                      /\ Alive(q)' <=> Alive(q)
  BY <1>2, <1>4, <1>6, Zenon DEF InEvict, Loading, Seeking, Hand, Alive, Unmapping
<1>8. Typed'
  BY <1>4, <1>5, <1>6, <1>7, Zenon DEF IInv, Typed, TypeOK
<1>9. Distinct' /\ Partition'
  BY <1>6, <1>7, Zenon DEF IInv, Distinct, Partition
<1>10. TableOwned'
  <2> SUFFICES ASSUME NEW x \in Table
               PROVE  \/ pte'[x.p][x.g].f = x.f
                      \/ pc'[x.p] \in {"fill", "install"} /\ ld[x.p].f = x.f /\ ld[x.p].g = x.g
    BY <1>6, Zenon DEF TableOwned
  <2>1. /\ x.p \in Proc /\ x.g \in Page
        /\ \/ pte[x.p][x.g].f = x.f
           \/ pc[x.p] \in {"fill", "install"} /\ ld[x.p].f = x.f /\ ld[x.p].g = x.g
    BY Refers, Zenon DEF IInv, TableOwned
  <2>2. CASE x.p = p /\ x.g = g
    BY <1>3, <1>5, <2>2, Zenon
  <2>3. CASE x.p # p \/ x.g # g
    BY <1>1, <1>4, <1>5, <2>1, <2>3, Zenon
  <2> QED BY <2>2, <2>3, Zenon
<1>11. Present'
  BY <1>2, <1>3, <1>4, <1>5, <1>6, SMTT(30) DEF IInv, Present, Own
<1>12. Filling'
  <2> SUFFICES ASSUME NEW q \in Proc
               PROVE  (/\ pc[q] \in {"fill", "install", "record"} => Own(q, ld[q].g, ld[q].f)
                       /\ pc[q] \in Seeking \cup {"fill", "install", "unmap_remove"} =>
                            pte[q][ld[q].g].f = None
                       /\ pc[q] = "record" => pte[q][ld[q].g].f = ld[q].f
                       /\ pc[q] = "unmap_clear" => \A x \in Table : ~(x.p = q /\ x.g = ld[q].g))'
    BY Zenon DEF Filling
  <2>1. CASE q = p
    BY <1>1, <1>3, <1>4, <1>5, <1>6, <2>1, Zenon DEF Seeking, InEvict, Own
  <2>2. CASE q # p
    <3>1. PICK h \in Page : h = ld[q].g
      BY LocalTypes, Zenon
    <3>2. pte'[q][h] = pte[q][h] /\ pc'[q] = pc[q]
      BY <1>4, <1>5, <2>2, Zenon
    <3>3. Own(q, h, ld[q].f)' <=> Own(q, h, ld[q].f)
      BY <1>6, Zenon DEF Own
    <3> QED BY <1>6, <3>1, <3>2, <3>3, Zenon DEF IInv, Filling
  <2> QED BY <2>1, <2>2, Zenon
<1>13. HasEntry'
  <2> SUFFICES ASSUME NEW q \in Proc, NEW h \in Page PROVE EntryOf(q, h)'
    BY Zenon DEF HasEntry
  <2>1. EntryOf(q, h)
    BY Zenon DEF IInv, HasEntry
  <2>2. CASE q = p /\ h = g
    BY <1>1, <1>3, <1>4, <1>5, <1>6, <2>2, Zenon DEF EntryOf
  <2>3. CASE q # p \/ h # g
    <3>1. pc'[q] = "record" /\ ld[q].g = h <=> pc[q] = "record" /\ ld[q].g = h
      BY <1>1, <1>2, <1>4, <2>3, Zenon
    <3>2. \A r \in Proc : pc[r] \in {"evict_find", "evict_mark"} => pc'[r] = pc[r]
      BY <1>2, <1>4, Zenon
    <3> QED BY <1>5, <1>6, <1>7, <2>1, <2>3, <3>1, <3>2, Zenon DEF EntryOf
  <2> QED BY <2>2, <2>3, Zenon
<1>14. Ends'
  <2> SUFFICES ASSUME NEW q \in Proc PROVE EndOf(q)'
    BY Zenon DEF Ends
  <2>1. CASE q = p
    BY <1>4, <2>1, Zenon DEF EndOf, Ending, Unmapping
  <2>2. CASE q # p
    <3>1. EndOf(q) /\ pc'[q] = pc[q] /\ \A h \in Page : pte'[q][h] = pte[q][h]
      BY <1>4, <1>5, <2>2, Zenon DEF IInv, Ends
    <3>2. \A o \in Proc : pc'[o] \in InEvict <=> pc[o] \in InEvict
      BY <1>7, Zenon
    <3> QED BY <1>6, <3>1, <3>2, Zenon DEF EndOf
  <2> QED BY <2>1, <2>2, Zenon
<1>15. Evicts'
  <2>1. OneEvictor'
    BY <1>6, <1>7, Zenon DEF IInv, Evicts, OneEvictor
  <2> SUFFICES ASSUME NEW q \in Proc, NEW o \in Proc, NEW h \in Page, pc[q] \in InEvict,
                      ev[q].p = o, ev[q].g = h
               PROVE  EvictOf(q, o, h)'
    <3>1. \A q \in Proc : pc'[q] \in InEvict => pc[q] \in InEvict
      BY <1>7, Zenon
    <3> QED BY <1>6, <2>1, <3>1, Zenon DEF Evicts, EvictOf
  <2>2. EvictOf(q, o, h) /\ (o # p \/ h # g)
    BY <1>3, Zenon DEF IInv, Evicts, NoEvictor
  <2>3. pte'[o][h] = pte[o][h]
    BY <1>5, <2>2, Zenon
  <2> QED BY <1>6, <1>7, <2>2, <2>3, Zenon DEF EvictOf
<1>16. Kinds'
  <2>1. \A q \in Proc, h \in Page : KindOf(q, h)'
    BY <1>5, <1>6, SMTT(30) DEF IInv, Kinds, KindOf
  <2>2. \A q \in Proc : EvictKind(q)'
    BY <1>2, <1>4, <1>6, <1>7, Zenon DEF IInv, Kinds, EvictKind
  <2> QED BY <2>1, <2>2, Zenon DEF Kinds
<1>17. FrameContents'
  <2> SUFFICES ASSUME NEW x \in Table PROVE FrameHolds(x)'
    BY <1>6, Zenon DEF FrameContents
  <2>1. x.p \in Proc /\ x.g \in Page /\ FrameHolds(x)
    BY Refers, Zenon DEF IInv, FrameContents
  <2>2. pc'[x.p] \in {"install", "unmap_free"} => pc[x.p] = pc'[x.p]
    BY <1>4, <2>1, Zenon
  <2>3. CASE x.p = p /\ x.g = g
    <3>1. x.f = f /\ pc'[x.p] = "record"
      BY <1>3, <1>4, <2>3, Zenon
    <3>2. /\ Is(p, g, content[f])
          /\ spt[p][g].type # "SWAP" => content[f][3] = IF Kind[g] = "map" THEN file[p][g] ELSE 0
      BY <1>1, <1>2, <2>1, <2>3, <3>1, Zenon DEF FrameHolds
    <3>3. Kind[g] = "map" \/ Kind[g] = "code" => spt[p][g].type # "SWAP"
      BY <1>3, Zenon DEF IInv, Kinds, KindOf
    <3> QED BY <1>6, <2>3, <3>1, <3>2, <3>3, Zenon DEF FrameHolds, Is
  <2>4. CASE x.p # p \/ x.g # g
    <3>1. pte'[x.p][x.g] = pte[x.p][x.g]
      BY <1>5, <2>1, <2>4, Zenon
    <3> QED BY <1>6, <2>1, <2>2, <3>1, Zenon DEF FrameHolds
  <2> QED BY <2>3, <2>4, Zenon
<1>18. EvictContents'
  BY <1>6, <1>7, Zenon DEF IInv, EvictContents, EvictHolds
<1>19. \A q \in Proc, h \in Page : Resting(q, h)' <=> Resting(q, h)
  <2>1. \A q \in Proc : pc'[q] \in {"install", "record"} <=> pc[q] \in {"install", "record"}
    BY <1>2, <1>4, Zenon
  <2> QED BY <1>6, <1>7, <2>1, Zenon DEF Resting, NoEvictor
<1>20. Swapped'
  <2>1. \A q \in Proc, h \in Page : SlotHolds(q, h)'
    BY <1>6, <1>7, <1>19, Zenon DEF IInv, Swapped, SlotHolds
  <2>2. \A q \in Proc : EvictSlots(q)'
    BY <1>4, <1>6, <1>7, Refers, Zenon DEF IInv, Swapped, EvictSlots, InEvict
  <2> QED BY <2>1, <2>2, Zenon DEF Swapped
<1>21. Claims'
  BY <1>2, <1>4, <1>6, <1>19, SMTT(30) DEF IInv, Claims, ClaimOf
<1>22. Pins'
  BY <1>2, <1>4, <1>6, Refers, SMTT(30) DEF IInv, Pins
<1> QED BY <1>8, <1>9, <1>10, <1>11, <1>12, <1>13, <1>14, <1>15, <1>16, <1>17, <1>18, <1>20,
           <1>21, <1>22, Zenon DEF IInv

\* spt_load_page fills the frame from the file, from zeros or by swap_in.
LEMMA FillStep ==
  ASSUME IInv, NEW p \in Proc, PageFill(p)
  PROVE  IInv'
<1>1. PICK g, f, e, c, s : /\ g = ld[p].g /\ f = ld[p].f /\ e = spt[p][g] /\ s = e.slot
                           /\ c = IF e.type = "SWAP" THEN swap[s]
                                  ELSE <<p, g, IF e.type = "MMAP" THEN file[p][g] ELSE 0>>
  BY Zenon
<1>2. pc[p] = "fill"
  BY Zenon DEF PageFill, Running
<1>3. CASE e.type = "SWAP" /\ swap[s] = None
  <2>1. Stop("free_slot")
    BY <1>1, <1>3, Zenon DEF PageFill
  <2> QED BY <2>1, StopsStep, Outcomes, Zenon DEF Panics
<1>4. CASE ~(e.type = "SWAP" /\ swap[s] = None)
  <2>1. /\ content' = [content EXCEPT ![f] = c]
        /\ swap' = IF e.type = "SWAP" THEN [swap EXCEPT ![s] = None] ELSE swap
        /\ pc' = [pc EXCEPT ![p] = "install"]
        /\ UNCHANGED <<spt, pte, frameVars, file, ld, ev, touches, outcome>>
    BY <1>1, <1>4, Zenon DEF PageFill, Goto, swap_in, swap_free
  <2>2. /\ g \in Page /\ f \in Frame /\ f # None /\ Own(p, g, f) /\ pte[p][g].f = None
        /\ spt[p][g] # None /\ ~spt[p][g].loaded /\ NoEvictor(p, g)
        /\ \A x \in Table : x.p = p /\ x.g = g => x.f = f
        /\ \A x \in Table : x.f = f => x.p = p /\ x.g = g
    BY <1>1, <1>2, Fills, Zenon
  <2>3. e.type = "SWAP" => s \in Slot /\ Is(p, g, swap[s]) /\ swap[s] \in Contents
    BY <1>1, <1>2, Read, Zenon
  <2>4. /\ c \in Contents /\ Is(p, g, c)
        /\ e.type # "SWAP" => c[3] = IF Kind[g] = "map" THEN file[p][g] ELSE 0
    <3>1. CASE e.type = "SWAP"
      BY <1>1, <2>3, <3>1, Zenon
    <3>2. CASE e.type # "SWAP"
      <4>1. PICK v : v = IF e.type = "MMAP" THEN file[p][g] ELSE 0
        BY Zenon
      <4>2. v \in {0, 1} /\ c = <<p, g, v>>
        <5>1. file[p][g] \in {0, 1}
          BY <2>2, SMTT(30) DEF IInv, Typed, TypeOK
        <5> QED BY <1>1, <3>2, <4>1, <5>1, Zenon
      <4>3. e.type = "MMAP" <=> Kind[g] = "map"
        BY <1>1, <2>2, Zenon DEF IInv, Kinds, KindOf
      <4>4. c \in Contents /\ c[1] = p /\ c[2] = g /\ c[3] = v
        BY <2>2, <4>2, Zenon DEF Contents
      <4> QED BY <4>1, <4>3, <4>4, NoneIsNothing, Zenon DEF Is
    <3> QED BY <3>1, <3>2, Zenon
  <2>5. /\ pc' \in [Proc -> PC] /\ pc'[p] = "install" /\ \A q \in Proc \ {p} : pc'[q] = pc[q]
    BY <2>1, LocalTypes, Zenon DEF PC, Loading
  <2>6. /\ content' \in [Frame -> {None} \cup Contents] /\ content'[f] = c
        /\ \A k \in Frame \ {f} : content'[k] = content[k]
    BY <2>1, <2>2, <2>4, Zenon DEF IInv, Typed, TypeOK
  <2>7. /\ swap' \in [Slot -> {None} \cup Contents]
        /\ e.type = "SWAP" => swap'[s] = None
        /\ \A k \in Slot : (e.type # "SWAP" \/ k # s) => swap'[k] = swap[k]
    BY <2>1, <2>3, Zenon DEF IInv, Typed, TypeOK
  <2>8. /\ spt' = spt /\ pte' = pte /\ frame_table' = frame_table /\ clock_hand' = clock_hand
        /\ free_frames' = free_frames /\ file' = file
        /\ ld' = ld /\ ev' = ev /\ touches' = touches /\ outcome' = outcome /\ Table' = Table
    BY <2>1, Zenon DEF frameVars, Table
  <2>9. \A q \in Proc : /\ pc'[q] \in Loading <=> pc[q] \in Loading
                        /\ pc'[q] \in Seeking <=> pc[q] \in Seeking
                        /\ pc'[q] \in {"fill", "install"} <=> pc[q] \in {"fill", "install"}
                        /\ pc'[q] \in Unmapping <=> pc[q] \in Unmapping
                        /\ pc'[q] \in InEvict <=> pc[q] \in InEvict
                        /\ pc[q] \in InEvict => pc'[q] = pc[q]
                        /\ Hand(q)' <=> Hand(q)
                        /\ Alive(q)' <=> Alive(q)
    BY <1>2, <2>5, <2>8, Zenon DEF InEvict, Loading, Seeking, Hand, Alive, Unmapping
  <2>10. \A q \in Proc : pc[q] \in InEvict => content'[ev[q].f] = content[ev[q].f]
    <3> SUFFICES ASSUME NEW q \in Proc, pc[q] \in InEvict
                 PROVE  content'[ev[q].f] = content[ev[q].f]
      BY Zenon
    <3>1. ev[q].f \in Frame
      BY Refers, Zenon
    <3>2. \A x \in Table : x.f # ev[q].f
      BY Zenon DEF IInv, Partition, Hand
    <3>3. ev[q].f # f
      BY <2>2, <3>2, Zenon DEF Own
    <3> QED BY <2>6, <3>1, <3>3, Zenon
  <2>11. Typed'
    BY <2>5, <2>6, <2>7, <2>8, <2>9, Zenon DEF IInv, Typed, TypeOK
  <2>12. Distinct' /\ Partition'
    BY <2>8, <2>9, Zenon DEF IInv, Distinct, Partition
  <2>13. TableOwned' /\ Present'
    <3>1. TableOwned'
      BY <2>8, <2>9, Refers, Zenon DEF IInv, TableOwned
    <3>2. \A q \in Proc : pc[q] = "unmap_clear" => pc'[q] = "unmap_clear"
      BY <1>2, <2>5, Zenon
    <3>3. Present'
      <4> SUFFICES ASSUME NEW q \in Proc, NEW h \in Page, pte'[q][h].f # None
                   PROVE  Own(q, h, pte[q][h].f)' \/ (pc'[q] = "unmap_clear" /\ ld'[q].g = h)
        BY Zenon DEF Present
      <4>1. Own(q, h, pte[q][h].f) \/ (pc[q] = "unmap_clear" /\ ld[q].g = h)
        BY <2>8, Zenon DEF IInv, Present
      <4>2. Own(q, h, pte[q][h].f)' <=> Own(q, h, pte[q][h].f)
        BY <2>8, Zenon DEF Own
      <4> QED BY <2>8, <3>2, <4>1, <4>2, Zenon
    <3> QED BY <3>1, <3>3, Zenon
  <2>14. Filling'
    <3>1. \A q \in Proc : /\ pc'[q] \in {"fill", "install", "record"}
                             => pc[q] \in {"fill", "install", "record"}
                          /\ pc'[q] \in Seeking \cup {"fill", "install", "unmap_remove"}
                             => pc[q] \in Seeking \cup {"fill", "install", "unmap_remove"}
                          /\ pc'[q] \in {"record", "unmap_clear"} => pc'[q] = pc[q]
      BY <1>2, <2>5, Zenon
    <3> SUFFICES ASSUME NEW q \in Proc
                 PROVE  (/\ pc[q] \in {"fill", "install", "record"} => Own(q, ld[q].g, ld[q].f)
                         /\ pc[q] \in Seeking \cup {"fill", "install", "unmap_remove"} =>
                              pte[q][ld[q].g].f = None
                         /\ pc[q] = "record" => pte[q][ld[q].g].f = ld[q].f
                         /\ pc[q] = "unmap_clear" => \A x \in Table : ~(x.p = q /\ x.g = ld[q].g))'
      BY Zenon DEF Filling
    <3>2. /\ pc[q] \in {"fill", "install", "record"} => Own(q, ld[q].g, ld[q].f)
          /\ pc[q] \in Seeking \cup {"fill", "install", "unmap_remove"} =>
               pte[q][ld[q].g].f = None
          /\ pc[q] = "record" => pte[q][ld[q].g].f = ld[q].f
          /\ pc[q] = "unmap_clear" => \A x \in Table : ~(x.p = q /\ x.g = ld[q].g)
      BY Zenon DEF IInv, Filling
    <3>3. Own(q, ld[q].g, ld[q].f)' <=> Own(q, ld[q].g, ld[q].f)
      BY <2>8, Zenon DEF Own
    <3> QED BY <2>8, <3>1, <3>2, <3>3, Zenon
  <2>15. HasEntry'
    <3> SUFFICES ASSUME NEW q \in Proc, NEW h \in Page PROVE EntryOf(q, h)'
      BY Zenon DEF HasEntry
    <3>1. EntryOf(q, h)
      BY Zenon DEF IInv, HasEntry
    <3>2. /\ pc[q] = "record" => pc'[q] = "record"
          /\ \A t \in Proc : pc[t] \in {"evict_find", "evict_mark"} => pc'[t] = pc[t]
      BY <1>2, <2>5, Zenon
    <3> QED BY <2>8, <2>9, <3>1, <3>2, Zenon DEF EntryOf
  <2>16. Ends'
    <3> SUFFICES ASSUME NEW q \in Proc PROVE EndOf(q)'
      BY Zenon DEF Ends
    <3>1. EndOf(q)
      BY Zenon DEF IInv, Ends
    <3>2. pc'[q] \in {"load", "dead", "destroy_free"} \cup Ending => pc'[q] = pc[q]
      BY <2>5, Zenon DEF Ending
    <3> QED BY <2>8, <2>9, <3>1, <3>2, Zenon DEF EndOf
  <2>17. Evicts'
    <3>1. OneEvictor'
      BY <2>8, <2>9, Zenon DEF IInv, Evicts, OneEvictor
    <3>2. ASSUME NEW q \in Proc, NEW o \in Proc, NEW h \in Page PROVE EvictOf(q, o, h)'
      <4>1. EvictOf(q, o, h)
        BY Zenon DEF IInv, Evicts
      <4>2. pc'[q] \in {"evict_find", "evict_mark"} <=> pc[q] \in {"evict_find", "evict_mark"}
        BY <1>2, <2>5, Zenon
      <4> QED BY <2>8, <2>9, <4>1, <4>2, Zenon DEF EvictOf
    <3> QED BY <3>1, <3>2, Zenon DEF Evicts
  <2>18. Kinds'
    <3>1. ASSUME NEW q \in Proc, NEW h \in Page PROVE KindOf(q, h)'
      BY <2>8, Zenon DEF IInv, Kinds, KindOf
    <3>2. ASSUME NEW q \in Proc PROVE EvictKind(q)'
      <4>1. pc'[q] \in {"evict_write", "swap_out", "evict_slot"} => pc'[q] = pc[q]
        BY <1>2, <2>5, Zenon
      <4>2. EvictKind(q)
        BY Zenon DEF IInv, Kinds
      <4> QED BY <2>8, <2>9, <4>1, <4>2, Zenon DEF EvictKind
    <3> QED BY <3>1, <3>2, Zenon DEF Kinds
  <2>19. FrameContents'
    <3> SUFFICES ASSUME NEW x \in Table PROVE FrameHolds(x)'
      BY <2>8, Zenon DEF FrameContents
    <3>1. x.p \in Proc /\ x.g \in Page /\ x.f \in Frame /\ FrameHolds(x)
      BY Refers, Zenon DEF IInv, FrameContents
    <3>2. CASE x.f = f
      <4>1. x.p = p /\ x.g = g
        BY <2>2, <3>2, Zenon
      <4>2. pte[x.p][x.g].f # x.f /\ pc'[x.p] = "install"
        BY <2>2, <2>5, <3>2, <4>1, Zenon
      <4> QED BY <1>1, <2>4, <2>6, <2>8, <3>2, <4>1, <4>2, Zenon DEF FrameHolds, Is
    <3>3. CASE x.f # f
      <4>1. content'[x.f] = content[x.f]
        BY <2>6, <3>1, <3>3, Zenon
      <4>2. pc'[x.p] = "install" /\ ld[x.p].f = x.f => pc[x.p] = "install"
        BY <1>1, <2>5, <3>1, <3>3, Zenon
      <4>3. pc'[x.p] = "unmap_free" => pc[x.p] = "unmap_free"
        BY <2>5, <3>1, Zenon
      <4> QED BY <2>8, <3>1, <4>1, <4>2, <4>3, Zenon DEF FrameHolds, Is
    <3> QED BY <3>2, <3>3, Zenon
  <2>20. EvictContents'
    <3> SUFFICES ASSUME NEW q \in Proc, pc'[q] \in InEvict PROVE EvictHolds(q)'
      BY Zenon DEF EvictContents, EvictHolds
    <3>1. pc[q] \in InEvict /\ EvictHolds(q) /\ content'[ev[q].f] = content[ev[q].f]
      BY <2>9, <2>10, Zenon DEF IInv, EvictContents
    <3> QED BY <2>8, <3>1, Zenon DEF EvictHolds, Is
  <2>21. \A q \in Proc, h \in Page : (q # p \/ h # g) => (Resting(q, h)' <=> Resting(q, h))
    <3> SUFFICES ASSUME NEW q \in Proc, NEW h \in Page, q # p \/ h # g
                 PROVE  Resting(q, h)' <=> Resting(q, h)
      BY Zenon
    <3>1. NoEvictor(q, h)' <=> NoEvictor(q, h)
      BY <2>8, <2>9, Zenon DEF NoEvictor
    <3>2. pc'[q] \in {"install", "record"} /\ ld[q].g = h
            <=> pc[q] \in {"install", "record"} /\ ld[q].g = h
      BY <1>1, <1>2, <2>5, Zenon
    <3> QED BY <2>8, <3>1, <3>2, Zenon DEF Resting
  <2>22. ~Resting(p, g)'
    BY <1>1, <2>5, <2>8, Zenon DEF Resting
  <2>23. Swapped'
    <3>1. ASSUME NEW q \in Proc, NEW h \in Page, Resting(q, h)', Alive(q)'
          PROVE  Is(q, h, swap[spt[q][h].slot])'
      <4>1. q # p \/ h # g
        BY <2>22, <3>1, Zenon
      <4>2. Resting(q, h) /\ Alive(q)
        BY <2>9, <2>21, <3>1, <4>1, Zenon
      <4>3. Is(q, h, swap[spt[q][h].slot])
        BY <4>2, Zenon DEF IInv, Swapped, SlotHolds
      <4>4. spt[q][h].slot \in Slot
        BY <4>2, Zenon DEF IInv, Kinds, KindOf, Resting
      <4>5. e.type = "SWAP" => spt[q][h].slot # s
        BY <2>3, <4>1, <4>3, Zenon DEF Is
      <4>6. swap'[spt[q][h].slot] = swap[spt[q][h].slot]
        BY <2>7, <4>4, <4>5, Zenon
      <4> QED BY <2>8, <4>3, <4>6, Zenon DEF Is
    <3>2. ASSUME NEW q \in Proc PROVE EvictSlots(q)'
      <4> SUFFICES ASSUME pc'[q] = "evict_slot"
                   PROVE  /\ ev[q].slot \in Slot
                          /\ Alive(ev[q].p)' => swap'[ev[q].slot] = content'[ev[q].f]
        BY <2>8, Zenon DEF EvictSlots
      <4>1. pc[q] = "evict_slot" /\ pc[q] \in InEvict
        BY <1>2, <2>5, Zenon DEF InEvict
      <4>2. ev[q].p \in Proc /\ ev[q].g \in Page
        BY <4>1, Refers, Zenon
      <4>3. ev[q].slot \in Slot /\ (Alive(ev[q].p) => swap[ev[q].slot] = content[ev[q].f])
        BY <4>1, Zenon DEF IInv, Swapped, EvictSlots
      <4>4. Is(ev[q].p, ev[q].g, content[ev[q].f])
        BY <4>1, Zenon DEF IInv, EvictContents, EvictHolds
      <4>5. ~(ev[q].p = p /\ ev[q].g = g)
        BY <2>2, <4>1, Zenon DEF NoEvictor
      <4>6. Alive(ev[q].p) /\ e.type = "SWAP" => ev[q].slot # s
        BY <2>3, <4>3, <4>4, <4>5, Zenon DEF Is
      <4>7. Alive(ev[q].p) => swap'[ev[q].slot] = swap[ev[q].slot]
        BY <2>7, <4>3, <4>6, Zenon
      <4>8. Alive(ev[q].p)' <=> Alive(ev[q].p)
        BY <1>2, <2>5, <2>8, <4>2, Zenon DEF Alive
      <4> QED BY <2>10, <4>1, <4>3, <4>7, <4>8, Zenon
    <3> QED BY <3>1, <3>2, Zenon DEF Swapped, SlotHolds
  <2>24. Claims'
    <3> SUFFICES ASSUME NEW t \in Slot \ {0}, NEW q \in Proc, NEW h \in Page, Is(q, h, swap[t])'
                 PROVE  ClaimOf(t, q, h)'
      BY SMTT(30) DEF Claims, ClaimOf
    <3>1. e.type # "SWAP" \/ t # s
      BY <2>7, Zenon DEF Is
    <3>2. Is(q, h, swap[t]) /\ ClaimOf(t, q, h)
      BY <2>7, <3>1, Zenon DEF IInv, Claims, Is
    <3>3. ASSUME Resting(q, h), spt[q][h].slot = t PROVE q # p \/ h # g
      BY <1>1, <3>1, <3>3, Zenon DEF Resting
    <3>4. \A r \in Proc : pc[r] = "evict_slot" => pc'[r] = "evict_slot"
      BY <1>2, <2>5, Zenon
    <3> QED BY <2>8, <2>21, <3>2, <3>3, <3>4, Zenon DEF ClaimOf
  <2>25. Pins'
    BY <1>2, <2>5, <2>8, Refers, ZenonT(30) DEF IInv, Pins
  <2> QED BY <2>11, <2>12, <2>13, <2>14, <2>15, <2>16, <2>17, <2>18, <2>19, <2>20, <2>23, <2>24,
             <2>25, Zenon DEF IInv
<1> QED BY <1>3, <1>4, Zenon

\* The frame f becomes the entry of the page that is loaded: from the pool, or
\* from evict_frame.
LEMMA RegisterStep ==
  ASSUME IInv, NEW p \in Proc, NEW f \in Frame, NEW g, g = ld[p].g,
         \/ /\ pc[p] = "alloc" /\ f \in free_frames /\ free_frames' = free_frames \ {f}
            /\ ev' = ev /\ content' = content
         \/ /\ pc[p] = "register" /\ f = ev[p].f /\ free_frames' = free_frames
            /\ ev' = [ev EXCEPT ![p] = None] /\ content' = [content EXCEPT ![f] = None],
         frame_table' = Append(frame_table, [f |-> f, p |-> p, g |-> g, pinned |-> FALSE]),
         ld' = [ld EXCEPT ![p].f = f], pc' = [pc EXCEPT ![p] = "fill"],
         UNCHANGED <<spt, pte, clock_hand, swap, file, touches, outcome>>
  PROVE  IInv'
<1>1. /\ pc[p] \in Seeking /\ pc[p] \in Loading /\ pc[p] \notin InEvict
      /\ pc[p] \in {"alloc", "register"}
      /\ Hand(p) <=> pc[p] = "register"
  BY Zenon DEF Seeking, Loading, InEvict, Hand
<1>2. /\ g \in Page /\ g \in Layout[p] /\ pte[p][g].f = None /\ ld[p] \in Locals /\ ld[p].then # "exit"
  BY <1>1, LocalTypes, Zenon DEF IInv, Typed, Filling
<1>3. PICK x0 \in FrameEntry : /\ x0 = [f |-> f, p |-> p, g |-> g, pinned |-> FALSE]
                               /\ x0.f = f /\ x0.p = p /\ x0.g = g /\ ~x0.pinned
  <2>1. [f |-> f, p |-> p, g |-> g, pinned |-> FALSE] \in FrameEntry
    BY <1>2, Zenon DEF FrameEntry
  <2> QED BY <2>1, Zenon
<1>4. \A y \in Table : y.f # f
  BY <1>1, SMTT(30) DEF IInv, Partition
<1>5. /\ frame_table' \in Seq(FrameEntry) /\ Distinct' /\ Table' = Table \cup {x0}
  <2>1. frame_table \in Seq(FrameEntry) /\ Distinct
    BY Types, Zenon DEF IInv
  <2>2. frame_table' = Append(frame_table, x0) /\ \A y \in Table : y.f # x0.f
    BY <1>3, <1>4, Zenon
  <2> QED BY <2>1, <2>2, Appended, Zenon
<1>6. /\ pc' \in [Proc -> PC] /\ pc'[p] = "fill" /\ ld' \in [Proc -> Locals]
      /\ ld'[p].f = f /\ ld'[p].g = g /\ ld'[p].then = ld[p].then
      /\ \A q \in Proc \ {p} : pc'[q] = pc[q] /\ ld'[q] = ld[q]
  <2>1. ld' = [ld EXCEPT ![p] = [ld[p] EXCEPT !.f = f]]
    BY LocalTypes, Zenon
  <2>2. [ld[p] EXCEPT !.f = f] \in Locals /\ [ld[p] EXCEPT !.f = f].f = f
        /\ [ld[p] EXCEPT !.f = f].g = ld[p].g /\ [ld[p] EXCEPT !.f = f].then = ld[p].then
    BY <1>2, Zenon DEF Locals
  <2> QED BY <2>1, <2>2, LocalTypes, Zenon DEF PC, Loading
<1>7. /\ ev' \in [Proc -> {None} \cup Victim] /\ ev'[p] = None
      /\ \A q \in Proc \ {p} : ev'[q] = ev[q]
  <2>1. ev \in [Proc -> {None} \cup Victim] /\ (Hand(p) <=> ev[p] # None)
    BY Zenon DEF IInv, Typed, TypeOK
  <2> QED BY <1>1, <2>1, Zenon
<1>8. /\ content' \in [Frame -> {None} \cup Contents]
      /\ \A k \in Frame \ {f} : content'[k] = content[k]
  BY Zenon DEF IInv, Typed, TypeOK
<1>9. /\ free_frames' \subseteq Frame /\ f \notin free_frames'
      /\ \A k \in Frame \ {f} : k \in free_frames' <=> k \in free_frames
  BY <1>1, SMTT(30) DEF IInv, Typed, TypeOK, Partition
<1>10. /\ spt' = spt /\ pte' = pte /\ clock_hand' = clock_hand /\ swap' = swap /\ file' = file
       /\ touches' = touches /\ outcome' = outcome
  BY Zenon
<1>11. \A q \in Proc : /\ pc'[q] \in Loading <=> pc[q] \in Loading
                       /\ pc'[q] \in Unmapping <=> pc[q] \in Unmapping
                       /\ pc'[q] \in InEvict <=> pc[q] \in InEvict
                       /\ pc[q] \in InEvict => pc'[q] = pc[q] /\ ev'[q] = ev[q] /\ q # p
                       /\ Hand(q)' <=> Hand(q) /\ q # p
                       /\ Hand(q) /\ q # p => ev'[q] = ev[q] /\ ev[q].f # f
                       /\ Alive(q)' <=> Alive(q)
  <2>1. \A q \in Proc : /\ pc'[q] \in Loading <=> pc[q] \in Loading
                        /\ pc'[q] \in Unmapping <=> pc[q] \in Unmapping
                        /\ pc'[q] \in InEvict <=> pc[q] \in InEvict
                        /\ pc[q] \in InEvict => pc'[q] = pc[q] /\ ev'[q] = ev[q] /\ q # p
                        /\ Alive(q)' <=> Alive(q)
    BY <1>1, <1>6, <1>7, <1>10, ZenonT(30) DEF InEvict, Loading, Seeking, Alive, Unmapping
  <2>2. \A q \in Proc : Hand(q)' <=> Hand(q) /\ q # p
    BY <1>6, Zenon DEF Hand, InEvict
  <2>3. \A q \in Proc : Hand(q) /\ q # p => ev'[q] = ev[q] /\ ev[q].f # f
    BY <1>1, <1>7, SMTT(30) DEF IInv, Partition
  <2> QED BY <2>1, <2>2, <2>3, Zenon
<1>12. \A q \in Proc : pc[q] \in InEvict => content'[ev[q].f] = content[ev[q].f]
  <2>1. \A q \in Proc : pc[q] \in InEvict => ev[q].f \in Frame /\ ev[q].f # f
    BY <1>11, Refers, Zenon DEF Hand
  <2> QED BY <1>8, <2>1, Zenon
<1>13. Typed'
  <2>1. TypeOK'
    BY <1>5, <1>6, <1>7, <1>8, <1>9, <1>10, SMTT(30) DEF IInv, Typed, TypeOK, FrameEntry, Locals
  <2>2. \A q \in Proc : (/\ ld[q].g \in Layout[q]
                         /\ pc[q] \in Loading => ld[q].then # "exit"
                         /\ pc[q] \in Unmapping => ld[q].then \in {"user", "exit"})'
    BY <1>2, <1>6, <1>11, SMTT(30) DEF IInv, Typed, Unmapping
  <2>3. \A q \in Proc : (Hand(q) <=> ev[q] # None)'
    BY <1>7, <1>11, SMTT(30) DEF IInv, Typed
  <2> QED BY <1>6, <2>1, <2>2, <2>3, Zenon DEF Typed
<1>14. Partition'
  <2>1. \A x \in Table : x.f \in Frame /\ x.f \notin free_frames
    BY Refers, Zenon DEF IInv, Partition
  <2>2. \A x \in Table' : x.f \notin free_frames'
    BY <1>3, <1>4, <1>5, <1>9, <2>1, Zenon
  <2>3. \A q \in Proc : Hand(q)' => ev'[q].f \notin free_frames' /\ \A x \in Table' : x.f # ev'[q].f
    <3> SUFFICES ASSUME NEW q \in Proc, Hand(q), q # p
                 PROVE  ev[q].f \notin free_frames' /\ \A x \in Table' : x.f # ev[q].f
      BY <1>11, SMTT(30)
    <3>1. /\ ev[q].f \in Frame /\ ev[q].f # f /\ ev[q].f \notin free_frames
          /\ \A x \in Table : x.f # ev[q].f
      BY <1>11, Types, Zenon DEF IInv, Partition
    <3> QED BY <1>3, <1>5, <1>9, <3>1, Zenon
  <2>4. \A q, r \in Proc : Hand(q)' /\ Hand(r)' /\ ev'[q].f = ev'[r].f => q = r
    BY <1>11, SMTT(30) DEF IInv, Partition
  <2>5. \A k \in Frame : \/ k \in free_frames'
                         \/ \E x \in Table' : x.f = k
                         \/ \E q \in Proc : Hand(q)' /\ ev'[q].f = k
    <3> SUFFICES ASSUME NEW k \in Frame, k # f
                 PROVE  \/ k \in free_frames'
                        \/ \E x \in Table' : x.f = k
                        \/ \E q \in Proc : Hand(q)' /\ ev'[q].f = k
      BY <1>3, <1>5, Zenon
    <3>1. \/ k \in free_frames
          \/ \E x \in Table : x.f = k
          \/ \E q \in Proc : Hand(q) /\ ev[q].f = k
      BY Zenon DEF IInv, Partition
    <3>2. Hand(p) => ev[p].f = f
      BY <1>1, Zenon
    <3> QED BY <1>5, <1>9, <1>11, <3>1, <3>2, Zenon
  <2>6. clock_hand' \in Frame => \E x \in Table' : x.f = clock_hand'
    BY <1>5, <1>10, Zenon DEF IInv, Partition
  <2> QED BY <2>2, <2>3, <2>4, <2>5, <2>6, Zenon DEF Partition
<1>15. TableOwned'
  <2> SUFFICES ASSUME NEW x \in Table'
               PROVE  \/ pte[x.p][x.g].f = x.f
                      \/ pc'[x.p] \in {"fill", "install"} /\ ld'[x.p].f = x.f /\ ld'[x.p].g = x.g
    BY <1>10, Zenon DEF TableOwned
  <2>1. CASE x = x0
    BY <1>3, <1>6, <2>1, Zenon
  <2>2. CASE x \in Table
    <3>1. x.p \in Proc
      BY <2>2, Refers, Zenon
    <3> QED BY <1>1, <1>6, <2>2, <3>1, Zenon DEF IInv, TableOwned
  <2> QED BY <1>5, <2>1, <2>2, Zenon
<1>16. \A q, h, k : Own(q, h, k) => Own(q, h, k)'
  BY <1>5, Zenon DEF Own
<1>17. Own(p, g, f)'
  BY <1>3, <1>5, Zenon DEF Own
<1>18. Present'
  <2> SUFFICES ASSUME NEW q \in Proc, NEW h \in Page, pte[q][h].f # None
               PROVE  Own(q, h, pte[q][h].f)' \/ (pc'[q] = "unmap_clear" /\ ld'[q].g = h)
    BY <1>10, SMTT(30) DEF Present
  <2>1. Own(q, h, pte[q][h].f) \/ (pc[q] = "unmap_clear" /\ ld[q].g = h)
    BY Zenon DEF IInv, Present
  <2>2. Own(q, h, pte[q][h].f) => Own(q, h, pte[q][h].f)'
    BY <1>5, <1>10, Zenon DEF Own
  <2> QED BY <1>1, <1>6, <2>1, <2>2, Zenon
<1>19. Filling'
  <2> SUFFICES ASSUME NEW q \in Proc
               PROVE  (/\ pc[q] \in {"fill", "install", "record"} => Own(q, ld[q].g, ld[q].f)
                       /\ pc[q] \in Seeking \cup {"fill", "install", "unmap_remove"} =>
                            pte[q][ld[q].g].f = None
                       /\ pc[q] = "record" => pte[q][ld[q].g].f = ld[q].f
                       /\ pc[q] = "unmap_clear" => \A x \in Table : ~(x.p = q /\ x.g = ld[q].g))'
    BY Zenon DEF Filling
  <2>1. CASE q = p
    BY <1>2, <1>6, <1>10, <1>17, <2>1, Zenon DEF Own
  <2>2. CASE q # p
    BY <1>3, <1>5, <1>6, <1>10, <2>2, SMTT(30) DEF IInv, Filling, Own
  <2> QED BY <2>1, <2>2, Zenon
<1>20. HasEntry'
  <2> SUFFICES ASSUME NEW q \in Proc, NEW h \in Page PROVE EntryOf(q, h)'
    BY Zenon DEF HasEntry
  <2>1. EntryOf(q, h)
    BY Zenon DEF IInv, HasEntry
  <2>2. ld'[q].g = ld[q].g /\ (pc'[q] = "record" <=> pc[q] = "record")
    BY <1>1, <1>6, Zenon
  <2>3. \A r \in Proc : pc[r] \in {"evict_find", "evict_mark"} => pc'[r] = pc[r] /\ ev'[r] = ev[r]
    BY <1>11, Zenon DEF InEvict
  <2> QED BY <1>10, <1>11, <2>1, <2>2, <2>3, SMTT(30) DEF EntryOf
<1>21. Ends'
  <2> SUFFICES ASSUME NEW q \in Proc PROVE EndOf(q)'
    BY Zenon DEF Ends
  <2>1. CASE q = p
    BY <1>6, <2>1, Zenon DEF EndOf, Ending, Unmapping
  <2>2. CASE q # p
    <3>1. EndOf(q) /\ pc'[q] = pc[q] /\ ld'[q] = ld[q]
      BY <1>6, <2>2, Zenon DEF IInv, Ends
    <3>2. \A o \in Proc : pc'[o] \in InEvict => pc[o] \in InEvict /\ ev'[o] = ev[o]
      BY <1>11, Zenon
    <3> QED BY <1>10, <3>1, <3>2, Zenon DEF EndOf
  <2> QED BY <2>1, <2>2, Zenon
<1>22. Evicts'
  <2>1. OneEvictor'
    BY <1>11, Zenon DEF IInv, Evicts, OneEvictor
  <2>2. \A q, o \in Proc, h \in Page : EvictOf(q, o, h)'
    <3>1. \A o \in Proc : ld'[o].g = ld[o].g
      BY <1>6, Zenon
    <3> QED BY <1>10, <1>11, <3>1, SMTT(30) DEF IInv, Evicts, EvictOf
  <2> QED BY <2>1, <2>2, Zenon DEF Evicts
<1>23. Kinds'
  <2>1. \A q \in Proc, h \in Page : KindOf(q, h)'
    BY <1>10, SMTT(30) DEF IInv, Kinds, KindOf
  <2>2. \A q \in Proc : EvictKind(q)'
    BY <1>6, <1>7, <1>11, SMTT(30) DEF IInv, Kinds, EvictKind
  <2> QED BY <2>1, <2>2, Zenon DEF Kinds
<1>24. FrameContents'
  <2> SUFFICES ASSUME NEW x \in Table' PROVE FrameHolds(x)'
    BY Zenon DEF FrameContents
  <2>1. CASE x = x0
    <3>1. f # None
      BY NoneIsNothing, Zenon
    <3> QED BY <1>2, <1>3, <1>6, <1>10, <2>1, <3>1, Zenon DEF FrameHolds
  <2>2. CASE x \in Table
    <3>1. x.p \in Proc /\ x.g \in Page /\ x.f \in Frame /\ FrameHolds(x) /\ x.f # f
      BY <1>4, <2>2, Refers, Zenon DEF IInv, FrameContents
    <3>2. content'[x.f] = content[x.f]
      BY <1>8, <3>1, Zenon
    <3>3. pc'[x.p] \in {"install", "unmap_free"} => pc[x.p] = pc'[x.p] /\ ld'[x.p] = ld[x.p]
      BY <1>6, <3>1, Zenon
    <3> QED BY <1>10, <3>1, <3>2, <3>3, Zenon DEF FrameHolds, Is
  <2> QED BY <1>5, <2>1, <2>2, Zenon
<1>25. EvictContents'
  BY <1>10, <1>11, <1>12, SMTT(30) DEF IInv, EvictContents, EvictHolds, Is
<1>26. \A q \in Proc, h \in Page : Resting(q, h)' <=> Resting(q, h)
  <2> SUFFICES ASSUME NEW q \in Proc, NEW h \in Page PROVE Resting(q, h)' <=> Resting(q, h)
    BY Zenon
  <2>1. NoEvictor(q, h)' <=> NoEvictor(q, h)
    BY <1>11, Zenon DEF NoEvictor
  <2>2. ld'[q].g = ld[q].g /\ (pc'[q] \in {"install", "record"} <=> pc[q] \in {"install", "record"})
    BY <1>1, <1>6, Zenon
  <2> QED BY <1>10, <2>1, <2>2, Zenon DEF Resting
<1>27. Swapped'
  <2>1. \A q \in Proc, h \in Page : SlotHolds(q, h)'
    BY <1>10, <1>11, <1>26, Zenon DEF IInv, Swapped, SlotHolds
  <2>2. ASSUME NEW q \in Proc, pc'[q] = "evict_slot"
        PROVE  (ev[q].slot \in Slot /\ (Alive(ev[q].p) => swap[ev[q].slot] = content[ev[q].f]))'
    <3>1. pc[q] = "evict_slot" /\ pc[q] \in InEvict /\ ev'[q] = ev[q]
      BY <1>6, <1>11, <2>2, Zenon DEF InEvict
    <3>2. ev[q].p \in Proc /\ EvictSlots(q)
      BY <3>1, Refers, Zenon DEF IInv, Swapped
    <3>3. Alive(ev[q].p)' <=> Alive(ev[q].p)
      BY <1>1, <1>6, <1>10, <3>1, <3>2, Zenon DEF Alive
    <3> QED BY <1>10, <1>12, <3>1, <3>2, <3>3, Zenon DEF EvictSlots
  <2> QED BY <2>1, <2>2, Zenon DEF Swapped, EvictSlots
<1>28. Claims'
  <2> SUFFICES ASSUME NEW s \in Slot \ {0}, NEW q \in Proc, NEW h \in Page PROVE ClaimOf(s, q, h)'
    BY Zenon DEF Claims
  <2>1. ClaimOf(s, q, h)
    BY Zenon DEF IInv, Claims
  <2>2. \A r \in Proc : pc[r] = "evict_slot" => pc'[r] = "evict_slot" /\ ev'[r] = ev[r]
    BY <1>11, Zenon DEF InEvict
  <2> QED BY <1>10, <1>26, <2>1, <2>2, Zenon DEF ClaimOf
<1>29. Pins'
  <2>1. \A x \in Table' : x.pinned => x \in Table
    BY <1>3, <1>5, Zenon
  <2>2. \A q \in Proc : pc[q] \in {"sys", "unpin", "unpin_walk"} =>
          pc'[q] = pc[q] /\ ld'[q] = ld[q]
    BY <1>1, <1>6, Zenon
  <2>3. \A q \in Proc : pc'[q] = "sys" => pc[q] = "sys" /\ ld'[q] = ld[q]
    BY <1>6, Zenon
  <2> QED BY <1>5, <2>1, <2>2, <2>3, Refers, SMTT(30) DEF IInv, Pins
<1> QED BY <1>5, <1>13, <1>14, <1>15, <1>18, <1>19, <1>20, <1>21, <1>22, <1>23, <1>24, <1>25,
           <1>27, <1>28, <1>29, Zenon DEF IInv

\* frame_alloc with a page in the pool.
LEMMA AllocStep ==
  ASSUME IInv, NEW p \in Proc, frame_alloc(p)
  PROVE  IInv'
<1>1. PICK f \in First(free_frames) :
        /\ free_frames' = free_frames \ {f}
        /\ frame_table' = Append(frame_table, [f |-> f, p |-> p, g |-> ld[p].g, pinned |-> FALSE])
        /\ ld' = [ld EXCEPT ![p].f = f]
  BY Zenon DEF frame_alloc
<1>2. /\ pc[p] = "alloc" /\ free_frames' = free_frames \ {f}
      /\ frame_table' = Append(frame_table, [f |-> f, p |-> p, g |-> ld[p].g, pinned |-> FALSE])
      /\ ld' = [ld EXCEPT ![p].f = f] /\ pc' = [pc EXCEPT ![p] = "fill"]
      /\ UNCHANGED <<spt, pte, clock_hand, content, swap, file, ev, touches, outcome>>
  BY <1>1, Zenon DEF frame_alloc, Running, Goto
<1>3. f \in free_frames /\ f \in Frame
  BY <1>1, Zenon DEF First, IInv, Typed, TypeOK
<1> QED BY <1>2, <1>3, RegisterStep, Zenon

\* frame_alloc registers the frame evict_frame has emptied.
LEMMA RegistersStep ==
  ASSUME IInv, NEW p \in Proc, FrameRegister(p)
  PROVE  IInv'
<1>1. PICK f : f = ev[p].f
  BY Zenon
<1>2. /\ pc[p] = "register"
      /\ frame_table' = Append(frame_table, [f |-> f, p |-> p, g |-> ld[p].g, pinned |-> FALSE])
      /\ ld' = [ld EXCEPT ![p].f = f] /\ ev' = [ev EXCEPT ![p] = None]
      /\ content' = [content EXCEPT ![f] = None] /\ pc' = [pc EXCEPT ![p] = "fill"]
      /\ UNCHANGED <<spt, pte, clock_hand, free_frames, swap, file, touches, outcome>>
  BY <1>1, Zenon DEF FrameRegister, Running, Goto
<1>3. f \in Frame
  BY <1>1, <1>2, Types, Zenon DEF IInv, Hand
<1> QED BY <1>1, <1>2, <1>3, RegisterStep, Zenon
==============================================================================
