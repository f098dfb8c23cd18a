---------------------------- MODULE MemoryValues -----------------------------
(***************************************************************************)
(* Where the contents of a page are in every state of the invariant, and   *)
(* why no step but a write of the program changes them: each step is a     *)
(* step of UserMemory or changes no page.                                  *)
(***************************************************************************)
EXTENDS MemoryLemmas

\* Where a page is: in its frame, taken from it by r, in the frame it has been
\* read into, or in none.
Framed(p, g) == pte[p][g].f # None /\ Own(p, g, pte[p][g].f)

\* Thread r is moving page g of p out of its frame.
Takes(r, p, g) == pc[r] \in InEvict /\ ev[r].p = p /\ ev[r].g = g

\* The frame of the page is filled and not yet present.
Installing(p, g) == pc[p] = "install" /\ ld[p].g = g

\* The page is nowhere in memory: it is in swap, in its file or still zeros.
Stored(p, g) == ~Framed(p, g) /\ NoEvictor(p, g) /\ ~Installing(p, g)

\* The entry says the page is in swap.
InSwap(p, g) == spt[p][g] # None /\ spt[p][g].type = "SWAP"

\* Value(p, g), by where page g of p is.
ValueOf(p, g) ==
  /\ ~Alive(p) /\ Kind[g] # "map" => Value(p, g) = 0
  /\ Alive(p) \/ Kind[g] = "map" =>
       /\ Framed(p, g) => Value(p, g) = content[pte[p][g].f][3]
       /\ \A r \in Proc : Takes(r, p, g) => Value(p, g) = content[ev[r].f][3]
       /\ Installing(p, g) => Value(p, g) = content[ld[p].f][3]
       /\ Stored(p, g) /\ Kind[g] = "map" => Value(p, g) = file[p][g]
       /\ Stored(p, g) /\ Kind[g] # "map" /\ InSwap(p, g) =>
            Resting(p, g) /\ Value(p, g) = swap[spt[p][g].slot][3]
       /\ Stored(p, g) /\ Kind[g] # "map" /\ ~InSwap(p, g) => Value(p, g) = 0

ValuesOf == \A p \in Proc, g \in Page : ValueOf(p, g)

\* The version of contents that are the page's own.
LEMMA Versions ==
  ASSUME NEW p, NEW g, NEW c, Is(p, g, c)
  PROVE  Version(p, g, c) = c[3]
BY Zenon DEF Version, Is

\* A page that is in swap and in no frame is where its entry says.
LEMMA StoredRests ==
  ASSUME IInv, NEW p \in Proc, NEW g \in Page, Kind[g] # "map", Stored(p, g)
  PROVE  /\ pte[p][g].f = None
         /\ InSwap(p, g) => Resting(p, g)
<1>1. pte[p][g].f = None
  BY SMTT(30) DEF Stored, Framed, IInv, Present, Ends, EndOf, Unmapping
<1>2. ~(pc[p] \in {"install", "record"} /\ ld[p].g = g)
  <2>1. CASE pc[p] = "record" /\ ld[p].g = g
    <3>1. Own(p, g, ld[p].f) /\ pte[p][g].f = ld[p].f
      BY <2>1, Zenon DEF IInv, Filling
    <3> QED BY <1>1, <3>1, Refers, Zenon DEF Own
  <2> QED BY <2>1, Zenon DEF Stored, Installing
<1>3. spt[p][g] # None => ~spt[p][g].loaded
  <2>1. \A q \in Proc : ~(pc[q] \in {"evict_find", "evict_mark"} /\ ev[q].p = p /\ ev[q].g = g)
    BY Zenon DEF Stored, NoEvictor, InEvict
  <2> QED BY <1>1, <2>1, SMTT(30) DEF IInv, HasEntry, EntryOf
<1> QED BY <1>1, <1>2, <1>3, Zenon DEF Stored, Resting, InSwap

\* The value of a page is where the invariant says its contents are.
LEMMA ValueLemma == IInv => ValuesOf
<1> SUFFICES ASSUME IInv, NEW p \in Proc, NEW g \in Page PROVE ValueOf(p, g)
  BY Zenon DEF ValuesOf
<1>1. PICK f : f = pte[p][g].f
  BY Zenon
<1>2. Mapped(p, g) /\ Holds(p, g, f) <=> Framed(p, g)
  BY <1>1, HoldsOwn, Types, Zenon DEF IInv, Framed, Mapped, pagedir_get_page
<1>3. Value(p, g) = IF ~Alive(p) /\ Kind[g] # "map" THEN 0
                    ELSE IF Framed(p, g) THEN Version(p, g, content[f])
                    ELSE IF Evicting(p, g) # {}
                      THEN Version(p, g, content[ev[CHOOSE q \in Evicting(p, g) : TRUE].f])
                    ELSE IF Installing(p, g) THEN Version(p, g, content[ld[p].f])
                    ELSE IF Kind[g] = "map" THEN file[p][g]
                    ELSE IF InSwap(p, g) THEN Version(p, g, swap[spt[p][g].slot])
                    ELSE 0
  BY <1>1, <1>2, SMTT(30) DEF Value, Installing, InSwap
<1>4. Evicting(p, g) = {q \in Proc : Takes(q, p, g)}
  BY Zenon DEF Evicting, Takes
<1>5. Framed(p, g) => Is(p, g, content[f])
  BY <1>1, Zenon DEF Framed, Own, IInv, FrameContents, FrameHolds
<1>6. ASSUME NEW r \in Proc, Takes(r, p, g)
      PROVE  /\ ~Framed(p, g) /\ Is(p, g, content[ev[r].f])
             /\ Evicting(p, g) = {r}
  <2>1. \A q \in Proc : Takes(q, p, g) => q = r
    BY <1>6, Zenon DEF Takes, IInv, Evicts, OneEvictor
  <2>2. ~Framed(p, g)
    BY <1>6, SMTT(30) DEF Takes, IInv, Evicts, EvictOf, Framed
  <2>3. Is(p, g, content[ev[r].f])
    BY <1>6, Zenon DEF Takes, IInv, EvictContents, EvictHolds
  <2> QED BY <1>4, <1>6, <2>1, <2>2, <2>3, Zenon
<1>7. ASSUME Installing(p, g)
      PROVE  /\ ~Framed(p, g) /\ Evicting(p, g) = {} /\ Is(p, g, content[ld[p].f])
  <2>1. ~Framed(p, g)
    BY <1>7, Zenon DEF Installing, IInv, Filling, Framed
  <2>2. Evicting(p, g) = {}
    BY <1>4, <1>7, SMTT(30) DEF Takes, Installing, IInv, Evicts, EvictOf, Loading
  <2>3. PICK x \in Table : x.p = p /\ x.g = g /\ x.f = ld[p].f
    BY <1>7, Zenon DEF Installing, IInv, Filling, Own
  <2>4. Is(x.p, x.g, content[x.f])
    BY <1>7, <2>3, Zenon DEF Installing, IInv, FrameContents, FrameHolds
  <2> QED BY <2>1, <2>2, <2>3, <2>4, Zenon
<1>8. Stored(p, g) => ~Framed(p, g) /\ Evicting(p, g) = {} /\ ~Installing(p, g)
  BY <1>4, Zenon DEF Stored, NoEvictor, Takes
<1>9. Stored(p, g) /\ Kind[g] # "map" /\ InSwap(p, g) /\ Alive(p) =>
        Resting(p, g) /\ Is(p, g, swap[spt[p][g].slot])
  BY StoredRests, Zenon DEF IInv, Swapped, SlotHolds
<1>10. ~Alive(p) /\ Kind[g] # "map" => Value(p, g) = 0
  BY <1>3, Zenon
<1>11. ASSUME Alive(p) \/ Kind[g] = "map", Framed(p, g)
       PROVE  Value(p, g) = content[pte[p][g].f][3]
  BY <1>1, <1>3, <1>5, <1>11, Versions, Zenon
<1>12. ASSUME Alive(p) \/ Kind[g] = "map", NEW r \in Proc, Takes(r, p, g)
       PROVE  Value(p, g) = content[ev[r].f][3]
  <2>1. (CHOOSE q \in Evicting(p, g) : TRUE) = r
    BY <1>6, <1>12, Zenon
  <2>2. Value(p, g) = Version(p, g, content[ev[CHOOSE q \in Evicting(p, g) : TRUE].f])
    BY <1>3, <1>6, <1>12, Zenon
  <2>3. Value(p, g) = Version(p, g, content[ev[r].f])
    BY <2>1, <2>2, Zenon
  <2> QED BY <1>6, <1>12, <2>3, Versions, SMTT(30)
<1>13. ASSUME Alive(p) \/ Kind[g] = "map", Installing(p, g)
       PROVE  Value(p, g) = content[ld[p].f][3]
  BY <1>3, <1>7, <1>13, Versions, Zenon
<1>14. ASSUME Alive(p) \/ Kind[g] = "map", Stored(p, g)
       PROVE  /\ Kind[g] = "map" => Value(p, g) = file[p][g]
              /\ Kind[g] # "map" /\ InSwap(p, g) =>
                   Resting(p, g) /\ Value(p, g) = swap[spt[p][g].slot][3]
              /\ Kind[g] # "map" /\ ~InSwap(p, g) => Value(p, g) = 0
  <2>1. Kind[g] = "map" => Value(p, g) = file[p][g]
    BY <1>3, <1>8, <1>14, Zenon
  <2>2. Kind[g] # "map" /\ ~InSwap(p, g) => Value(p, g) = 0
    BY <1>3, <1>8, <1>14, Zenon
  <2>3. Kind[g] # "map" /\ InSwap(p, g) => Value(p, g) = Version(p, g, swap[spt[p][g].slot])
    BY <1>3, <1>8, <1>14, Zenon
  <2> QED BY <1>9, <1>14, <2>1, <2>2, <2>3, Versions, Zenon
<1> QED BY <1>10, <1>11, <1>12, <1>13, <1>14, Zenon DEF ValueOf

\* The same after a step.
LEMMA ValueNext == IInv' => ValuesOf'
BY ValueLemma, PTL

\* Nothing that page h of q is read from has changed.
Untouched(q, h) ==
  /\ pte'[q][h].f = pte[q][h].f
  /\ \A x \in Table : x.p = q /\ x.g = h => Own(q, h, x.f)' /\ content'[x.f] = content[x.f]
  /\ \A x \in Table' : x.p = q /\ x.g = h /\ x.f = pte[q][h].f => Own(q, h, x.f)
  /\ \A r \in Proc : /\ Takes(r, q, h)' <=> Takes(r, q, h)
                     /\ Takes(r, q, h) => content'[ev'[r].f] = content[ev[r].f]
  /\ Installing(q, h)' <=> Installing(q, h)
  /\ Installing(q, h) => ld'[q].f = ld[q].f
  /\ file'[q][h] = file[q][h]
  /\ InSwap(q, h)' <=> InSwap(q, h)
  /\ Resting(q, h) /\ Alive(q) /\ Kind[h] # "map" =>
       swap'[spt'[q][h].slot] = swap[spt[q][h].slot]

\* Page h of q reads as before, unless q has ended and the page with it.
Kept(q, h) == (Kind[h] = "map" \/ (Alive(q)' <=> Alive(q))) => Value(q, h)' = Value(q, h)

\* A page whose places a step does not touch keeps its value.
LEMMA UntouchedKept ==
  ASSUME IInv, NEW q \in Proc, NEW h \in Page, ValueOf(q, h), ValueOf(q, h)', Untouched(q, h)
  PROVE  Kept(q, h)
<1> SUFFICES ASSUME Kind[h] = "map" \/ (Alive(q)' <=> Alive(q)) PROVE Value(q, h)' = Value(q, h)
  BY Zenon DEF Kept
<1>1. PICK f : f = pte[q][h].f /\ f = pte'[q][h].f
  BY Zenon DEF Untouched
<1>2. /\ Framed(q, h)' <=> Framed(q, h)
      /\ Framed(q, h) => content'[f] = content[f]
  <2>1. Own(q, h, f)' <=> Own(q, h, f)
    BY <1>1, SMTT(30) DEF Untouched, Own
  <2>2. Own(q, h, f) => content'[f] = content[f]
    BY <1>1, Zenon DEF Untouched, Own
  <2>3. (Framed(q, h) <=> f # None /\ Own(q, h, f)) /\ (Framed(q, h)' <=> f # None /\ Own(q, h, f)')
    BY <1>1, Zenon DEF Framed, Own
  <2> QED BY <2>1, <2>2, <2>3, Zenon
<1>3. Installing(q, h) => content'[ld'[q].f] = content[ld[q].f]
  BY SMTT(30) DEF Untouched, IInv, Filling, Installing, Own
<1>4. Stored(q, h)' <=> Stored(q, h)
  BY <1>2, Zenon DEF Untouched, Stored, NoEvictor, Takes
<1>5. CASE ~Alive(q) /\ Kind[h] # "map"
  BY <1>5, Zenon DEF ValueOf
<1>6. CASE Alive(q) \/ Kind[h] = "map"
  <2>1. CASE Framed(q, h)
    BY <1>6, <1>1, <1>2, <2>1, Zenon DEF ValueOf
  <2>2. ASSUME NEW r \in Proc, Takes(r, q, h) PROVE Value(q, h)' = Value(q, h)
    <3>1. Takes(r, q, h)' /\ content'[ev'[r].f] = content[ev[r].f]
      BY <2>2, Zenon DEF Untouched
    <3>2. Value(q, h) = content[ev[r].f][3]
      BY <1>6, <2>2, Zenon DEF ValueOf
    <3>3. Value(q, h)' = content'[ev'[r].f][3]
      BY <1>6, <3>1, Zenon DEF ValueOf
    <3> QED BY <3>1, <3>2, <3>3, Zenon
  <2>3. CASE Installing(q, h)
    <3>1. Installing(q, h)' /\ content'[ld'[q].f] = content[ld[q].f]
      BY <1>3, <2>3, Zenon DEF Untouched
    <3>2. Value(q, h) = content[ld[q].f][3]
      BY <1>6, <2>3, Zenon DEF ValueOf
    <3>3. Value(q, h)' = content'[ld'[q].f][3]
      BY <1>6, <3>1, Zenon DEF ValueOf
    <3> QED BY <3>1, <3>2, <3>3, Zenon
  <2>4. CASE Stored(q, h)
    <3>1. CASE Kind[h] = "map"
      BY <1>4, <2>4, <3>1, Zenon DEF ValueOf, Untouched
    <3>2. CASE Kind[h] # "map" /\ ~InSwap(q, h)
      BY <1>4, <1>6, <2>4, <3>2, Zenon DEF ValueOf, Untouched
    <3>3. CASE Kind[h] # "map" /\ InSwap(q, h)
      <4>1. Resting(q, h) /\ Value(q, h) = swap[spt[q][h].slot][3]
        BY <1>6, <2>4, <3>3, Zenon DEF ValueOf
      <4>2. InSwap(q, h)' /\ swap'[spt'[q][h].slot] = swap[spt[q][h].slot]
        BY <1>6, <3>3, <4>1, Zenon DEF Untouched
      <4>3. Value(q, h)' = swap'[spt'[q][h].slot][3]
        BY <1>4, <1>6, <2>4, <3>3, <4>2, Zenon DEF ValueOf
      <4> QED BY <4>1, <4>2, <4>3, Zenon
    <3> QED BY <3>1, <3>2, <3>3, Zenon
  <2> QED BY <2>1, <2>2, <2>3, <2>4, Zenon DEF Stored, NoEvictor, Takes
<1> QED BY <1>5, <1>6, Zenon

\* A step of the user's memory, or none.
UserMemoryStep ==
  [UM!Next]_<<[p \in Proc |-> [g \in Page |-> Value(p, g)]], [p \in Proc |-> Alive(p)]>>

\* Every page reads as before, or its process ends with this step.
LEMMA KeptRefines ==
  ASSUME ValuesOf, ValuesOf', NEW p \in Proc, Alive(p)' => Alive(p),
         \A q \in Proc \ {p} : Alive(q)' <=> Alive(q),
         \A q \in Proc, h \in Page : Kept(q, h)
  PROVE  UserMemoryStep
<1> DEFINE mem == [q \in Proc |-> [h \in Page |-> Value(q, h)]]
           alive == [q \in Proc |-> Alive(q)]
<1>1. \A q \in Proc : Alive(q) \in BOOLEAN /\ Alive(q)' \in BOOLEAN
  BY Zenon DEF Alive
<1>2. CASE Alive(p)' <=> Alive(p)
  <2>1. \A q \in Proc : Alive(q)' = Alive(q)
    BY <1>1, <1>2, Zenon
  <2>2. \A q \in Proc, h \in Page : Value(q, h)' = Value(q, h)
    BY <1>2, Zenon DEF Kept
  <2>3. mem' = mem /\ alive' = alive
    BY <2>1, <2>2, Zenon
  <2> QED BY <2>3, Zenon DEF UserMemoryStep
<1>3. CASE Alive(p) /\ ~Alive(p)'
  <2>1. alive' = [alive EXCEPT ![p] = FALSE] /\ alive[p] = TRUE
    BY <1>1, <1>3, Zenon
  <2>2. \A q \in Proc, h \in Page : q # p \/ Kind[h] = "map" => Value(q, h)' = Value(q, h)
    BY Zenon DEF Kept
  <2>3. \A h \in Page : Kind[h] # "map" => Value(p, h)' = 0
    BY <1>3, SMTT(30) DEF ValuesOf, ValueOf
  <2>4. mem' = [mem EXCEPT ![p] = [h \in Page |->
                  IF h \in {g \in Page : Kind[g] = "map"} THEN @[h] ELSE 0]]
    BY <2>2, <2>3, ZenonT(30)
  <2> QED BY <2>1, <2>4, Zenon DEF UserMemoryStep, UM!Next, UM!Exit
<1> QED BY <1>2, <1>3, Zenon

\* A page is written, the others read as before.
LEMMA WrittenRefines ==
  ASSUME NEW p \in Proc, NEW g \in Page, Alive(p), Value(p, g)' = 1,
         \A q \in Proc : Alive(q)' <=> Alive(q),
         \A q \in Proc, h \in Page : (q # p \/ h # g) => Kept(q, h)
  PROVE  UserMemoryStep
<1> DEFINE mem == [q \in Proc |-> [h \in Page |-> Value(q, h)]]
           alive == [q \in Proc |-> Alive(q)]
<1>1. \A q \in Proc : Alive(q) \in BOOLEAN /\ Alive(q)' \in BOOLEAN
  BY Zenon DEF Alive
<1>2. alive' = alive /\ alive[p] = TRUE
  BY <1>1, Zenon
<1>3. \A q \in Proc, h \in Page : (q # p \/ h # g) => Value(q, h)' = Value(q, h)
  BY Zenon DEF Kept
<1>4. mem' = [mem EXCEPT ![p][g] = 1]
  BY <1>3, ZenonT(30)
<1> QED BY <1>2, <1>4, Zenon DEF UserMemoryStep, UM!Next, UM!Write

\* Every page keeps its value.
AllKept == \A q \in Proc, h \in Page : Kept(q, h)

\* A step of p that moves no page: it may change the entries of the supplemental
\* page table, but not which slots they name.
Quiet(p) ==
  /\ UNCHANGED <<pte, frameVars, content, swap, file, ev>>
  /\ \A q \in Proc \ {p} : pc'[q] = pc[q] /\ ld'[q] = ld[q]
  /\ pc'[p] \in InEvict <=> pc[p] \in InEvict
  /\ pc[p] # "install" /\ pc'[p] # "install"
  /\ \A q \in Proc, h \in Page : /\ InSwap(q, h)' <=> InSwap(q, h)
                                 /\ InSwap(q, h) => spt'[q][h].slot = spt[q][h].slot

\* A step that moves no contents changes no page.
LEMMA QuietKept ==
  ASSUME IInv, ValuesOf, ValuesOf', NEW p \in Proc, Quiet(p)
  PROVE  AllKept
<1> SUFFICES ASSUME NEW q \in Proc, NEW h \in Page PROVE Untouched(q, h)
  BY UntouchedKept, Zenon DEF AllKept, ValuesOf
<1>1. /\ pte' = pte /\ content' = content /\ swap' = swap /\ file' = file /\ ev' = ev
      /\ Table' = Table
  BY Zenon DEF Quiet, frameVars, Table
<1>2. \A x : Own(q, h, x)' <=> Own(q, h, x)
  BY <1>1, Zenon DEF Own
<1>3. \A x \in Table : x.p = q /\ x.g = h => Own(q, h, x.f)
  BY Zenon DEF Own
<1>4. \A r \in Proc : Takes(r, q, h)' <=> Takes(r, q, h)
  BY <1>1, Zenon DEF Quiet, Takes
<1>5. (Installing(q, h)' <=> Installing(q, h)) /\ (Installing(q, h) => ld'[q].f = ld[q].f)
  BY Zenon DEF Quiet, Installing
<1>6. Resting(q, h) => InSwap(q, h)
  BY Zenon DEF Resting, InSwap
<1>7. /\ InSwap(q, h)' <=> InSwap(q, h)
      /\ InSwap(q, h) => spt'[q][h].slot = spt[q][h].slot
  BY Zenon DEF Quiet
<1> QED BY <1>1, <1>2, <1>3, <1>4, <1>5, <1>6, <1>7, Zenon DEF Untouched

\* The step ends in a window or a panic.
LEMMA StopKept ==
  ASSUME IInv, ValuesOf, ValuesOf',
         UNCHANGED <<pc, spt, pte, frameVars, content, swap, file, ld, ev>>
  PROVE  AllKept
<1> SUFFICES ASSUME NEW q \in Proc, NEW h \in Page PROVE Untouched(q, h)
  BY UntouchedKept, Zenon DEF AllKept, ValuesOf
<1>1. /\ pc' = pc /\ spt' = spt /\ pte' = pte /\ content' = content /\ swap' = swap
      /\ file' = file /\ ld' = ld /\ ev' = ev /\ Table' = Table
  BY Zenon DEF frameVars, Table
<1>2. \A x : Own(q, h, x)' <=> Own(q, h, x)
  BY <1>1, Zenon DEF Own
<1>3. \A x \in Table : x.p = q /\ x.g = h => Own(q, h, x.f)
  BY Zenon DEF Own
<1> QED BY <1>1, <1>2, <1>3, Zenon DEF Untouched, Takes, Installing, InSwap

\* spt_load_page before it has a frame.
LEMMA LoadKept ==
  ASSUME IInv, ValuesOf, ValuesOf', NEW p \in Proc, NEW g \in Page, NEW e, NEW again, NEW l,
         pc[p] \notin InEvict \cup {"install"},
         e = spt[p][g] \/ (spt[p][g] = None /\ e = spt_set_zero),
         spt_load_page(p, g, e, again, l)
  PROVE  AllKept
<1>1. CASE StopIn("reload")
  BY <1>1, StopKept, Zenon DEF StopIn
<1>2. CASE /\ spt' = [spt EXCEPT ![p][g] = e]
           /\ ld' = [ld EXCEPT ![p] = [g |-> g, f |-> None, again |-> again, then |-> l]]
           /\ pc' = [pc EXCEPT ![p] = "alloc"]
           /\ UNCHANGED <<pte, frameVars, content, swap, file, ev, outcome>>
  <2>1. \A q \in Proc \ {p} : pc'[q] = pc[q] /\ ld'[q] = ld[q]
    BY <1>2, Zenon DEF IInv, Typed, TypeOK
  <2>2. pc'[p] = "alloc"
    BY <1>2, Zenon DEF IInv, Typed
  <2>3. spt'[p][g] = e /\ \A q \in Proc, h \in Page : (q # p \/ h # g) => spt'[q][h] = spt[q][h]
    BY <1>2, Zenon DEF IInv, Typed, TypeOK
  <2>4. e = spt_set_zero => e.type = "ZERO"
    BY SMTT(30) DEF spt_set_zero, NewEntry
  <2>5. ASSUME NEW q \in Proc, NEW h \in Page
        PROVE  /\ InSwap(q, h)' <=> InSwap(q, h)
               /\ InSwap(q, h) => spt'[q][h].slot = spt[q][h].slot
    BY <2>3, <2>4, Zenon DEF InSwap
  <2> QED BY <1>2, <2>1, <2>2, <2>5, QuietKept, Zenon DEF Quiet, InEvict
<1> QED BY <1>1, <1>2, Zenon DEF spt_load_page, Goto

\* page_fault.
LEMMA FaultKept ==
  ASSUME IInv, ValuesOf, ValuesOf', NEW p \in Proc, NEW g \in Page, NEW l,
         pc[p] \notin InEvict \cup {"install"}, page_fault(p, g, l)
  PROVE  AllKept
<1>1. CASE /\ pc' = [pc EXCEPT ![p] = "exit"]
           /\ UNCHANGED <<spt, pte, frameVars, content, swap, file, ld, ev, outcome>>
  <2>1. pc'[p] = "exit" /\ \A q \in Proc \ {p} : pc'[q] = pc[q]
    BY <1>1, Zenon DEF IInv, Typed
  <2> QED BY <1>1, <2>1, QuietKept, Zenon DEF Quiet, InEvict, InSwap
<1> QED BY <1>1, LoadKept, Zenon DEF page_fault, Goto, spt_get_entry

\* The steps that move no page.
LEMMA QuietSteps ==
  ASSUME IInv, ValuesOf, ValuesOf', NEW p \in Proc,
         \/ sys_exit(p) \/ setup_stack(p) \/ frame_alloc_fails(p) \/ EvictFind(p)
         \/ spt_set_loaded(p) \/ PinLook(p) \/ PinWalk(p) \/ spt_remove_entry(p) \/ spt_destroy(p)
         \/ DestroyLook(p) \/ \E g \in Page : SysBuffer(p, g) \/ mmap_map(p, g) \/ mmap_unmap(p, g)
  PROVE  AllKept
<1>1. /\ pc \in [Proc -> PC] /\ ld \in [Proc -> Locals]
      /\ spt \in [Proc -> [Page -> {None} \cup Entry]]
  BY Zenon DEF IInv, Typed, TypeOK, Locals
<1>2. ld[p].g \in Page /\ ld[p].then \in {"user", "pin_look", "sys", "exit"}
  BY <1>1, Zenon DEF Locals
<1>3. ASSUME NEW l, pc' = [pc EXCEPT ![p] = l], l \notin InEvict \cup {"install"},
             pc[p] \notin InEvict \cup {"install"},
             \A q \in Proc \ {p} : ld'[q] = ld[q],
             spt' = spt, UNCHANGED <<pte, frameVars, content, swap, file, ev>>
      PROVE  AllKept
  <2>1. pc'[p] = l /\ \A q \in Proc \ {p} : pc'[q] = pc[q]
    BY <1>1, <1>3, Zenon
  <2> QED BY <1>3, <2>1, QuietKept, Zenon DEF Quiet, InSwap
<1>4. CASE sys_exit(p)
  BY <1>3, <1>4, Zenon DEF sys_exit, Running, Goto, InEvict
<1>5. CASE setup_stack(p)
  <2>1. pc'[p] = "alloc" /\ pc[p] = "load" /\ \A q \in Proc \ {p} : pc'[q] = pc[q] /\ ld'[q] = ld[q]
    BY <1>1, <1>5, Zenon DEF setup_stack, Running, Goto
  <2>2. \A h \in Page : spt[p][h] = None
    BY <2>1, Zenon DEF IInv, Ends, EndOf
  <2>3. \A h \in Page : spt'[p][h] # None => spt'[p][h].type # "SWAP"
    BY <1>1, <1>5, Zenon DEF setup_stack, load_segment, spt_set_zero, spt_set_file, NewEntry
  <2>4. \A q \in Proc \ {p} : spt'[q] = spt[q]
    BY <1>1, <1>5, Zenon DEF setup_stack
  <2>5. ASSUME NEW q \in Proc, NEW h \in Page
        PROVE  /\ InSwap(q, h)' <=> InSwap(q, h)
               /\ InSwap(q, h) => spt'[q][h].slot = spt[q][h].slot
    BY <2>2, <2>3, <2>4, Zenon DEF InSwap
  <2> QED BY <1>5, <2>1, <2>5, QuietKept, Zenon DEF setup_stack, Quiet, InEvict
<1>6. CASE frame_alloc_fails(p)
  BY <1>1, <1>3, <1>6, Zenon DEF frame_alloc_fails, LoadFails, Running, Goto, InEvict
<1>7. CASE EvictFind(p)
  <2>1. spt[ev[p].p][ev[p].g] # None
    <3>1. pc[p] \in InEvict
      BY <1>7, Zenon DEF EvictFind, Running, InEvict
    <3>2. PICK o \in Proc, g \in Page : o = ev[p].p /\ g = ev[p].g
      BY <3>1, Refers, Zenon
    <3> QED BY <3>1, <3>2, SMTT(30) DEF IInv, Evicts, EvictOf
  <2>2. /\ pc'[p] = "evict_mark" /\ pc[p] = "evict_find" /\ \A q \in Proc \ {p} : pc'[q] = pc[q]
        /\ UNCHANGED <<spt, pte, frameVars, content, swap, file, ld, ev>>
    BY <1>1, <1>7, <2>1, Zenon DEF EvictFind, Running, Goto, spt_get_entry
  <2> QED BY <2>2, QuietKept, Zenon DEF Quiet, InSwap, InEvict
<1>8. CASE spt_set_loaded(p)
  <2>1. PICK g \in Page : g = ld[p].g
    BY <1>2, Zenon
  <2>2. /\ pc[p] = "record" /\ pc'[p] \in {"user", "pin_look", "sys", "exit"}
        /\ \A q \in Proc \ {p} : pc'[q] = pc[q] /\ ld'[q] = ld[q]
    BY <1>1, <1>2, <1>8, Zenon DEF spt_set_loaded, Running, Goto
  <2>3. spt[p][g] # None /\ spt[p][g] \in Entry
    BY <1>1, <2>1, <2>2, SMTT(30) DEF IInv, HasEntry, EntryOf, Loading
  <2>4. spt' = [spt EXCEPT ![p] = [spt[p] EXCEPT ![g] = [spt[p][g] EXCEPT !.loaded = TRUE]]]
    BY <1>8, <2>1, Zenon DEF spt_set_loaded
  <2>5. PICK e : e = [spt[p][g] EXCEPT !.loaded = TRUE]
    BY Zenon
  <2>6. e \in Entry /\ e.type = spt[p][g].type /\ e.slot = spt[p][g].slot /\ e # None
    BY <2>3, <2>5, NoneIsNothing, Zenon DEF Entry
  <2>7. spt'[p][g] = e /\ \A q \in Proc, h \in Page : (q # p \/ h # g) => spt'[q][h] = spt[q][h]
    BY <1>1, <2>4, <2>5, Zenon
  <2>8. ASSUME NEW q \in Proc, NEW h \in Page
        PROVE  /\ InSwap(q, h)' <=> InSwap(q, h)
               /\ InSwap(q, h) => spt'[q][h].slot = spt[q][h].slot
    BY <2>3, <2>6, <2>7, Zenon DEF InSwap
  <2> QED BY <1>8, <2>2, <2>8, QuietKept, Zenon DEF spt_set_loaded, Quiet, InEvict
<1>9. CASE PinLook(p)
  BY <1>1, <1>3, <1>9, Zenon DEF PinLook, Running, Goto, InEvict
<1>10. CASE PinWalk(p)
  BY <1>3, <1>10, Zenon DEF PinWalk, Goto, InEvict
<1>11. CASE spt_remove_entry(p)
  <2>1. CASE Stop("freed_entry")
    BY <2>1, StopKept, Zenon DEF Stop, StopIn
  <2>2. CASE ~Stop("freed_entry")
    <3>1. PICK g \in Page : g = ld[p].g
      BY <1>2, Zenon
    <3>2. /\ pc[p] = "unmap_remove" /\ spt' = [spt EXCEPT ![p][g] = None]
          /\ pc' = [pc EXCEPT ![p] = ld[p].then] /\ ld' = [ld EXCEPT ![p] = Idle(p)]
          /\ UNCHANGED <<pte, frameVars, content, swap, file, ev>>
      BY <1>11, <2>2, <3>1, Zenon DEF spt_remove_entry, Running, Goto
    <3>3. spt[p][g] # None => spt[p][g].type = "MMAP"
      BY <3>1, <3>2, SMTT(30) DEF IInv, Ends, EndOf, Unmapping, Kinds, KindOf
    <3>4. /\ pc'[p] \in {"user", "pin_look", "sys", "exit"}
          /\ \A q \in Proc \ {p} : pc'[q] = pc[q] /\ ld'[q] = ld[q]
      BY <1>1, <1>2, <3>2, Zenon
    <3>5. spt'[p][g] = None /\ \A q \in Proc, h \in Page : (q # p \/ h # g) => spt'[q][h] = spt[q][h]
      BY <1>1, <3>2, Zenon
    <3>6. ASSUME NEW q \in Proc, NEW h \in Page
          PROVE  /\ InSwap(q, h)' <=> InSwap(q, h)
                 /\ InSwap(q, h) => spt'[q][h].slot = spt[q][h].slot
      BY <3>3, <3>5, Zenon DEF InSwap
    <3> QED BY <3>2, <3>4, <3>6, QuietKept, Zenon DEF Quiet, InEvict
  <2> QED BY <2>1, <2>2, Zenon
<1>12. CASE spt_destroy(p)
  BY <1>1, <1>3, <1>12, Zenon DEF spt_destroy, Running, Goto, InEvict
<1>13. CASE DestroyLook(p)
  BY <1>1, <1>3, <1>13, Zenon DEF DestroyLook, Running, Goto, InEvict
<1>14. ASSUME NEW g \in Page, SysBuffer(p, g) PROVE AllKept
  <2>1. CASE spt_load_page(p, g, spt[p][g], FALSE, "pin_look")
    BY <1>14, <2>1, LoadKept, Zenon DEF SysBuffer, Running, InEvict
  <2> QED BY <1>1, <1>3, <1>14, <2>1, Zenon DEF SysBuffer, Running, Goto, InEvict
<1>15. ASSUME NEW g \in Page, mmap_map(p, g) PROVE AllKept
  <2>1. /\ pc[p] = "user" /\ spt[p][g] = None /\ pc' = pc /\ ld' = ld
        /\ UNCHANGED <<pte, frameVars, content, swap, file, ev>>
    BY <1>15, Zenon DEF mmap_map, Running
  <2>2. /\ spt'[p][g].type = "MMAP"
        /\ \A q \in Proc, h \in Page : (q # p \/ h # g) => spt'[q][h] = spt[q][h]
    BY <1>1, <1>15, Zenon DEF mmap_map, spt_set_mmap, NewEntry
  <2>3. ASSUME NEW q \in Proc, NEW h \in Page
        PROVE  /\ InSwap(q, h)' <=> InSwap(q, h)
               /\ InSwap(q, h) => spt'[q][h].slot = spt[q][h].slot
    BY <2>1, <2>2, Zenon DEF InSwap
  <2> QED BY <2>1, <2>3, QuietKept, Zenon DEF Quiet, InEvict
<1>16. ASSUME NEW g \in Page, mmap_unmap(p, g) PROVE AllKept
  BY <1>1, <1>3, <1>16, Zenon DEF mmap_unmap, Goto, InEvict
<1> QED BY <1>4, <1>5, <1>6, <1>7, <1>8, <1>9, <1>10, <1>11, <1>12, <1>13, <1>14, <1>15, <1>16,
           Zenon

\* A step of p that moves page g of o and no other.
OnlyPage(p, o, g) ==
  /\ \A q \in Proc \ {p} : pc'[q] = pc[q] /\ ld'[q] = ld[q] /\ ev'[q] = ev[q]
  /\ pc[p] \in InEvict => ev[p].p = o /\ ev[p].g = g
  /\ pc'[p] \in InEvict => ev'[p].p = o /\ ev'[p].g = g
  /\ pc[p] = "install" => p = o /\ ld[p].g = g
  /\ pc'[p] = "install" => p = o /\ ld'[p].g = g
  /\ \A q \in Proc, h \in Page : (q # o \/ h # g) =>
       /\ pte'[q][h].f = pte[q][h].f /\ file'[q][h] = file[q][h] /\ spt'[q][h] = spt[q][h]
       /\ Resting(q, h) /\ Alive(q) => swap'[spt[q][h].slot] = swap[spt[q][h].slot]
  /\ \A x \in Table : (x.p # o \/ x.g # g) =>
       Own(x.p, x.g, x.f)' /\ content'[x.f] = content[x.f]
  /\ \A x \in Table' : (x.p # o \/ x.g # g) => Own(x.p, x.g, x.f)
  /\ \A q \in Proc \ {p} : pc[q] \in InEvict => content'[ev[q].f] = content[ev[q].f]

\* A step on one page keeps the value of every other page.
LEMMA OthersKept ==
  ASSUME IInv, ValuesOf, ValuesOf', NEW p \in Proc, NEW o \in Proc, NEW g \in Page,
         OnlyPage(p, o, g), NEW q \in Proc, NEW h \in Page, q # o \/ h # g
  PROVE  Kept(q, h)
<1>1. /\ pte'[q][h].f = pte[q][h].f /\ file'[q][h] = file[q][h] /\ spt'[q][h] = spt[q][h]
      /\ Resting(q, h) /\ Alive(q) => swap'[spt[q][h].slot] = swap[spt[q][h].slot]
  BY Zenon DEF OnlyPage
<1>2. /\ \A x \in Table : x.p = q /\ x.g = h => Own(q, h, x.f)' /\ content'[x.f] = content[x.f]
      /\ \A x \in Table' : x.p = q /\ x.g = h => Own(q, h, x.f)
  BY Zenon DEF OnlyPage
<1>3. ASSUME NEW r \in Proc
      PROVE  /\ Takes(r, q, h)' <=> Takes(r, q, h)
             /\ Takes(r, q, h) => content'[ev'[r].f] = content[ev[r].f]
  <2>1. CASE r = p
    BY <2>1, Zenon DEF Takes, OnlyPage
  <2>2. CASE r # p
    BY <2>2, SMTT(30) DEF Takes, OnlyPage
  <2> QED BY <2>1, <2>2, Zenon
<1>4. (Installing(q, h)' <=> Installing(q, h)) /\ (Installing(q, h) => ld'[q].f = ld[q].f)
  <2>1. CASE q = p
    BY <2>1, Zenon DEF Installing, OnlyPage
  <2>2. CASE q # p
    BY <2>2, Zenon DEF Installing, OnlyPage
  <2> QED BY <2>1, <2>2, Zenon
<1>5. InSwap(q, h)' <=> InSwap(q, h)
  BY <1>1, Zenon DEF InSwap
<1>6. Untouched(q, h)
  BY <1>1, <1>2, <1>3, <1>4, <1>5, Zenon DEF Untouched
<1> QED BY <1>6, UntouchedKept, Zenon DEF ValuesOf

\* A step on one page that keeps its value keeps every value.
LEMMA OnlyPageKept ==
  ASSUME IInv, ValuesOf, ValuesOf', NEW p \in Proc, NEW o \in Proc, NEW g \in Page,
         OnlyPage(p, o, g), Kept(o, g)
  PROVE  AllKept
BY OthersKept, SMTT(30) DEF AllKept

\* The frame table and the contents of the frames are as before.
LEMMA SameFrames ==
  ASSUME frame_table' = frame_table, content' = content
  PROVE  /\ \A x \in Table : Own(x.p, x.g, x.f)' /\ content'[x.f] = content[x.f]
         /\ \A x \in Table' : Own(x.p, x.g, x.f)
         /\ \A q, h, f : Own(q, h, f)' <=> Own(q, h, f)
<1>1. Table' = Table
  BY Zenon DEF Table
<1> QED BY <1>1, Zenon DEF Own

\* A page no thread has taken, as long as its process is not loading it.
LEMMA StoredAgain ==
  ASSUME IInv, NEW p \in Proc, NEW o \in Proc, NEW g \in Page, Takes(p, o, g),
         frame_table' = frame_table, pte' = pte, pc'[p] = "register",
         \A q \in Proc \ {p} : pc'[q] = pc[q] /\ ld'[q] = ld[q] /\ ev'[q] = ev[q]
  PROVE  Stored(o, g)'
<1>1. pte[o][g].f = None /\ ~(pc[o] \in Loading /\ ld[o].g = g)
  BY SMTT(30) DEF Takes, IInv, Evicts, EvictOf
<1>2. ~Framed(o, g)'
  BY <1>1, Zenon DEF Framed
<1>3. NoEvictor(o, g)'
  <2>1. \A q \in Proc \ {p} : ~Takes(q, o, g)
    BY Zenon DEF Takes, IInv, Evicts, OneEvictor
  <2> QED BY <2>1, Zenon DEF NoEvictor, Takes, InEvict
<1>4. ~Installing(o, g)'
  BY <1>1, Zenon DEF Installing, Loading
<1> QED BY <1>2, <1>3, <1>4, Zenon DEF Stored

\* evict_frame marks the entry, and may be done with the page.
LEMMA MarkKept ==
  ASSUME IInv, ValuesOf, ValuesOf', NEW p \in Proc, EvictMark(p)
  PROVE  AllKept
<1>1. pc[p] = "evict_mark" /\ pc[p] \in InEvict
  BY Zenon DEF EvictMark, Running, InEvict
<1>2. PICK o \in Proc, g \in Page, f \in Frame : o = ev[p].p /\ g = ev[p].g /\ f = ev[p].f
  BY <1>1, Refers, Zenon
<1>3. Takes(p, o, g) /\ spt[o][g] # None
  BY <1>1, <1>2, SMTT(30) DEF Takes, IInv, Evicts, EvictOf
<1>4. /\ spt' = [spt EXCEPT ![o] = [spt[o] EXCEPT ![g] = [spt[o][g] EXCEPT !.loaded = FALSE]]]
      /\ pc' = [pc EXCEPT ![p] =
           IF spt[o][g].type = "MMAP" THEN IF ev[p].dirty THEN "evict_write" ELSE "register"
           ELSE IF ev[p].dirty \/ spt[o][g].writable THEN "swap_out" ELSE "register"]
      /\ pte' = pte /\ frame_table' = frame_table /\ content' = content /\ swap' = swap
      /\ file' = file /\ ld' = ld /\ ev' = ev
  BY <1>2, Zenon DEF EvictMark, Goto, frameVars
<1>5. /\ pc'[p] = (IF spt[o][g].type = "MMAP" THEN IF ev[p].dirty THEN "evict_write" ELSE "register"
                   ELSE IF ev[p].dirty \/ spt[o][g].writable THEN "swap_out" ELSE "register")
      /\ \A q \in Proc \ {p} : pc'[q] = pc[q]
  BY <1>4, Zenon DEF IInv, Typed
<1>6. \A q \in Proc, h \in Page : (q # o \/ h # g) => spt'[q][h] = spt[q][h]
  BY <1>4, Zenon DEF IInv, Typed, TypeOK
<1>7. spt'[o][g].type = spt[o][g].type
  <2>1. spt[o][g] \in Entry
    BY <1>3, Types, Zenon DEF IInv
  <2> QED BY <1>4, <2>1, Zenon DEF IInv, Typed, TypeOK, Entry
<1>8. OnlyPage(p, o, g)
  <2>1. pc'[p] # "install" /\ pc[p] # "install"
    BY <1>1, <1>5, Zenon
  <2> QED BY <1>1, <1>2, <1>4, <1>5, <1>6, <2>1, SameFrames, ZenonT(30) DEF OnlyPage
<1>9. ValueOf(o, g) /\ ValueOf(o, g)'
  BY Zenon DEF ValuesOf
<1>10. Kept(o, g)
  <2> SUFFICES ASSUME Kind[g] = "map" \/ (Alive(o)' <=> Alive(o)) PROVE Value(o, g)' = Value(o, g)
    BY Zenon DEF Kept
  <2>1. CASE ~Alive(o) /\ Kind[g] # "map"
    BY <2>1, SMTT(30) DEF ValuesOf, ValueOf
  <2>2. CASE Alive(o) \/ Kind[g] = "map"
    <3>1. Value(o, g) = content[f][3]
      BY <1>2, <1>3, <1>9, <2>2, Zenon DEF ValueOf
    <3>2. CASE pc'[p] # "register"
      <4>1. Takes(p, o, g)' /\ ev'[p].f = f
        BY <1>2, <1>4, <1>5, <3>2, Zenon DEF Takes, InEvict
      <4>2. Value(o, g)' = content'[ev'[p].f][3]
        BY <2>2, <4>1, SMTT(30) DEF ValuesOf, ValueOf
      <4> QED BY <1>4, <3>1, <4>1, <4>2, Zenon
    <3>3. CASE pc'[p] = "register"
      <4>1. Stored(o, g)'
        BY <1>3, <1>4, <1>5, <3>3, StoredAgain, Zenon
      <4>2. /\ Kind[g] = "map" <=> spt[o][g].type = "MMAP"
            /\ spt[o][g].writable <=> Kind[g] # "code"
            /\ Kind[g] = "code" => spt[o][g].type = "FILE"
        BY <1>3, Zenon DEF IInv, Kinds, KindOf
      <4>3. CASE Kind[g] = "map"
        <5>1. content[f][3] = file[o][g]
          BY <1>1, <1>2, <1>5, <3>3, <4>2, <4>3, Zenon DEF IInv, EvictContents, EvictHolds
        <5> QED BY <1>4, <3>1, <4>1, <4>3, <5>1, Zenon DEF ValuesOf, ValueOf
      <4>4. CASE Kind[g] # "map"
        <5>1. Kind[g] = "code"
          BY <1>5, <3>3, <4>2, <4>4, Zenon
        <5>2. content[f][3] = 0
          BY <1>1, <1>2, <5>1, Zenon DEF IInv, EvictContents, EvictHolds
        <5>3. ~InSwap(o, g)'
          BY <1>7, <4>2, <5>1, Zenon DEF InSwap
        <5> QED BY <2>2, <3>1, <4>1, <4>4, <5>2, <5>3, ZenonT(30) DEF ValuesOf, ValueOf
      <4> QED BY <4>3, <4>4, Zenon
    <3> QED BY <3>2, <3>3, Zenon
  <2> QED BY <2>1, <2>2, Zenon
<1> QED BY <1>8, <1>10, OnlyPageKept, Zenon

\* evict_frame writes a page of a mapped file back.
LEMMA WriteKept ==
  ASSUME IInv, ValuesOf, ValuesOf', NEW p \in Proc, EvictWrite(p)
  PROVE  AllKept
<1>1. pc[p] = "evict_write" /\ pc[p] \in InEvict
  BY Zenon DEF EvictWrite, Running, InEvict
<1>2. PICK o \in Proc, g \in Page, f \in Frame : o = ev[p].p /\ g = ev[p].g /\ f = ev[p].f
  BY <1>1, Refers, Zenon
<1>3. Takes(p, o, g) /\ Kind[g] = "map"
  BY <1>1, <1>2, Zenon DEF Takes, IInv, Kinds, EvictKind
<1>4. /\ file' = [file EXCEPT ![o][g] = content[f][3]] /\ pc' = [pc EXCEPT ![p] = "register"]
      /\ pte' = pte /\ frame_table' = frame_table /\ content' = content /\ swap' = swap
      /\ spt' = spt /\ ld' = ld /\ ev' = ev
  BY <1>2, Zenon DEF EvictWrite, Goto, frameVars
<1>5. pc'[p] = "register" /\ \A q \in Proc \ {p} : pc'[q] = pc[q]
  BY <1>4, Zenon DEF IInv, Typed
<1>6. /\ file'[o][g] = content[f][3]
      /\ \A q \in Proc, h \in Page : (q # o \/ h # g) => file'[q][h] = file[q][h]
  BY <1>4, Zenon DEF IInv, Typed, TypeOK
<1>7. OnlyPage(p, o, g)
  BY <1>1, <1>2, <1>4, <1>5, <1>6, SameFrames, Zenon DEF OnlyPage
<1>8. Value(o, g) = content[f][3]
  BY <1>2, <1>3, SMTT(30) DEF ValuesOf, ValueOf
<1>9. Stored(o, g)'
  BY <1>3, <1>4, <1>5, StoredAgain, Zenon
<1>10. Value(o, g)' = file'[o][g]
  BY <1>3, <1>9, Zenon DEF ValuesOf, ValueOf
<1> QED BY <1>6, <1>7, <1>8, <1>10, OnlyPageKept, Zenon DEF Kept

\* swap_out uses a slot no page is in.
LEMMA SwapOutKept ==
  ASSUME IInv, ValuesOf, ValuesOf', NEW p \in Proc, swap_out(p)
  PROVE  AllKept
<1>1. pc[p] = "swap_out" /\ pc[p] \in InEvict
  BY Zenon DEF swap_out, Running, InEvict
<1>2. PICK o \in Proc, g \in Page, f \in Frame : o = ev[p].p /\ g = ev[p].g /\ f = ev[p].f
  BY <1>1, Refers, Zenon
<1>3. CASE Stop("swap_full")
  BY <1>3, StopKept, Zenon DEF Stop, StopIn
<1>4. CASE ~Stop("swap_full")
  <2>1. PICK c : c = {s \in Slot : swap[s] = None}
    BY Zenon
  <2>2. PICK s \in First(c) :
          /\ swap' = [swap EXCEPT ![s] = content[ev[p].f]]
          /\ ev' = [ev EXCEPT ![p].slot = s]
          /\ Goto(p, "evict_slot")
          /\ UNCHANGED <<spt, pte, frameVars, content, file, ld, touches, outcome>>
    BY <1>4, <2>1, Zenon DEF swap_out
  <2>3. /\ swap' = [swap EXCEPT ![s] = content[f]]
        /\ ev' = [ev EXCEPT ![p].slot = s] /\ pc' = [pc EXCEPT ![p] = "evict_slot"]
        /\ pte' = pte /\ frame_table' = frame_table /\ content' = content /\ file' = file
        /\ spt' = spt /\ ld' = ld
    BY <1>2, <2>2, Zenon DEF Goto, frameVars
  <2>4. s \in Slot /\ swap[s] = None
    BY <2>1, <2>2, Zenon DEF First
  <2>5. pc'[p] = "evict_slot" /\ \A q \in Proc \ {p} : pc'[q] = pc[q] /\ ev'[q] = ev[q]
    BY <2>3, Zenon DEF IInv, Typed, TypeOK
  <2>6. ev'[p].p = o /\ ev'[p].g = g /\ ev'[p].f = f
    <3>1. ev[p] \in Victim
      BY <1>1, Types, Zenon DEF IInv, Hand
    <3>2. ev'[p] = [ev[p] EXCEPT !.slot = s]
      BY <2>3, Zenon DEF IInv, Typed, TypeOK
    <3> QED BY <1>2, <3>1, <3>2, Zenon DEF Victim
  <2>7. ASSUME NEW q \in Proc, NEW h \in Page, Resting(q, h), Alive(q)
        PROVE  swap'[spt[q][h].slot] = swap[spt[q][h].slot]
    <3>1. swap[spt[q][h].slot] # None
      BY <2>7, ZenonT(30) DEF IInv, Swapped, SlotHolds, Is
    <3>2. spt[q][h].slot \in Slot
      BY <2>7, Zenon DEF IInv, Kinds, KindOf, Resting
    <3> QED BY <2>3, <2>4, <3>1, <3>2, Zenon DEF IInv, Typed, TypeOK
  <2>8. OnlyPage(p, o, g)
    BY <1>1, <1>2, <2>3, <2>5, <2>6, <2>7, SameFrames, Zenon DEF OnlyPage
  <2>9. Takes(p, o, g) /\ Takes(p, o, g)'
    BY <1>1, <1>2, <2>5, <2>6, Zenon DEF Takes, InEvict
  <2>10. ValueOf(o, g) /\ ValueOf(o, g)'
    BY Zenon DEF ValuesOf
  <2>11. Kept(o, g)
    <3>1. CASE Alive(o) \/ Kind[g] = "map"
      <4>1. Value(o, g) = content[f][3]
        BY <1>2, <2>9, <2>10, <3>1, Zenon DEF ValueOf
      <4>2. (Alive(o)' \/ Kind[g] = "map") => Value(o, g)' = content'[f][3]
        BY <2>6, <2>9, <2>10, Zenon DEF ValueOf
      <4> QED BY <2>3, <3>1, <4>1, <4>2, Zenon DEF Kept
    <3>2. CASE ~Alive(o) /\ Kind[g] # "map"
      BY <3>2, SMTT(30) DEF ValuesOf, ValueOf, Kept
    <3> QED BY <3>1, <3>2, Zenon
  <2> QED BY <2>8, <2>11, OnlyPageKept, Zenon
<1> QED BY <1>3, <1>4, Zenon

\* spt_set_swap: the entry names the slot the page is in.
LEMMA SlotKept ==
  ASSUME IInv, ValuesOf, ValuesOf', NEW p \in Proc, EvictSlot(p)
  PROVE  AllKept
<1>1. pc[p] = "evict_slot" /\ pc[p] \in InEvict
  BY Zenon DEF EvictSlot, Running, InEvict
<1>2. PICK o, g, f, s : o = ev[p].p /\ g = ev[p].g /\ f = ev[p].f /\ s = ev[p].slot
  BY Zenon
<1>3. /\ o \in Proc /\ g \in Page /\ Takes(p, o, g) /\ Kind[g] # "map"
  BY <1>1, <1>2, Refers, Zenon DEF Takes, IInv, Kinds, EvictKind
<1>4. /\ pc' = [pc EXCEPT ![p] = "register"]
      /\ pte' = pte /\ frame_table' = frame_table /\ content' = content /\ swap' = swap
      /\ file' = file /\ ld' = ld /\ ev' = ev
  BY Zenon DEF EvictSlot, Goto, frameVars
<1>5. pc'[p] = "register" /\ \A q \in Proc \ {p} : pc'[q] = pc[q]
  BY <1>4, Zenon DEF IInv, Typed
<1>6. /\ spt'[o][g] # None /\ spt'[o][g].type = "SWAP" /\ spt'[o][g].slot = s
      /\ \A q \in Proc, h \in Page : (q # o \/ h # g) => spt'[q][h] = spt[q][h]
  <2>1. NowInSlot(o, g, s)
    BY <1>2, SlotNamed, Zenon
  <2> QED BY <2>1, Zenon DEF NowInSlot
<1>7. ValueOf(o, g) /\ ValueOf(o, g)'
  BY <1>3, Zenon DEF ValuesOf
<1>8. OnlyPage(p, o, g)
  BY <1>1, <1>2, <1>4, <1>5, <1>6, SameFrames, Zenon DEF OnlyPage
<1>9. Kept(o, g)
  <2> SUFFICES ASSUME Alive(o)' <=> Alive(o) PROVE Value(o, g)' = Value(o, g)
    BY <1>3, Zenon DEF Kept
  <2>1. CASE ~Alive(o)
    BY <1>3, <1>7, <2>1, Zenon DEF ValueOf
  <2>2. CASE Alive(o)
    <3>1. Value(o, g) = content[f][3]
      BY <1>2, <1>3, <1>7, <2>2, Zenon DEF ValueOf
    <3>2. swap[s] = content[f]
      BY <1>1, <1>2, <2>2, Zenon DEF IInv, Swapped, EvictSlots
    <3>3. Stored(o, g)'
      BY <1>3, <1>4, <1>5, StoredAgain, Zenon
    <3>4. InSwap(o, g)'
      BY <1>6, Zenon DEF InSwap
    <3>5. Value(o, g)' = swap'[spt'[o][g].slot][3]
      BY <1>3, <1>7, <2>2, <3>3, <3>4, Zenon DEF ValueOf
    <3> QED BY <1>4, <1>6, <3>1, <3>2, <3>5, Zenon
  <2> QED BY <2>1, <2>2, Zenon
<1> QED BY <1>3, <1>8, <1>9, OnlyPageKept, Zenon

\* A page in no frame reads as before when its entry, its slot and its file do.
LEMMA StoredKept ==
  ASSUME ValuesOf, ValuesOf', NEW o \in Proc, NEW g \in Page, Stored(o, g), Stored(o, g)',
         file'[o][g] = file[o][g], spt'[o][g] = spt[o][g], swap' = swap
  PROVE  Kept(o, g)
<1>1. ValueOf(o, g) /\ ValueOf(o, g)'
  BY Zenon DEF ValuesOf
<1>2. InSwap(o, g)' <=> InSwap(o, g)
  BY Zenon DEF InSwap
<1> SUFFICES ASSUME Kind[g] = "map" \/ (Alive(o)' <=> Alive(o)) PROVE Value(o, g)' = Value(o, g)
  BY Zenon DEF Kept
<1>3. CASE Kind[g] = "map"
  BY <1>1, <1>3, Zenon DEF ValueOf
<1>4. CASE Kind[g] # "map" /\ ~Alive(o)
  BY <1>1, <1>4, Zenon DEF ValueOf
<1>5. CASE Kind[g] # "map" /\ Alive(o)
  BY <1>1, <1>2, <1>5, Zenon DEF ValueOf
<1> QED BY <1>3, <1>4, <1>5, Zenon

\* A frame is entered in the table for the page that is to be loaded into it.
LEMMA RegisterKept ==
  ASSUME IInv, ValuesOf, ValuesOf', NEW p \in Proc, NEW f \in Frame, NEW g, g = ld[p].g,
         \/ /\ pc[p] = "alloc" /\ f \in free_frames /\ ev' = ev /\ content' = content
         \/ /\ pc[p] = "register" /\ f = ev[p].f
            /\ ev' = [ev EXCEPT ![p] = None] /\ content' = [content EXCEPT ![f] = None],
         frame_table' = Append(frame_table, [f |-> f, p |-> p, g |-> g, pinned |-> FALSE]),
         ld' = [ld EXCEPT ![p].f = f], pc' = [pc EXCEPT ![p] = "fill"],
         spt' = spt, pte' = pte, swap' = swap, file' = file
  PROVE  AllKept
<1>1. /\ pc[p] \in Seeking /\ pc[p] \in Loading /\ pc[p] \notin InEvict
      /\ pc[p] \in {"alloc", "register"} /\ (Hand(p) <=> pc[p] = "register")
  BY Zenon DEF Seeking, Loading, InEvict, Hand
<1>2. g \in Page /\ pte[p][g].f = None
  BY <1>1, LocalTypes, Zenon DEF IInv, Filling
<1>3. PICK x0 \in FrameEntry : /\ x0 = [f |-> f, p |-> p, g |-> g, pinned |-> FALSE]
                               /\ x0.f = f /\ x0.p = p /\ x0.g = g
  <2>1. [f |-> f, p |-> p, g |-> g, pinned |-> FALSE] \in FrameEntry
    BY <1>2, Zenon DEF FrameEntry
  <2> QED BY <2>1, Zenon
<1>4. \A y \in Table : y.f # f
  BY <1>1, SMTT(30) DEF IInv, Partition
<1>5. Table' = Table \cup {x0}
  <2>1. frame_table \in Seq(FrameEntry) /\ Distinct
    BY Types, Zenon DEF IInv
  <2>2. frame_table' = Append(frame_table, x0) /\ \A y \in Table : y.f # x0.f
    BY <1>3, <1>4, Zenon
  <2> QED BY <2>1, <2>2, Appended, Zenon
<1>6. /\ pc'[p] = "fill" /\ ld'[p].g = g
      /\ \A q \in Proc \ {p} : pc'[q] = pc[q] /\ ld'[q] = ld[q]
  BY LocalTypes, Zenon DEF Locals
<1>7. \A q \in Proc \ {p} : ev'[q] = ev[q]
  BY Zenon DEF IInv, Typed, TypeOK
<1>8. /\ \A y \in Table : content'[y.f] = content[y.f]
      /\ \A q \in Proc \ {p} : pc[q] \in InEvict => content'[ev[q].f] = content[ev[q].f]
  <2>1. \A k \in Frame \ {f} : content'[k] = content[k]
    BY Zenon DEF IInv, Typed, TypeOK
  <2>2. \A q \in Proc \ {p} : pc[q] \in InEvict => ev[q].f # f
    BY <1>1, SMTT(30) DEF IInv, Partition, Hand
  <2> QED BY <1>4, <2>1, <2>2, Refers, Zenon
<1>9. OnlyPage(p, p, g)
  <2>1. \A x \in Table : Own(x.p, x.g, x.f) /\ Own(x.p, x.g, x.f)'
    BY <1>5, Zenon DEF Own
  <2>2. \A x \in Table' : (x.p # p \/ x.g # g) => Own(x.p, x.g, x.f)
    BY <1>3, <1>5, <2>1, Zenon
  <2> QED BY <1>1, <1>6, <1>7, <1>8, <2>1, <2>2, Zenon DEF OnlyPage, InEvict
<1>10. NoEvictor(p, g) /\ NoEvictor(p, g)'
  <2>1. NoEvictor(p, g)
    BY <1>1, <1>2, SMTT(30) DEF NoEvictor, IInv, Evicts, EvictOf
  <2>2. pc'[p] \notin InEvict
    BY <1>6, Zenon DEF InEvict
  <2> QED BY <1>6, <1>7, <2>1, <2>2, Zenon DEF NoEvictor
<1>11. Stored(p, g) /\ Stored(p, g)'
  BY <1>1, <1>2, <1>6, <1>10, Zenon DEF Stored, Framed, Installing
<1>12. Kept(p, g)
  BY <1>2, <1>11, StoredKept, Zenon
<1> QED BY <1>2, <1>9, <1>12, OnlyPageKept, Zenon

\* frame_alloc enters a frame that holds no page yet.
LEMMA AllocKept ==
  ASSUME IInv, ValuesOf, ValuesOf', NEW p \in Proc, frame_alloc(p)
  PROVE  AllKept
<1>1. PICK f \in First(free_frames) :
        /\ frame_table' = Append(frame_table, [f |-> f, p |-> p, g |-> ld[p].g, pinned |-> FALSE])
        /\ ld' = [ld EXCEPT ![p].f = f]
  BY Zenon DEF frame_alloc
<1>2. /\ pc[p] = "alloc"
      /\ frame_table' = Append(frame_table, [f |-> f, p |-> p, g |-> ld[p].g, pinned |-> FALSE])
      /\ ld' = [ld EXCEPT ![p].f = f] /\ pc' = [pc EXCEPT ![p] = "fill"]
      /\ UNCHANGED <<spt, pte, content, swap, file, ev>>
  BY <1>1, Zenon DEF frame_alloc, Running, Goto
<1>3. f \in free_frames /\ f \in Frame
  BY <1>1, Zenon DEF First, IInv, Typed, TypeOK
<1> QED BY <1>2, <1>3, RegisterKept, Zenon

\* So does the end of frame_alloc after an eviction.
LEMMA RegistersKept ==
  ASSUME IInv, ValuesOf, ValuesOf', NEW p \in Proc, FrameRegister(p)
  PROVE  AllKept
<1>1. PICK f : f = ev[p].f
  BY Zenon
<1>2. /\ pc[p] = "register"
      /\ frame_table' = Append(frame_table, [f |-> f, p |-> p, g |-> ld[p].g, pinned |-> FALSE])
      /\ ld' = [ld EXCEPT ![p].f = f] /\ ev' = [ev EXCEPT ![p] = None]
      /\ content' = [content EXCEPT ![f] = None] /\ pc' = [pc EXCEPT ![p] = "fill"]
      /\ UNCHANGED <<spt, pte, swap, file>>
  BY <1>1, Zenon DEF FrameRegister, Running, Goto
<1>3. f \in Frame
  BY <1>1, <1>2, Types, Zenon DEF IInv, Hand
<1> QED BY <1>1, <1>2, <1>3, RegisterKept, Zenon

\* The page is read into the frame found for it, from where it was.
LEMMA FillKept ==
  ASSUME IInv, ValuesOf, ValuesOf', NEW p \in Proc, PageFill(p)
  PROVE  AllKept
<1>1. PICK g, f, e, c, s : /\ g = ld[p].g /\ f = ld[p].f /\ e = spt[p][g] /\ s = e.slot
                           /\ c = IF e.type = "SWAP" THEN swap[s]
                                  ELSE <<p, g, IF e.type = "MMAP" THEN file[p][g] ELSE 0>>
  BY Zenon
<1>2. pc[p] = "fill"
  BY Zenon DEF PageFill, Running
<1>3. CASE e.type = "SWAP" /\ swap[s] = None
  <2>1. Stop("free_slot")
    BY <1>1, <1>3, Zenon DEF PageFill
  <2> QED BY <2>1, StopKept, Zenon DEF Stop, StopIn
<1>4. CASE ~(e.type = "SWAP" /\ swap[s] = None)
  <2>1. /\ content' = [content EXCEPT ![f] = c]
        /\ swap' = IF e.type = "SWAP" THEN [swap EXCEPT ![s] = None] ELSE swap
        /\ pc' = [pc EXCEPT ![p] = "install"]
        /\ UNCHANGED <<spt, pte, frameVars, file, ld, ev>>
    BY <1>1, <1>4, Zenon DEF PageFill, Goto, swap_in, swap_free
  <2>2. /\ g \in Page /\ f \in Frame /\ Own(p, g, f) /\ pte[p][g].f = None
        /\ spt[p][g] # None /\ NoEvictor(p, g)
        /\ \A x \in Table : x.f = f => x.p = p /\ x.g = g
    BY <1>1, <1>2, Fills, Zenon
  <2>3. e.type = "SWAP" => s \in Slot /\ Is(p, g, swap[s])
    BY <1>1, <1>2, Read, Zenon
  <2>4. e.type # "SWAP" => c[3] = IF Kind[g] = "map" THEN file[p][g] ELSE 0
    <3>1. e.type = "MMAP" <=> Kind[g] = "map"
      BY <1>1, <2>2, Zenon DEF IInv, Kinds, KindOf
    <3> QED BY <1>1, <3>1, Zenon
  <2>5. pc'[p] = "install" /\ \A q \in Proc \ {p} : pc'[q] = pc[q]
    BY <2>1, LocalTypes, Zenon
  <2>6. content'[f] = c /\ \A k \in Frame \ {f} : content'[k] = content[k]
    BY <2>1, <2>2, Zenon DEF IInv, Typed, TypeOK
  <2>7. \A k \in Slot : (e.type # "SWAP" \/ k # s) => swap'[k] = swap[k]
    BY <2>1, Zenon DEF IInv, Typed, TypeOK
  <2>8. /\ spt' = spt /\ pte' = pte /\ frame_table' = frame_table /\ file' = file
        /\ ld' = ld /\ ev' = ev /\ Table' = Table
    BY <2>1, Zenon DEF frameVars, Table
  <2>9. \A q \in Proc : pc[q] \in InEvict => content'[ev[q].f] = content[ev[q].f]
    <3> SUFFICES ASSUME NEW q \in Proc, pc[q] \in InEvict
                 PROVE  content'[ev[q].f] = content[ev[q].f]
      BY Zenon
    <3>1. ev[q].f \in Frame /\ \A x \in Table : x.f # ev[q].f
      BY Refers, Zenon DEF IInv, Partition, Hand
    <3>2. ev[q].f # f
      BY <2>2, <3>1, Zenon DEF Own
    <3> QED BY <2>6, <3>1, <3>2, Zenon
  <2>10. \A x \in Table : (x.p # p \/ x.g # g) => content'[x.f] = content[x.f]
    BY <2>2, <2>6, Refers, Zenon
  <2>11. ASSUME NEW q \in Proc, NEW h \in Page, q # p \/ h # g, Resting(q, h), Alive(q)
         PROVE  swap'[spt[q][h].slot] = swap[spt[q][h].slot]
    <3>1. Is(q, h, swap[spt[q][h].slot])
      BY <2>11, Zenon DEF IInv, Swapped, SlotHolds
    <3>2. spt[q][h].slot \in Slot
      BY <2>11, Zenon DEF IInv, Kinds, KindOf, Resting
    <3>3. e.type = "SWAP" => spt[q][h].slot # s
      BY <2>3, <2>11, <3>1, Zenon DEF Is
    <3> QED BY <2>7, <3>2, <3>3, Zenon
  <2>12. OnlyPage(p, p, g)
    <3>1. \A x \in Table : Own(x.p, x.g, x.f) /\ Own(x.p, x.g, x.f)'
      BY <2>8, Zenon DEF Own
    <3>2. pc[p] \notin InEvict /\ pc'[p] \notin InEvict /\ pc[p] # "install"
      BY <1>2, <2>5, Zenon DEF InEvict
    <3> QED BY <1>1, <2>5, <2>8, <2>9, <2>10, <2>11, <3>1, <3>2, Zenon DEF OnlyPage
  <2>13. ValueOf(p, g) /\ ValueOf(p, g)'
    BY <2>2, Zenon DEF ValuesOf
  <2>14. Alive(p) /\ Alive(p)'
    BY <1>2, <2>5, Zenon DEF Alive
  <2>15. Stored(p, g)
    BY <1>2, <2>2, Zenon DEF Stored, Framed, Installing
  <2>16. Installing(p, g)' /\ ld'[p].f = f
    BY <1>1, <2>5, <2>8, Zenon DEF Installing
  <2>17. Value(p, g)' = content'[ld'[p].f][3]
    BY <2>13, <2>14, <2>16, Zenon DEF ValueOf
  <2>18. Value(p, g)' = c[3]
    BY <2>6, <2>16, <2>17, Zenon
  <2>19. CASE e.type = "SWAP"
    <3>1. Kind[g] # "map" /\ InSwap(p, g)
      BY <1>1, <2>2, <2>19, Zenon DEF InSwap, IInv, Kinds, KindOf
    <3>2. Value(p, g) = swap[spt[p][g].slot][3]
      BY <2>13, <2>14, <2>15, <3>1, Zenon DEF ValueOf
    <3>3. Value(p, g) = c[3]
      BY <1>1, <2>19, <3>2, Zenon
    <3> QED BY <2>2, <2>12, <2>18, <3>3, OnlyPageKept, Zenon DEF Kept
  <2>20. CASE e.type # "SWAP"
    <3>1. ~InSwap(p, g)
      BY <1>1, <2>20, Zenon DEF InSwap
    <3>2. Value(p, g) = IF Kind[g] = "map" THEN file[p][g] ELSE 0
      BY <2>13, <2>14, <2>15, <3>1, Zenon DEF ValueOf
    <3>3. Value(p, g) = c[3]
      BY <2>4, <2>20, <3>2, Zenon
    <3> QED BY <2>2, <2>12, <2>18, <3>3, OnlyPageKept, Zenon DEF Kept
  <2> QED BY <2>19, <2>20, Zenon
<1> QED BY <1>3, <1>4, Zenon

\* The page is present, in the frame it has been read into.
LEMMA InstallKept ==
  ASSUME IInv, ValuesOf, ValuesOf', NEW p \in Proc, pagedir_set_page(p)
  PROVE  AllKept
<1>1. PICK g, f : g = ld[p].g /\ f = ld[p].f
  BY Zenon
<1>2. /\ pc[p] = "install" /\ pc' = [pc EXCEPT ![p] = "record"]
      /\ pte' = [pte EXCEPT ![p][g] = [f |-> f, A |-> FALSE, D |-> FALSE]]
      /\ UNCHANGED <<spt, frameVars, content, swap, file, ld, ev>>
  BY <1>1, Zenon DEF pagedir_set_page, Running, Goto
<1>3. g \in Page /\ f # None /\ Own(p, g, f)
  BY <1>1, <1>2, Fills, Zenon
<1>4. pc'[p] = "record" /\ \A q \in Proc \ {p} : pc'[q] = pc[q]
  BY <1>2, LocalTypes, Zenon
<1>5. /\ pte'[p][g].f = f
      /\ \A q \in Proc, h \in Page : (q # p \/ h # g) => pte'[q][h] = pte[q][h]
  BY <1>2, <1>3, Zenon DEF IInv, Typed, TypeOK
<1>6. /\ spt' = spt /\ frame_table' = frame_table /\ content' = content /\ swap' = swap
      /\ file' = file /\ ld' = ld /\ ev' = ev
  BY <1>2, Zenon DEF frameVars
<1>7. pc[p] \notin InEvict /\ pc'[p] \notin InEvict /\ pc'[p] # "install"
  BY <1>2, <1>4, Zenon DEF InEvict
<1>8. OnlyPage(p, p, g)
  BY <1>1, <1>4, <1>5, <1>6, <1>7, SameFrames, Zenon DEF OnlyPage
<1>9. ValueOf(p, g) /\ ValueOf(p, g)' /\ Alive(p) /\ Alive(p)'
  BY <1>2, <1>3, <1>4, Zenon DEF ValuesOf, Alive
<1>10. Installing(p, g)
  BY <1>1, <1>2, Zenon DEF Installing
<1>11. Framed(p, g)'
  <2>1. Own(p, g, f)' /\ (Own(p, g, f)' <=> Own(p, g, pte[p][g].f)')
    BY <1>3, <1>5, <1>6, SameFrames, SMTT(30) DEF Own
  <2> QED BY <1>3, <1>5, <2>1, Zenon DEF Framed
<1>12. Value(p, g) = content[f][3]
  BY <1>1, <1>9, <1>10, Zenon DEF ValueOf
<1>13. Value(p, g)' = content'[pte'[p][g].f][3]
  BY <1>9, <1>11, Zenon DEF ValueOf
<1> QED BY <1>3, <1>5, <1>6, <1>8, <1>12, <1>13, OnlyPageKept, Zenon DEF Kept

\* The frame of page g of p is freed.
LEMMA FreedOnly ==
  ASSUME IInv, NEW p \in Proc, NEW g \in Page, NEW x0 \in Table, x0.p = p, x0.g = g,
         Table' = Table \ {x0}, \A y \in Table' : content'[y.f] = content[y.f],
         \A q \in Proc : pc[q] \in InEvict => content'[ev[q].f] = content[ev[q].f],
         \A q \in Proc \ {p} : pc'[q] = pc[q] /\ ld'[q] = ld[q],
         pc[p] \notin InEvict, pc'[p] \notin InEvict \cup {"install"},
         pc[p] = "install" => ld[p].g = g,
         ev' = ev, pte' = pte, spt' = spt, file' = file, swap' = swap
  PROVE  OnlyPage(p, p, g)
<1>1. \A x \in Table : (x.p # p \/ x.g # g) =>
        x \in Table' /\ Own(x.p, x.g, x.f)' /\ content'[x.f] = content[x.f]
  <2> SUFFICES ASSUME NEW x \in Table, x.p # p \/ x.g # g
               PROVE  x \in Table' /\ Own(x.p, x.g, x.f)' /\ content'[x.f] = content[x.f]
    BY Zenon
  <2>1. x \in Table'
    BY Zenon
  <2> QED BY <2>1, Zenon DEF Own
<1>2. \A x \in Table' : Own(x.p, x.g, x.f)
  BY Zenon DEF Own
<1> QED BY <1>1, <1>2, Zenon DEF OnlyPage

\* No page table for the page: it is where it was before it was read.
LEMMA FailKept ==
  ASSUME IInv, ValuesOf, ValuesOf', NEW p \in Proc, pagedir_set_page_fails(p)
  PROVE  AllKept
<1>1. PICK g, f, l : /\ g = ld[p].g /\ f = ld[p].f
                     /\ l = IF ld[p].again THEN "alloc"
                            ELSE IF ld[p].then = "pin_look" THEN "sys" ELSE "exit"
  BY Zenon
<1>2. pc[p] = "install" /\ spt[p][g].type # "SWAP" /\ l \in {"alloc", "sys", "exit"}
  BY <1>1, Zenon DEF pagedir_set_page_fails, Running
<1>3. CASE Walked(p)
  <2>1. Stop("walk")
    BY <1>3, Zenon DEF pagedir_set_page_fails
  <2> QED BY <2>1, StopKept, Zenon DEF Stop, StopIn
<1>4. CASE ~Walked(p)
  <2>1. /\ frame_free(f) /\ pc' = [pc EXCEPT ![p] = l]
        /\ ld' = [ld EXCEPT ![p].again = FALSE, ![p].f = None]
        /\ UNCHANGED <<spt, pte, swap, file, ev, touches, outcome>>
    BY <1>1, <1>4, Zenon DEF pagedir_set_page_fails, LoadFails, Goto
  <2>2. /\ g \in Page /\ Own(p, g, f) /\ pte[p][g].f = None /\ NoEvictor(p, g)
    BY <1>1, <1>2, Fills, Zenon
  <2>3. PICK x0 \in Table : x0.p = p /\ x0.g = g /\ x0.f = f
    BY <2>2, Zenon DEF Own
  <2>4. /\ pc'[p] = l /\ \A q \in Proc \ {p} : pc'[q] = pc[q] /\ ld'[q] = ld[q]
    BY <2>1, LocalTypes, Zenon
  <2>5. spt' = spt /\ pte' = pte /\ swap' = swap /\ file' = file /\ ev' = ev
    BY <2>1, Zenon
  <2>6. pc[p] \notin InEvict /\ pc'[p] \notin InEvict \cup {"install"} /\ (Hand(p)' <=> Hand(p))
    BY <1>2, <2>4, Zenon DEF InEvict, Hand
  <2>7. SameHands
    BY <2>4, <2>5, <2>6, Zenon DEF SameHands, Hand
  <2>8. /\ Table' = Table \ {x0} /\ \A y \in Table' : content'[y.f] = content[y.f]
        /\ \A q \in Proc : pc[q] \in InEvict => content'[ev[q].f] = content[ev[q].f]
    BY <2>1, <2>3, <2>7, Freed, Zenon
  <2>9. OnlyPage(p, p, g)
    BY <1>1, <2>2, <2>3, <2>4, <2>5, <2>6, <2>8, FreedOnly, Zenon
  <2>10. ValueOf(p, g) /\ ValueOf(p, g)' /\ Alive(p)
    BY <1>2, <2>2, Zenon DEF ValuesOf, Alive
  <2>11. Installing(p, g) /\ ~InSwap(p, g)'
    BY <1>1, <1>2, <2>5, Zenon DEF Installing, InSwap
  <2>12. Stored(p, g)'
    <3>1. NoEvictor(p, g)'
      BY <2>2, <2>4, <2>5, <2>6, Zenon DEF NoEvictor
    <3> QED BY <2>2, <2>5, <2>6, <3>1, Zenon DEF Stored, Framed, Installing
  <2>13. content[f][3] = IF Kind[g] = "map" THEN file[p][g] ELSE 0
    BY <1>1, <1>2, <2>3, Zenon DEF IInv, FrameContents, FrameHolds
  <2>14. Value(p, g) = content[f][3]
    BY <1>1, <2>10, <2>11, Zenon DEF ValueOf
  <2>15. Kind[g] = "map" => Value(p, g)' = file[p][g]
    BY <2>5, <2>10, <2>12, Zenon DEF ValueOf
  <2>16. Kind[g] # "map" => Value(p, g)' = 0
    BY <2>10, <2>11, <2>12, Zenon DEF ValueOf
  <2>17. Value(p, g)' = Value(p, g)
    BY <2>13, <2>14, <2>15, <2>16, Zenon
  <2> QED BY <2>2, <2>9, <2>17, OnlyPageKept, Zenon DEF Kept
<1> QED BY <1>3, <1>4, Zenon

\* The page is written to its file, and still in its frame.
LEMMA UnmapWriteKept ==
  ASSUME IInv, ValuesOf, ValuesOf', NEW p \in Proc, UnmapWrite(p)
  PROVE  AllKept
<1>1. PICK g, f, v : g = ld[p].g /\ f = ld[p].f /\ v = content[f][3]
  BY Zenon
<1>2. pc[p] = "unmap_write"
  BY Zenon DEF UnmapWrite, Running
<1>3. CASE ~Holds(p, g, f)
  <2>1. Stop("stolen_frame")
    BY <1>1, <1>3, Zenon DEF UnmapWrite
  <2> QED BY <2>1, StopKept, Zenon DEF Stop, StopIn
<1>4. CASE Holds(p, g, f)
  <2>1. /\ file' = [file EXCEPT ![p][g] = v] /\ pc' = [pc EXCEPT ![p] = "unmap_free"]
        /\ UNCHANGED <<spt, pte, frameVars, content, swap, ld, ev, touches, outcome>>
    BY <1>1, <1>4, Zenon DEF UnmapWrite, Goto
  <2>2. Own(p, g, f) /\ g \in Page
    BY <1>1, <1>4, HoldsOwn, Types, LocalTypes, Zenon DEF IInv
  <2>3. pte[p][g].f = f /\ f # None
    BY <1>2, <2>2, Registered, Zenon
  <2>4. pc'[p] = "unmap_free" /\ \A q \in Proc \ {p} : pc'[q] = pc[q]
    BY <2>1, LocalTypes, Zenon
  <2>5. \A q \in Proc, h \in Page : (q # p \/ h # g) => file'[q][h] = file[q][h]
    BY <2>1, <2>2, Zenon DEF IInv, Typed, TypeOK
  <2>6. /\ spt' = spt /\ pte' = pte /\ frame_table' = frame_table /\ content' = content
        /\ swap' = swap /\ ld' = ld /\ ev' = ev
    BY <2>1, Zenon DEF frameVars
  <2>7. pc[p] \notin InEvict \cup {"install"} /\ pc'[p] \notin InEvict \cup {"install"}
    BY <1>2, <2>4, Zenon DEF InEvict
  <2>8. OnlyPage(p, p, g)
    BY <2>4, <2>5, <2>6, <2>7, SameFrames, Zenon DEF OnlyPage
  <2>9. Kind[g] = "map"
    BY <1>1, <1>2, Zenon DEF IInv, Ends, EndOf, Unmapping
  <2>10. Framed(p, g) /\ Framed(p, g)'
    <3>1. Own(p, g, pte[p][g].f)' <=> Own(p, g, f)
      BY <2>3, <2>6, SameFrames, SMTT(30) DEF Own
    <3> QED BY <2>2, <2>3, <2>6, <3>1, Zenon DEF Framed
  <2>11. ValueOf(p, g) /\ ValueOf(p, g)'
    BY <2>2, Zenon DEF ValuesOf
  <2>12. Value(p, g) = content[pte[p][g].f][3]
    BY <2>9, <2>10, <2>11, Zenon DEF ValueOf
  <2>13. Value(p, g)' = content'[pte'[p][g].f][3]
    BY <2>9, <2>10, <2>11, Zenon DEF ValueOf
  <2> QED BY <2>2, <2>6, <2>8, <2>12, <2>13, OnlyPageKept, Zenon DEF Kept
<1> QED BY <1>3, <1>4, Zenon

\* The frame of the unmapped page is freed; the file holds the page.
LEMMA UnmapFreeKept ==
  ASSUME IInv, ValuesOf, ValuesOf', NEW p \in Proc, UnmapFree(p)
  PROVE  AllKept
<1>1. PICK g, f : g = ld[p].g /\ f = ld[p].f
  BY Zenon
<1>2. pc[p] = "unmap_free"
  BY Zenon DEF UnmapFree, Running
<1>3. CASE ~Holds(p, g, f) \/ Walked(p)
  <2>1. Stop("stolen_frame") \/ Stop("walk")
    BY <1>1, <1>3, Zenon DEF UnmapFree
  <2> QED BY <2>1, StopKept, Zenon DEF Stop, StopIn
<1>4. CASE Holds(p, g, f) /\ ~Walked(p)
  <2>1. /\ frame_free(f) /\ pc' = [pc EXCEPT ![p] = "unmap_clear"]
        /\ UNCHANGED <<spt, pte, swap, file, ld, ev, touches, outcome>>
    BY <1>1, <1>4, Zenon DEF UnmapFree, Goto
  <2>2. Own(p, g, f) /\ g \in Page
    BY <1>1, <1>4, HoldsOwn, Types, LocalTypes, Zenon DEF IInv
  <2>3. /\ pte[p][g].f = f /\ f # None /\ NoEvictor(p, g)
        /\ \A x \in Table : x.p = p /\ x.g = g => x.f = f
    BY <1>2, <2>2, Registered, Zenon
  <2>4. PICK x0 \in Table : x0.p = p /\ x0.g = g /\ x0.f = f
    BY <2>2, Zenon DEF Own
  <2>5. pc'[p] = "unmap_clear" /\ \A q \in Proc \ {p} : pc'[q] = pc[q]
    BY <2>1, LocalTypes, Zenon
  <2>6. /\ spt' = spt /\ pte' = pte /\ swap' = swap /\ file' = file /\ ld' = ld /\ ev' = ev
    BY <2>1, Zenon
  <2>7. /\ pc[p] \notin InEvict \cup {"install"} /\ pc'[p] \notin InEvict \cup {"install"}
        /\ Hand(p)' <=> Hand(p)
    BY <1>2, <2>5, Zenon DEF InEvict, Hand
  <2>8. SameHands
    BY <2>5, <2>6, <2>7, Zenon DEF SameHands, Hand
  <2>9. /\ Table' = Table \ {x0} /\ \A y \in Table' : content'[y.f] = content[y.f]
        /\ \A q \in Proc : pc[q] \in InEvict => content'[ev[q].f] = content[ev[q].f]
    BY <2>1, <2>4, <2>8, Freed, Zenon
  <2>10. OnlyPage(p, p, g)
    BY <2>2, <2>4, <2>5, <2>6, <2>7, <2>9, FreedOnly, Zenon
  <2>11. Kind[g] = "map" /\ content[f][3] = file[p][g]
    <3>1. Kind[g] = "map"
      BY <1>1, <1>2, Zenon DEF IInv, Ends, EndOf, Unmapping
    <3>2. content[f][3] = file[p][g]
      BY <1>1, <1>2, <2>4, Zenon DEF IInv, FrameContents, FrameHolds
    <3> QED BY <3>1, <3>2, Zenon
  <2>12. Framed(p, g)
    BY <2>2, <2>3, Zenon DEF Framed
  <2>13. Stored(p, g)'
    <3>1. NoEvictor(p, g)'
      BY <2>3, <2>5, <2>6, <2>7, Zenon DEF NoEvictor
    <3>2. \A x \in Table' : ~(x.p = p /\ x.g = g)
      BY <2>3, <2>4, <2>9, Unique, SMTT(30) DEF IInv
    <3>3. ~Own(p, g, pte[p][g].f)'
      BY <3>2, Zenon DEF Own
    <3> QED BY <2>7, <3>1, <3>3, Zenon DEF Stored, Framed, Installing
  <2>14. ValueOf(p, g) /\ ValueOf(p, g)'
    BY <2>2, Zenon DEF ValuesOf
  <2>15. Value(p, g) = content[pte[p][g].f][3]
    BY <2>11, <2>12, <2>14, Zenon DEF ValueOf
  <2>16. Value(p, g)' = file'[p][g]
    BY <2>11, <2>13, <2>14, Zenon DEF ValueOf
  <2> QED BY <2>2, <2>3, <2>6, <2>10, <2>11, <2>15, <2>16, OnlyPageKept, Zenon DEF Kept
<1> QED BY <1>3, <1>4, Zenon

\* The unmapped page leaves the page table.
LEMMA ClearKept ==
  ASSUME IInv, ValuesOf, ValuesOf', NEW p \in Proc, UnmapClear(p)
  PROVE  AllKept
<1>1. PICK g : g = ld[p].g
  BY Zenon
<1>2. /\ pc[p] = "unmap_clear" /\ pc' = [pc EXCEPT ![p] = "unmap_remove"]
      /\ pte' = [pte EXCEPT ![p][g].f = None]
      /\ UNCHANGED <<spt, frameVars, content, swap, file, ld, ev>>
  BY <1>1, Zenon DEF UnmapClear, Running, Goto, pagedir_clear_page
<1>3. g \in Page
  BY <1>1, LocalTypes, Zenon
<1>4. pc'[p] = "unmap_remove" /\ \A q \in Proc \ {p} : pc'[q] = pc[q]
  BY <1>2, LocalTypes, Zenon
<1>5. /\ pte'[p][g].f = None
      /\ \A q \in Proc, h \in Page : (q # p \/ h # g) => pte'[q][h] = pte[q][h]
  <2>1. pte \in [Proc -> [Page -> [f : Frame \cup {None}, A : BOOLEAN, D : BOOLEAN]]]
    BY Zenon DEF IInv, Typed, TypeOK
  <2>2. pte[p][g] \in [f : Frame \cup {None}, A : BOOLEAN, D : BOOLEAN]
    BY <1>3, <2>1, Zenon
  <2> QED BY <1>2, <1>3, <2>1, <2>2, Zenon
<1>6. /\ spt' = spt /\ frame_table' = frame_table /\ content' = content /\ swap' = swap
      /\ file' = file /\ ld' = ld /\ ev' = ev
  BY <1>2, Zenon DEF frameVars
<1>7. pc[p] \notin InEvict \cup {"install"} /\ pc'[p] \notin InEvict \cup {"install"}
  BY <1>2, <1>4, Zenon DEF InEvict
<1>8. OnlyPage(p, p, g)
  BY <1>4, <1>5, <1>6, <1>7, SameFrames, Zenon DEF OnlyPage
<1>9. \A x \in Table : ~(x.p = p /\ x.g = g)
  BY <1>1, <1>2, Zenon DEF IInv, Filling
<1>10. CASE NoEvictor(p, g)
  <2>1. NoEvictor(p, g)'
    BY <1>4, <1>6, <1>7, <1>10, Zenon DEF NoEvictor
  <2>2. Stored(p, g) /\ Stored(p, g)'
    BY <1>5, <1>7, <1>9, <1>10, <2>1, Zenon DEF Stored, Framed, Own, Installing
  <2> QED BY <1>3, <1>6, <1>8, <2>2, StoredKept, OnlyPageKept, Zenon
<1>11. ASSUME NEW r \in Proc, Takes(r, p, g)
       PROVE  AllKept
  <2>1. Takes(r, p, g)'
    BY <1>4, <1>6, <1>7, <1>11, Zenon DEF Takes
  <2>2. ValueOf(p, g) /\ ValueOf(p, g)' /\ Kind[g] = "map"
    BY <1>1, <1>2, <1>3, Zenon DEF ValuesOf, IInv, Ends, EndOf, Unmapping
  <2>3. Value(p, g) = content[ev[r].f][3]
    BY <1>11, <2>2, Zenon DEF ValueOf
  <2>4. Value(p, g)' = content'[ev'[r].f][3]
    BY <2>1, <2>2, Zenon DEF ValueOf
  <2> QED BY <1>3, <1>6, <1>8, <2>3, <2>4, OnlyPageKept, Zenon DEF Kept
<1> QED BY <1>10, <1>11, Zenon DEF NoEvictor, Takes

\* process_exit finds no page left.
LEMMA EndKept ==
  ASSUME IInv, ValuesOf, ValuesOf', NEW p \in Proc, process_exit(p)
  PROVE  AllKept
<1>1. /\ pc[p] = "destroy" /\ pc' = [pc EXCEPT ![p] = "dead"] /\ \A g \in Page : spt[p][g] = None
      /\ pte' = [pte EXCEPT ![p] = [g \in Page |-> [f |-> None, A |-> FALSE, D |-> FALSE]]]
      /\ UNCHANGED <<spt, frame_table, content, swap, file, ld, ev>>
  BY Zenon DEF process_exit, Running, Goto
<1>2. \A g \in Page : pte[p][g].f = None
  BY <1>1, SMTT(30) DEF IInv, HasEntry, EntryOf
<1>3. \A q \in Proc, h \in Page : pte'[q][h].f = pte[q][h].f
  <2>1. \A h \in Page : pte'[p][h].f = None
    BY <1>1, Zenon DEF IInv, Typed, TypeOK
  <2>2. \A q \in Proc \ {p} : pte'[q] = pte[q]
    BY <1>1, Zenon DEF IInv, Typed, TypeOK
  <2> QED BY <1>2, <2>1, <2>2, Zenon
<1>4. pc'[p] = "dead" /\ \A q \in Proc \ {p} : pc'[q] = pc[q]
  BY <1>1, LocalTypes, Zenon
<1>5. \A q \in Proc : /\ pc'[q] \in InEvict <=> pc[q] \in InEvict
                      /\ pc'[q] = "install" <=> pc[q] = "install"
  BY <1>1, <1>4, Zenon DEF InEvict
<1>6. /\ spt' = spt /\ frame_table' = frame_table /\ content' = content /\ swap' = swap
      /\ file' = file /\ ld' = ld /\ ev' = ev
  BY <1>1, Zenon
<1>7. ASSUME NEW q \in Proc, NEW h \in Page PROVE Untouched(q, h)
  <2>1. \A x \in Table' : x.p = q /\ x.g = h => Own(q, h, x.f)
    BY <1>6, SameFrames, Zenon
  <2>2. \A x \in Table : x.p = q /\ x.g = h => Own(q, h, x.f)'
    BY <1>6, SameFrames, Zenon
  <2> QED BY <1>3, <1>5, <1>6, <2>1, <2>2, Zenon DEF Untouched, Takes, Installing, InSwap
<1> QED BY <1>7, UntouchedKept, Zenon DEF AllKept, ValuesOf

\* The flag of an entry changes, and nothing a page is read from.
LEMMA PinKept ==
  ASSUME IInv, ValuesOf, ValuesOf', NEW p \in Proc, frame_pin(p)
  PROVE  AllKept
<1>1. PICK i, f, l, b : /\ f = ld[p].f /\ i = find_frame(f) /\ b = (pc[p] = "pin_walk")
                        /\ l = IF b THEN "sys" ELSE "user"
  BY Zenon
<1>2. pc[p] \in {"pin_walk", "unpin_walk"} /\ b \in BOOLEAN
  BY <1>1, Zenon DEF frame_pin
<1>3. CASE i # 0 /\ ~Holds(p, ld[p].g, f)
  <2>1. Stop("stolen_frame")
    BY <1>1, <1>3, Zenon DEF frame_pin
  <2> QED BY <2>1, StopKept, Zenon DEF Stop, StopIn
<1>4. CASE ~(i # 0 /\ ~Holds(p, ld[p].g, f))
  <2>1. /\ frame_table' = IF i = 0 THEN frame_table ELSE [frame_table EXCEPT ![i].pinned = b]
        /\ pc' = [pc EXCEPT ![p] = l]
        /\ ld' = [ld EXCEPT ![p] = ld'[p]]
        /\ UNCHANGED <<spt, pte, content, swap, file, ev>>
    BY <1>1, <1>4, LocalTypes, Zenon DEF frame_pin, Goto
  <2>2. /\ pc'[p] = l /\ \A q \in Proc \ {p} : pc'[q] = pc[q] /\ ld'[q] = ld[q]
    BY <2>1, LocalTypes, Zenon
  <2>3. /\ spt' = spt /\ pte' = pte /\ content' = content /\ swap' = swap /\ file' = file /\ ev' = ev
    BY <2>1, Zenon
  <2>4. pc[p] \notin InEvict \cup {"install"} /\ pc'[p] \notin InEvict \cup {"install"}
    BY <1>1, <1>2, <2>2, Zenon DEF InEvict
  <2>5. /\ \A x \in Table : Own(x.p, x.g, x.f)'
        /\ \A x \in Table' : Own(x.p, x.g, x.f)
    <3>1. CASE i = 0
      BY <2>1, <2>3, <3>1, SameFrames, Zenon
    <3>2. CASE i # 0
      <4>1. frame_table \in Seq(FrameEntry) /\ i \in DOMAIN frame_table
        BY <1>1, <3>2, FindFrame, Types, Zenon DEF IInv
      <4>2. PICK y, z : y = frame_table[i] /\ z = [y EXCEPT !.pinned = b]
        BY Zenon
      <4>3. Table' = (Table \ {y}) \cup {z}
        BY <1>2, <2>1, <3>2, <4>1, <4>2, Replaced, Zenon DEF IInv
      <4>4. y \in FrameEntry /\ y \in Table
        BY <4>1, <4>2, SMTT(30) DEF Table
      <4>5. z.f = y.f /\ z.p = y.p /\ z.g = y.g
        BY <4>2, <4>4, Zenon DEF FrameEntry
      <4>6. \A x \in Table : \E w \in Table' : w.p = x.p /\ w.g = x.g /\ w.f = x.f
        BY <4>3, <4>5, Zenon
      <4>7. \A x \in Table' : \E w \in Table : w.p = x.p /\ w.g = x.g /\ w.f = x.f
        BY <4>3, <4>4, <4>5, Zenon
      <4> QED BY <4>6, <4>7, Zenon DEF Own
    <3> QED BY <3>1, <3>2, Zenon
  <2>6. ASSUME NEW q \in Proc, NEW h \in Page PROVE Untouched(q, h)
    <3>1. \A r \in Proc : Takes(r, q, h)' <=> Takes(r, q, h)
      BY <2>2, <2>3, <2>4, Zenon DEF Takes
    <3>2. (Installing(q, h)' <=> Installing(q, h)) /\ (Installing(q, h) => ld'[q].f = ld[q].f)
      BY <2>2, <2>4, Zenon DEF Installing
    <3> QED BY <2>3, <2>5, <3>1, <3>2, Zenon DEF Untouched, InSwap
  <2> QED BY <2>6, UntouchedKept, Zenon DEF AllKept, ValuesOf
<1> QED BY <1>3, <1>4, Zenon

\* evict_frame takes a page from its frame, and holds what was in it.
LEMMA TakeKept ==
  ASSUME IInv, ValuesOf, ValuesOf', NEW p \in Proc, NEW j \in DOMAIN frame_table, NEW v, NEW W,
         TakeFrame(p, j, v, W)
  PROVE  AllKept
<1>1. PICK o, g, f : /\ o = v.p /\ g = v.g /\ f = v.f
                     /\ pc[p] = "alloc" /\ v = frame_table[j]
                     /\ ~(pc[o] \in {"fill", "install", "record"} /\ ld[o].f = f)
  BY ZenonT(30) DEF TakeFrame
<1>2. /\ frame_table \in Seq(FrameEntry) /\ Distinct /\ v \in Table
      /\ o \in Proc /\ g \in Page /\ f \in Frame /\ f # None
  BY <1>1, Types, Refers, Zenon DEF IInv, Table
<1>3. Table' = Table \ {v}
  BY <1>1, <1>2, Removed, Zenon DEF TakeFrame
<1>4. pte[o][g].f = f
  BY <1>1, <1>2, Zenon DEF IInv, TableOwned
<1>5. \A q \in Proc, h \in Page : (q # o \/ h # g) => pte'[q][h].f = pte[q][h].f
  BY <1>1, Zenon DEF TakeFrame
<1>6. pc'[p] = "evict_find" /\ \A q \in Proc \ {p} : pc'[q] = pc[q]
  BY LocalTypes, Zenon DEF TakeFrame
<1>7. /\ ev'[p].p = o /\ ev'[p].g = g /\ ev'[p].f = f
      /\ \A q \in Proc \ {p} : ev'[q] = ev[q]
  BY <1>1, Zenon DEF TakeFrame, IInv, Typed, TypeOK
<1>8. spt' = spt /\ content' = content /\ swap' = swap /\ file' = file /\ ld' = ld
  BY Zenon DEF TakeFrame
<1>9. pc[p] \notin InEvict /\ pc[p] # "install" /\ pc'[p] \in InEvict /\ pc'[p] # "install"
  BY <1>1, <1>6, Zenon DEF InEvict
<1>10. OnlyPage(p, o, g)
  <2>1. \A x \in Table : (x.p # o \/ x.g # g) => Own(x.p, x.g, x.f)'
    BY <1>1, <1>3, Zenon DEF Own
  <2>2. \A x \in Table' : Own(x.p, x.g, x.f)
    BY <1>3, Zenon DEF Own
  <2> QED BY <1>5, <1>6, <1>7, <1>8, <1>9, <2>1, <2>2, Zenon DEF OnlyPage
<1>11. ValueOf(o, g) /\ ValueOf(o, g)'
  BY <1>2, Zenon DEF ValuesOf
<1>12. Framed(o, g) /\ Takes(p, o, g)'
  BY <1>1, <1>2, <1>4, <1>7, <1>9, Zenon DEF Framed, Own, Takes
<1> SUFFICES Kept(o, g)
  BY <1>2, <1>10, OnlyPageKept, Zenon
<1> SUFFICES ASSUME Kind[g] = "map" \/ (Alive(o)' <=> Alive(o)) PROVE Value(o, g)' = Value(o, g)
  BY Zenon DEF Kept
<1>13. CASE ~Alive(o) /\ Kind[g] # "map"
  BY <1>11, <1>13, Zenon DEF ValueOf
<1>14. CASE Alive(o) \/ Kind[g] = "map"
  <2>1. Value(o, g) = content[pte[o][g].f][3]
    BY <1>11, <1>12, <1>14, Zenon DEF ValueOf
  <2>2. Value(o, g)' = content'[ev'[p].f][3]
    BY <1>11, <1>12, <1>14, Zenon DEF ValueOf
  <2> QED BY <1>4, <1>7, <1>8, <2>1, <2>2, Zenon
<1> QED BY <1>13, <1>14, Zenon

\* evict_frame takes the frame; the contents stay in it until they are moved.
LEMMA EvictKept ==
  ASSUME IInv, ValuesOf, ValuesOf', NEW p \in Proc, evict_frame(p)
  PROVE  AllKept
<1>1. CASE \E o \in Outcome : Stop(o)
  BY <1>1, StopKept, Zenon DEF Stop, StopIn
<1>2. CASE \E j \in DOMAIN frame_table : \E v, W : TakeFrame(p, j, v, W)
  BY <1>2, TakeKept, Zenon
<1> QED BY <1>1, <1>2, EvictTakes, Zenon

\* The frame and the slot of a page of an ending process are given back.
LEMMA DestroyKept ==
  ASSUME IInv, Looked, ValuesOf, ValuesOf', NEW p \in Proc, spt_destroy_func(p)
  PROVE  AllKept
<1>1. PICK g, f, s, b : /\ g = ld[p].g /\ f = ld[p].f /\ s = spt[p][g].slot
                        /\ b = (spt[p][g].type = "SWAP" /\ s # 0)
  BY Zenon
<1>2. pc[p] = "destroy_free"
  BY Zenon DEF spt_destroy_func, Running
<1>3. CASE \/ Evicting(p, g) # {}
           \/ f # None /\ (~Holds(p, g, f) \/ Walked(p))
           \/ b /\ swap[s] # None /\ swap[s][1] # p
  <2>1. \E o \in Windows : Stop(o)
    BY <1>1, <1>3, Zenon DEF spt_destroy_func, Windows
  <2> QED BY <2>1, StopKept, Zenon DEF Stop, StopIn
<1>4. CASE /\ Evicting(p, g) = {}
           /\ f # None => Holds(p, g, f) /\ ~Walked(p)
           /\ b /\ swap[s] # None => swap[s][1] = p
  <2>1. /\ pte' = [pte EXCEPT ![p][g].f = None]
        /\ IF f = None THEN UNCHANGED <<frameVars, content>> ELSE frame_free(f)
        /\ swap' = IF b THEN [swap EXCEPT ![s] = None] ELSE swap
        /\ spt' = [spt EXCEPT ![p][g] = None]
        /\ ld' = [ld EXCEPT ![p] = Idle(p)] /\ pc' = [pc EXCEPT ![p] = "destroy"]
        /\ UNCHANGED <<file, ev, touches, outcome>>
    BY <1>1, <1>4, Zenon DEF spt_destroy_func, pagedir_clear_page, Goto, swap_free
  <2>2. g \in Page /\ spt[p][g] # None /\ ~Alive(p) /\ Kind[g] # "map"
    BY <1>1, <1>2, LocalTypes, Zenon DEF IInv, Ends, EndOf, Alive, Ending
  <2>3. \A q \in Proc, h \in Page : b /\ Is(q, h, swap[s]) => q = p
    BY <1>4, Zenon DEF Is
  <2>4. /\ pc'[p] = "destroy" /\ \A q \in Proc \ {p} : pc'[q] = pc[q] /\ ld'[q] = ld[q]
    BY <2>1, LocalTypes, Zenon
  <2>5. \A q \in Proc, h \in Page : (q # p \/ h # g) => pte'[q][h] = pte[q][h] /\ spt'[q][h] = spt[q][h]
    BY <2>1, <2>2, Zenon DEF IInv, Typed, TypeOK
  <2>6. \A k \in Slot : (~b \/ k # s) => swap'[k] = swap[k]
    BY <2>1, Zenon DEF IInv, Typed, TypeOK
  <2>7. file' = file /\ ev' = ev
    BY <2>1, Zenon
  <2>8. /\ pc[p] \notin InEvict \cup {"install"} /\ pc'[p] \notin InEvict \cup {"install"}
        /\ Hand(p)' <=> Hand(p)
    BY <1>2, <2>4, Zenon DEF InEvict, Hand
  <2>9. SameHands
    BY <2>4, <2>7, <2>8, Zenon DEF SameHands, Hand
  <2>10. /\ Table' \subseteq Table /\ \A x \in Table : (x.p # p \/ x.g # g) => x \in Table'
         /\ \A y \in Table' : content'[y.f] = content[y.f]
         /\ \A q \in Proc : pc[q] \in InEvict => content'[ev[q].f] = content[ev[q].f]
    BY <1>1, <1>2, <1>4, <2>1, <2>9, Emptied, ZenonT(30)
  <2>11. ASSUME NEW q \in Proc, NEW h \in Page, q # p \/ h # g, Resting(q, h), Alive(q)
         PROVE  swap'[spt[q][h].slot] = swap[spt[q][h].slot]
    <3>1. q # p
      BY <2>2, <2>11, Zenon
    <3>2. Is(q, h, swap[spt[q][h].slot]) /\ spt[q][h].slot \in Slot
      <4>1. Is(q, h, swap[spt[q][h].slot])
        BY <2>11, Zenon DEF IInv, Swapped, SlotHolds
      <4>2. spt[q][h].slot \in Slot
        BY <2>11, Zenon DEF IInv, Kinds, KindOf, Resting
      <4> QED BY <4>1, <4>2, Zenon
    <3> QED BY <2>3, <2>6, <3>1, <3>2, Zenon
  <2>12. OnlyPage(p, p, g)
    <3>1. \A x \in Table : (x.p # p \/ x.g # g) => Own(x.p, x.g, x.f)'
      BY <2>10, Zenon DEF Own
    <3>2. \A x \in Table' : Own(x.p, x.g, x.f)
      BY <2>10, Zenon DEF Own
    <3>3. \A x \in Table : (x.p # p \/ x.g # g) => content'[x.f] = content[x.f]
      BY <2>10, Zenon
    <3> QED BY <2>4, <2>5, <2>7, <2>8, <2>10, <2>11, <3>1, <3>2, <3>3, ZenonT(30) DEF OnlyPage
  <2>13. ~Alive(p)'
    BY <2>4, Zenon DEF Alive
  <2>14. ValueOf(p, g) /\ ValueOf(p, g)'
    BY <2>2, Zenon DEF ValuesOf
  <2>15. Value(p, g) = 0 /\ Value(p, g)' = 0
    BY <2>2, <2>13, <2>14, Zenon DEF ValueOf
  <2> QED BY <2>2, <2>12, <2>15, OnlyPageKept, Zenon DEF Kept
<1> QED BY <1>3, <1>4, Zenon

\* Every page reads as before and no process ends.
LEMMA SameRefines ==
  ASSUME AllKept, \A q \in Proc : Alive(q)' <=> Alive(q)
  PROVE  UserMemoryStep
<1> DEFINE mem == [q \in Proc |-> [h \in Page |-> Value(q, h)]]
           alive == [q \in Proc |-> Alive(q)]
<1>1. \A q \in Proc : Alive(q)' = Alive(q)
  BY Zenon DEF Alive
<1>2. \A q \in Proc, h \in Page : Value(q, h)' = Value(q, h)
  BY Zenon DEF AllKept, Kept
<1>3. mem' = mem /\ alive' = alive
  BY <1>1, <1>2, Zenon
<1> QED BY <1>3, Zenon DEF UserMemoryStep

\* An access to a page that is present is a write of the user's memory, or a read.
LEMMA ReachRefines ==
  ASSUME IInv, ValuesOf, ValuesOf', NEW p \in Proc, NEW g \in Page, Mapped(p, g), Reach(p, g),
         \/ pc[p] = "user" /\ pc' = pc /\ ld' = ld
         \/ /\ pc[p] = "sys" /\ g = ld[p].g /\ pc' = [pc EXCEPT ![p] = "unpin"]
            /\ ld' = [ld EXCEPT ![p].f = pte[p][g].f],
         UNCHANGED <<spt, frameVars, swap, file, ev>>
  PROVE  UserMemoryStep
<1>1. PICK f : f = pte[p][g].f
  BY Zenon
<1>2. f # None /\ Own(p, g, f)
  BY <1>1, Zenon DEF Mapped, pagedir_get_page, IInv, Present
<1>3. PICK x0 \in Table : x0.p = p /\ x0.g = g /\ x0.f = f
  BY <1>2, Zenon DEF Own
<1>4. f \in Frame /\ NoEvictor(p, g) /\ \A x \in Table : x.f = f => x.p = p /\ x.g = g
  BY <1>3, Refers, Registered, Unique, <1>2, Zenon DEF IInv
<1>5. /\ pte'[p][g].f = f
      /\ \A q \in Proc, h \in Page : (q # p \/ h # g) => pte'[q][h] = pte[q][h]
  <2>1. pte \in [Proc -> [Page -> [f : Frame \cup {None}, A : BOOLEAN, D : BOOLEAN]]]
    BY Zenon DEF IInv, Typed, TypeOK
  <2>2. pte[p][g] \in [f : Frame \cup {None}, A : BOOLEAN, D : BOOLEAN]
    BY <2>1, Zenon
  <2>3. PICK e : e = [pte[p][g] EXCEPT !.A = TRUE, !.D = @ \/ Kind[g] # "code"]
    BY Zenon
  <2>4. e.f = f
    BY <1>1, <2>2, <2>3, Zenon
  <2>5. pte' = [pte EXCEPT ![p][g] = e]
    BY <2>1, <2>3, ZenonT(30) DEF Reach
  <2> QED BY <2>1, <2>4, <2>5, Zenon
<1>6. /\ \A k \in Frame \ {f} : content'[k] = content[k]
      /\ Kind[g] # "code" => content'[f] = <<p, g, 1>>
      /\ Kind[g] = "code" => content'[f] = content[f]
  BY <1>1, <1>4, Zenon DEF Reach, IInv, Typed, TypeOK
<1>7. spt' = spt /\ frame_table' = frame_table /\ swap' = swap /\ file' = file /\ ev' = ev /\ Table' = Table
  BY SMTT(30) DEF frameVars, Table
<1>8. /\ pc[p] \in {"user", "sys"} /\ pc'[p] \in {"user", "unpin"}
      /\ \A q \in Proc \ {p} : pc'[q] = pc[q] /\ ld'[q] = ld[q]
  BY LocalTypes, Zenon
<1>9. pc[p] \notin InEvict \cup {"install"} /\ pc'[p] \notin InEvict \cup {"install"}
  BY <1>8, Zenon DEF InEvict
<1>10. Alive(p) /\ Alive(p)' /\ \A q \in Proc : Alive(q)' <=> Alive(q)
  BY <1>8, Zenon DEF Alive
<1>11. OnlyPage(p, p, g)
  <2>1. \A x \in Table : (x.p # p \/ x.g # g) => content'[x.f] = content[x.f]
    BY <1>4, <1>6, Refers, Zenon
  <2>2. \A q \in Proc \ {p} : pc[q] \in InEvict => content'[ev[q].f] = content[ev[q].f]
    <3> SUFFICES ASSUME NEW q \in Proc, pc[q] \in InEvict PROVE content'[ev[q].f] = content[ev[q].f]
      BY Zenon
    <3>1. ev[q].f \in Frame /\ \A x \in Table : x.f # ev[q].f
      BY Refers, Zenon DEF IInv, Partition, Hand
    <3> QED BY <1>3, <1>6, <3>1, Zenon
  <2>3. \A x \in Table : Own(x.p, x.g, x.f) /\ Own(x.p, x.g, x.f)'
    BY <1>7, Zenon DEF Own
  <2> QED BY <1>5, <1>7, <1>8, <1>9, <2>1, <2>2, <2>3, Zenon DEF OnlyPage
<1>12. Framed(p, g) /\ Framed(p, g)'
  <2>1. Own(p, g, f)' /\ (Own(p, g, f)' <=> Own(p, g, pte[p][g].f)')
    BY <1>2, <1>5, <1>7, Zenon DEF Own
  <2> QED BY <1>1, <1>2, <1>5, <2>1, Zenon DEF Framed
<1>13. ValueOf(p, g) /\ ValueOf(p, g)'
  BY Zenon DEF ValuesOf
<1>14. Value(p, g) = content[pte[p][g].f][3]
  BY <1>10, <1>12, <1>13, Zenon DEF ValueOf
<1>15. Value(p, g)' = content'[pte'[p][g].f][3]
  BY <1>10, <1>12, <1>13, Zenon DEF ValueOf
<1>16. CASE Kind[g] = "code"
  <2>1. Kept(p, g)
    BY <1>1, <1>5, <1>6, <1>14, <1>15, <1>16, Zenon DEF Kept
  <2> QED BY <1>10, <1>11, <2>1, OnlyPageKept, SameRefines, Zenon
<1>17. CASE Kind[g] # "code"
  <2>1. Value(p, g)' = 1
    BY <1>5, <1>6, <1>15, <1>17, SMTT(30)
  <2>2. \A q \in Proc, h \in Page : (q # p \/ h # g) => Kept(q, h)
    BY <1>11, OthersKept, Zenon
  <2> QED BY <1>10, <2>1, <2>2, WrittenRefines, Zenon
<1> QED BY <1>16, <1>17, Zenon

\* An instruction is a read or a write of UserMemory, or a page fault.
LEMMA AccessRefines ==
  ASSUME IInv, ValuesOf, ValuesOf', NEW p \in Proc, NEW g \in Page, Access(p, g)
  PROVE  AllKept \/ UserMemoryStep
<1>1. CASE Mapped(p, g)
  <2>1. /\ Reach(p, g) /\ pc[p] = "user" /\ pc' = pc /\ ld' = ld
        /\ UNCHANGED <<spt, frameVars, swap, file, ev>>
    BY <1>1, Zenon DEF Access, Running
  <2> QED BY <1>1, <2>1, ReachRefines, Zenon
<1>2. CASE ~Mapped(p, g)
  <2>1. page_fault(p, g, "user") /\ pc[p] \notin InEvict \cup {"install"}
    BY <1>2, Zenon DEF Access, Running, InEvict
  <2> QED BY <2>1, FaultKept, Zenon
<1> QED BY <1>1, <1>2, Zenon

\* A system call's copy is a write of UserMemory to its own buffer.
LEMMA CopyRefines ==
  ASSUME IInv, ValuesOf, ValuesOf', NEW p \in Proc, SysCopy(p)
  PROVE  AllKept \/ UserMemoryStep
<1>1. PICK g : g = ld[p].g
  BY Zenon
<1>2. g \in Page /\ pc[p] = "sys"
  BY <1>1, LocalTypes, Zenon DEF SysCopy, Running
<1>3. CASE Mapped(p, g)
  <2>1. /\ Reach(p, g) /\ ld' = [ld EXCEPT ![p].f = pte[p][g].f] /\ pc' = [pc EXCEPT ![p] = "unpin"]
        /\ UNCHANGED <<spt, frameVars, swap, file, ev>>
    BY <1>1, <1>3, Zenon DEF SysCopy, Goto
  <2> QED BY <1>1, <1>2, <1>3, <2>1, ReachRefines, Zenon
<1>4. CASE ~Mapped(p, g)
  <2>1. page_fault(p, g, "sys") /\ pc[p] \notin InEvict \cup {"install"}
    BY <1>1, <1>2, <1>4, Zenon DEF SysCopy, InEvict
  <2> QED BY <1>2, <2>1, FaultKept, Zenon
<1> QED BY <1>3, <1>4, Zenon

\* A process that has begun to end does not come back.
LEMMA AliveStep ==
  ASSUME IInv, NEW p \in Proc, UserStep(p) \/ KernelStep(p)
  PROVE  /\ Alive(p)' => Alive(p)
         /\ \A q \in Proc \ {p} : Alive(q)' <=> Alive(q)
<1>1. \A q \in Proc \ {p} : Alive(q)' <=> Alive(q)
  <2>1. \A q \in Proc \ {p} : pc'[q] = pc[q] /\ ld'[q] = ld[q]
    <3>1. CASE Others(p)
      BY <3>1, Zenon DEF Others
    <3>2. CASE DestroyLook(p)
      <4>1. PICK r, l : ld' = [ld EXCEPT ![p] = r] /\ pc' = [pc EXCEPT ![p] = l]
        BY <3>2, LocalTypes, Zenon DEF DestroyLook, Goto
      <4> QED BY <4>1, LocalTypes, Zenon
    <3> QED BY <3>1, <3>2, OthersStay, Zenon
  <2> QED BY <2>1, Zenon DEF Alive
<1>2. SUFFICES ASSUME ~Alive(p) PROVE ~Alive(p)'
  BY <1>1, Zenon
<1>3. /\ pc[p] \in {"exit", "destroy", "destroy_free", "dead"} \cup Unmapping
      /\ pc[p] \in Unmapping => ld[p].then = "exit"
  BY <1>2, Zenon DEF Alive, Unmapping
<1>4. ASSUME NEW o, Stop(o) PROVE ~Alive(p)'
  BY <1>2, <1>4, Zenon DEF Stop, StopIn, Alive
<1>5. ASSUME NEW l \in Unmapping, pc' = [pc EXCEPT ![p] = l], ld'[p].then = "exit"
      PROVE  ~Alive(p)'
  BY <1>5, LocalTypes, Zenon DEF Alive, Unmapping
<1>6. ASSUME NEW l \in {"exit", "destroy", "destroy_free", "dead"}, pc' = [pc EXCEPT ![p] = l]
      PROVE  ~Alive(p)'
  BY <1>6, LocalTypes, Zenon DEF Alive
<1>7. ASSUME NEW g \in Page, mmap_unmap(p, g) PROVE ~Alive(p)'
  <2>1. pc[p] = "exit" /\ ld'[p].then = "exit"
    BY <1>3, <1>7, LocalTypes, Zenon DEF mmap_unmap, Unmapping
  <2>2. \E l \in Unmapping : pc' = [pc EXCEPT ![p] = l]
    BY <1>7, Zenon DEF mmap_unmap, Goto, Unmapping
  <2> QED BY <1>5, <2>1, <2>2, Zenon
<1>8. ASSUME UnmapWrite(p) \/ UnmapFree(p) \/ UnmapClear(p) PROVE ~Alive(p)'
  <2>1. pc[p] \in Unmapping
    BY <1>8, Zenon DEF UnmapWrite, UnmapFree, UnmapClear, Running, Unmapping
  <2>2. \/ Stop("stolen_frame") \/ Stop("walk")
        \/ ld' = ld /\ \E l \in Unmapping : pc' = [pc EXCEPT ![p] = l]
    BY <1>8, Zenon DEF UnmapWrite, UnmapFree, UnmapClear, Goto, Unmapping
  <2> QED BY <1>3, <1>4, <1>5, <2>1, <2>2, Zenon
<1>9. ASSUME spt_remove_entry(p) PROVE ~Alive(p)'
  <2>1. ld[p].then = "exit"
    BY <1>3, <1>9, Zenon DEF spt_remove_entry, Running, Unmapping
  <2>2. Stop("freed_entry") \/ pc' = [pc EXCEPT ![p] = "exit"]
    BY <1>9, <2>1, Zenon DEF spt_remove_entry, Goto
  <2> QED BY <1>4, <1>6, <2>2, Zenon
<1>10. ASSUME spt_destroy(p) \/ DestroyLook(p) \/ process_exit(p) PROVE ~Alive(p)'
  <2>1. \E l \in {"exit", "destroy", "destroy_free", "dead"} : pc' = [pc EXCEPT ![p] = l]
    BY <1>10, Zenon DEF spt_destroy, DestroyLook, process_exit, Goto
  <2> QED BY <1>6, <2>1, Zenon
<1>11. ASSUME spt_destroy_func(p) PROVE ~Alive(p)'
  <2>1. (\E o \in Windows : Stop(o)) \/ pc' = [pc EXCEPT ![p] = "destroy"]
    BY <1>11, Zenon DEF spt_destroy_func, Goto, Windows
  <2> QED BY <1>4, <1>6, <2>1, Zenon
<1>12. ~(sys_exit(p) \/ \E g \in Page : Access(p, g) \/ SysBuffer(p, g) \/ mmap_map(p, g))
  BY <1>3, Zenon DEF sys_exit, Access, SysBuffer, mmap_map, Running, Unmapping
<1>13. ~(\/ setup_stack(p) \/ frame_alloc(p) \/ frame_alloc_fails(p) \/ evict_frame(p) \/ EvictFind(p)
         \/ EvictMark(p) \/ EvictWrite(p) \/ swap_out(p) \/ EvictSlot(p) \/ FrameRegister(p))
  <2>1. ASSUME \/ setup_stack(p) \/ frame_alloc(p) \/ frame_alloc_fails(p) \/ evict_frame(p)
               \/ EvictFind(p)
        PROVE  pc[p] \in {"load", "alloc", "evict_find"}
    BY <2>1, Zenon
       DEF setup_stack, frame_alloc, frame_alloc_fails, evict_frame, EvictFind, Running
  <2>2. ASSUME EvictMark(p) \/ EvictWrite(p) \/ swap_out(p) \/ EvictSlot(p) \/ FrameRegister(p)
        PROVE  pc[p] \in {"evict_mark", "evict_write", "swap_out", "evict_slot", "register"}
    BY <2>2, Zenon DEF EvictMark, EvictWrite, swap_out, EvictSlot, FrameRegister, Running
  <2> QED BY <1>3, <2>1, <2>2, Zenon DEF Unmapping
<1>14. ~(\/ PageFill(p) \/ pagedir_set_page(p) \/ pagedir_set_page_fails(p) \/ spt_set_loaded(p)
         \/ PinLook(p) \/ PinWalk(p) \/ frame_pin(p) \/ SysCopy(p))
  <2>1. ASSUME PageFill(p) \/ pagedir_set_page(p) \/ pagedir_set_page_fails(p) \/ spt_set_loaded(p)
        PROVE  pc[p] \in {"fill", "install", "record"}
    BY <2>1, Zenon DEF PageFill, pagedir_set_page, pagedir_set_page_fails, spt_set_loaded, Running
  <2>2. ASSUME PinLook(p) \/ PinWalk(p) \/ frame_pin(p) \/ SysCopy(p)
        PROVE  pc[p] \in {"pin_look", "pin", "unpin", "pin_walk", "unpin_walk", "sys"}
    BY <2>2, Zenon DEF PinLook, PinWalk, frame_pin, SysCopy, Running
  <2> QED BY <1>3, <2>1, <2>2, Zenon DEF Unmapping
<1> QED BY <1>7, <1>8, <1>9, <1>10, <1>11, <1>12, <1>13, <1>14, Zenon DEF UserStep, KernelStep

\* A step of process p is a step of the user's memory.
LEMMA StepRefines ==
  ASSUME IInv, Looked, IInv', NEW p \in Proc, UserStep(p) \/ KernelStep(p)
  PROVE  UserMemoryStep
<1>1. ValuesOf /\ ValuesOf'
  BY ValueLemma, ValueNext, Zenon
<1>2. ASSUME AllKept PROVE UserMemoryStep
  BY <1>1, <1>2, AliveStep, KeptRefines, Zenon DEF AllKept
<1>3. CASE UserStep(p)
  <2>1. ASSUME NEW g \in Page, Access(p, g) PROVE UserMemoryStep
    BY <1>1, <1>2, <2>1, AccessRefines, Zenon
  <2>2. CASE sys_exit(p) \/ \E g \in Page : SysBuffer(p, g) \/ mmap_map(p, g) \/ mmap_unmap(p, g)
    BY <1>1, <1>2, <2>2, QuietSteps, Zenon
  <2> QED BY <1>3, <2>1, <2>2, Zenon DEF UserStep
<1>4. CASE KernelStep(p)
  <2>1. CASE \/ setup_stack(p) \/ frame_alloc_fails(p) \/ EvictFind(p) \/ spt_set_loaded(p)
             \/ PinLook(p) \/ PinWalk(p) \/ spt_remove_entry(p) \/ spt_destroy(p) \/ DestroyLook(p)
             \/ \E g \in Page : mmap_unmap(p, g)
    BY <1>1, <1>2, <2>1, QuietSteps, Zenon
  <2>2. CASE frame_alloc(p) \/ FrameRegister(p)
    BY <1>1, <1>2, <2>2, AllocKept, RegistersKept, Zenon
  <2>3. CASE evict_frame(p) \/ EvictMark(p) \/ EvictWrite(p) \/ swap_out(p) \/ EvictSlot(p)
    BY <1>1, <1>2, <2>3, EvictKept, MarkKept, WriteKept, SwapOutKept, SlotKept, Zenon
  <2>4. CASE PageFill(p) \/ pagedir_set_page(p) \/ pagedir_set_page_fails(p)
    BY <1>1, <1>2, <2>4, FillKept, InstallKept, FailKept, Zenon
  <2>5. CASE frame_pin(p) \/ SysCopy(p)
    BY <1>1, <1>2, <2>5, PinKept, CopyRefines, Zenon
  <2>6. CASE UnmapWrite(p) \/ UnmapFree(p) \/ UnmapClear(p)
    BY <1>1, <1>2, <2>6, UnmapWriteKept, UnmapFreeKept, ClearKept, Zenon
  <2>7. CASE spt_destroy_func(p) \/ process_exit(p)
    BY <1>1, <1>2, <2>7, DestroyKept, EndKept, Zenon
  <2> QED BY <1>4, <2>1, <2>2, <2>3, <2>4, <2>5, <2>6, <2>7, Zenon DEF KernelStep
<1> QED BY <1>3, <1>4, Zenon
==============================================================================
