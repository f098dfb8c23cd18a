---------------------------- MODULE MemoryLemmas -----------------------------
(***************************************************************************)
(* The invariant behind FramesOwned, SlotsClaimed, PinnedStays and the     *)
(* refinement of UserMemory, and the lemmas about the operators of Memory  *)
(* that several of its proofs use.                                         *)
(***************************************************************************)
EXTENDS Memory, TLAPS

\* The functions a process can be in, by what they have to do with its pages.
Seeking == {"alloc", "register"} \cup InEvict           \* spt_load_page, without a frame yet

Loading == Seeking \cup {"fill", "install", "record"}   \* spt_load_page

Unmapping == {"unmap_write", "unmap_free", "unmap_clear", "unmap_remove"}

Ending == {"destroy", "destroy_free", "dead"}

PC == Loading \cup Unmapping \cup Ending
        \cup {"load", "user", "exit", "pin_look", "pin", "pin_walk", "unpin", "unpin_walk", "sys"}

\* A thread that has taken a frame from its owner and not yet registered it.
Hand(q) == pc[q] \in InEvict \cup {"register"}

\* The frame table as a set, and whether frame f is in it for page g of p.
Table == {frame_table[i] : i \in DOMAIN frame_table}

Own(p, g, f) == \E x \in Table : x.p = p /\ x.g = g /\ x.f = f

\* The contents c are those of page g of p.
Is(p, g, c) == c # None /\ c[1] = p /\ c[2] = g

Typed ==
  /\ TypeOK
  /\ pc \in [Proc -> PC]
  /\ \A p \in Proc : /\ ld[p].g \in Layout[p]
                     /\ pc[p] \in Loading => ld[p].then # "exit"
                     /\ pc[p] \in Unmapping => ld[p].then \in {"user", "exit"}
                     /\ Hand(p) <=> ev[p] # None

\* FramesAccounted without counting.
Distinct ==
  \A i, j \in DOMAIN frame_table : frame_table[i].f = frame_table[j].f => i = j

Partition ==
  /\ \A x \in Table : x.f \notin free_frames
  /\ \A q \in Proc : Hand(q) => ev[q].f \notin free_frames /\ \A x \in Table : x.f # ev[q].f
  /\ \A q, r \in Proc : Hand(q) /\ Hand(r) /\ ev[q].f = ev[r].f => q = r
  /\ \A f \in Frame : \/ f \in free_frames
                      \/ \E x \in Table : x.f = f
                      \/ \E q \in Proc : Hand(q) /\ ev[q].f = f
  /\ clock_hand \in Frame => \E x \in Table : x.f = clock_hand

\* An entry of the frame table is for a page that is present, or about to be;
\* a present page has an entry.
TableOwned ==
  \A x \in Table : \/ pte[x.p][x.g].f = x.f
                   \/ pc[x.p] \in {"fill", "install"} /\ ld[x.p].f = x.f /\ ld[x.p].g = x.g

Present ==
  \A p \in Proc, g \in Page :
    pte[p][g].f # None => Own(p, g, pte[p][g].f) \/ (pc[p] = "unmap_clear" /\ ld[p].g = g)

Filling ==
  \A p \in Proc :
    /\ pc[p] \in {"fill", "install", "record"} => Own(p, ld[p].g, ld[p].f)
    /\ pc[p] \in Seeking \cup {"fill", "install", "unmap_remove"} => pte[p][ld[p].g].f = None
    /\ pc[p] = "record" => pte[p][ld[p].g].f = ld[p].f
    /\ pc[p] = "unmap_clear" => \A x \in Table : ~(x.p = p /\ x.g = ld[p].g)

\* A page that is present, or being loaded, has an entry in the supplemental
\* page table, marked loaded when it is present.
EntryOf(p, g) ==
  /\ pte[p][g].f # None =>
       spt[p][g] # None /\ (spt[p][g].loaded \/ (pc[p] = "record" /\ ld[p].g = g))
  /\ pc[p] \in Loading /\ ld[p].g = g => spt[p][g] # None /\ ~spt[p][g].loaded
  /\ spt[p][g] # None /\ spt[p][g].loaded /\ Kind[g] # "map" =>
       \/ pte[p][g].f # None
       \/ \E q \in Proc : pc[q] \in {"evict_find", "evict_mark"} /\ ev[q].p = p /\ ev[q].g = g

HasEntry == \A p \in Proc, g \in Page : EntryOf(p, g)

\* A process that starts has no pages; one that ends has unmapped its files.
EndOf(p) ==
  /\ pc[p] = "load" => /\ \A g \in Page : spt[p][g] = None /\ pte[p][g].f = None
                       /\ \A q \in Proc : pc[q] \in InEvict => ev[q].p # p
  /\ pc[p] \in Ending => \A g \in Page : Kind[g] = "map" => spt[p][g] = None
  /\ pc[p] \in Unmapping \cup {"destroy_free"} => spt[p][ld[p].g] # None
  /\ pc[p] \in Unmapping => Kind[ld[p].g] = "map"
  /\ pc[p] = "dead" => \A g \in Page : spt[p][g] = None

Ends == \A p \in Proc : EndOf(p)

\* What evict_frame has taken is gone from the page table, not forgotten by its
\* owner, not being loaded again, and taken once.
EvictOf(q, o, g) ==
  pc[q] \in InEvict /\ ev[q].p = o /\ ev[q].g = g =>
    /\ pte[o][g].f = None /\ spt[o][g] # None
    /\ spt[o][g].loaded <=> pc[q] \in {"evict_find", "evict_mark"}
    /\ ~(pc[o] \in Loading /\ ld[o].g = g)

OneEvictor ==
  \A q, r \in Proc :
    pc[q] \in InEvict /\ pc[r] \in InEvict /\ ev[q].p = ev[r].p /\ ev[q].g = ev[r].g => q = r

Evicts == OneEvictor /\ \A q, o \in Proc, g \in Page : EvictOf(q, o, g)

\* What the type of an entry says about the page.
KindOf(p, g) ==
  /\ spt[p][g] # None =>
       /\ g \in Layout[p]
       /\ Kind[g] = "map" <=> spt[p][g].type = "MMAP"
       /\ Kind[g] = "code" => spt[p][g].type = "FILE"
       /\ spt[p][g].writable <=> Kind[g] # "code"
       /\ spt[p][g].type = "SWAP" => spt[p][g].slot \in Slot
  /\ Kind[g] = "code" => ~pte[p][g].D

EvictKind(q) ==
  /\ Hand(q) /\ Kind[ev[q].g] = "code" => ~ev[q].dirty
  /\ pc[q] = "evict_write" => Kind[ev[q].g] = "map"
  /\ pc[q] \in {"swap_out", "evict_slot"} => Kind[ev[q].g] \notin {"map", "code"}

Kinds == (\A p \in Proc, g \in Page : KindOf(p, g)) /\ \A q \in Proc : EvictKind(q)

\* Every frame holds the page it is registered for, and where the page could be
\* dropped because it is not dirty, the file or the executable has the same.
FrameHolds(x) ==
  /\ pte[x.p][x.g].f = x.f =>
       /\ Is(x.p, x.g, content[x.f])
       /\ ~pte[x.p][x.g].D /\ Kind[x.g] = "map" => content[x.f][3] = file[x.p][x.g]
       /\ Kind[x.g] = "code" => content[x.f][3] = 0
  /\ pc[x.p] = "install" /\ ld[x.p].f = x.f =>
       /\ Is(x.p, x.g, content[x.f])
       /\ spt[x.p][x.g].type # "SWAP" =>
            content[x.f][3] = IF Kind[x.g] = "map" THEN file[x.p][x.g] ELSE 0
  /\ pc[x.p] = "unmap_free" /\ ld[x.p].g = x.g => content[x.f][3] = file[x.p][x.g]

FrameContents == \A x \in Table : FrameHolds(x)

EvictHolds(q) ==
  pc[q] \in InEvict =>
    /\ Is(ev[q].p, ev[q].g, content[ev[q].f])
    /\ Kind[ev[q].g] = "map" /\ ~ev[q].dirty => content[ev[q].f][3] = file[ev[q].p][ev[q].g]
    /\ Kind[ev[q].g] = "code" => content[ev[q].f][3] = 0

EvictContents == \A q \in Proc : EvictHolds(q)

\* Page g of p is in swap slot s, and nobody is moving it.
NoEvictor(p, g) == \A q \in Proc : ~(pc[q] \in InEvict /\ ev[q].p = p /\ ev[q].g = g)

Resting(p, g) ==
  /\ spt[p][g] # None /\ spt[p][g].type = "SWAP" /\ ~spt[p][g].loaded
  /\ ~(pc[p] \in {"install", "record"} /\ ld[p].g = g)
  /\ NoEvictor(p, g)

\* The slot an entry names holds the page, unless the process is ending.
SlotHolds(p, g) == Resting(p, g) /\ Alive(p) => Is(p, g, swap[spt[p][g].slot])

EvictSlots(q) ==
  pc[q] = "evict_slot" =>
    ev[q].slot \in Slot /\ (Alive(ev[q].p) => swap[ev[q].slot] = content[ev[q].f])

Swapped == (\A p \in Proc, g \in Page : SlotHolds(p, g)) /\ \A q \in Proc : EvictSlots(q)

\* A used slot is named by the entry of the page it holds, or about to be.
ClaimOf(s, p, g) ==
  Is(p, g, swap[s]) =>
    \/ Resting(p, g) /\ spt[p][g].slot = s
    \/ \E q \in Proc : pc[q] = "evict_slot" /\ ev[q].p = p /\ ev[q].g = g /\ ev[q].slot = s

Claims == \A s \in Slot \ {0}, p \in Proc, g \in Page : ClaimOf(s, p, g)

\* A frame is pinned exactly while its owner is in the system call on it.
Pins ==
  /\ \A x \in Table :
       x.pinned => pc[x.p] \in {"sys", "unpin", "unpin_walk"} /\ ld[x.p].f = x.f /\ ld[x.p].g = x.g
  /\ \A p \in Proc : pc[p] = "sys" /\ ld[p].f # None =>
       \E x \in Table : x.p = p /\ x.g = ld[p].g /\ x.f = ld[p].f /\ x.pinned

IInv == /\ Typed /\ Distinct /\ Partition /\ TableOwned /\ Present /\ Filling /\ HasEntry /\ Ends
        /\ Evicts /\ Kinds /\ FrameContents /\ EvictContents /\ Swapped /\ Claims /\ Pins

\* Entries of the frame table.
FrameEntry == [f : Frame, p : Proc, g : Page, pinned : BOOLEAN]

\* What the assumptions say about None, which is no frame, entry or contents.
LEMMA NoneIsNothing ==
  /\ None \notin Frame /\ Stale \notin Frame /\ None # Stale
  /\ None \notin Contents /\ None \notin Entry /\ None \notin Victim
BY MemoryAssumption, Zenon

\* The page of the stack is a page of the layout.
LEMMA StackIn ==
  ASSUME NEW p \in Proc
  PROVE  StackPage(p) \in Layout[p] /\ Layout[p] \subseteq Page
BY MemoryAssumption, Zenon DEF StackPage

\* The frame table as a set: what the list operations of frame.c do to it.
LEMMA Appended ==
  ASSUME frame_table \in Seq(FrameEntry), NEW x \in FrameEntry,
         frame_table' = Append(frame_table, x),
         Distinct, \A y \in Table : y.f # x.f
  PROVE  /\ frame_table' \in Seq(FrameEntry) /\ Distinct'
         /\ Table' = Table \cup {x}
<1>1. PICK n \in Nat : n = Len(frame_table)
  BY SMTT(30)
<1>2. /\ DOMAIN frame_table = 1..n /\ DOMAIN frame_table' = 1..n+1
      /\ \A i \in 1..n : frame_table'[i] = frame_table[i]
      /\ frame_table'[n+1] = x
  BY <1>1, SMTT(30)
<1>3. Table' = Table \cup {x}
  BY <1>2, SMTT(30) DEF Table
<1>4. Distinct'
  BY <1>2, SMTT(30) DEF Table, Distinct
<1> QED BY <1>3, <1>4, SMTT(30)

\* list_remove takes one entry out of the table and keeps the others.
LEMMA Removed ==
  ASSUME frame_table \in Seq(FrameEntry), NEW i \in DOMAIN frame_table,
         frame_table' = list_remove(frame_table, i), Distinct
  PROVE  /\ frame_table' \in Seq(FrameEntry) /\ Distinct'
         /\ Table' = Table \ {frame_table[i]}
         /\ frame_table[i] \in Table
<1>1. PICK n \in Nat : n = Len(frame_table)
  BY SMTT(30)
<1>2. i \in 1..n /\ DOMAIN frame_table = 1..n /\ n >= 1
  BY <1>1, SMTT(30)
<1>3. frame_table' = [j \in 1..n-1 |-> IF j < i THEN frame_table[j] ELSE frame_table[j+1]]
  BY <1>1, Zenon DEF list_remove
<1>4. PICK k \in Nat : k = i-1
  BY <1>2, SMTT(30)
<1>5. i = k + 1
  BY <1>2, <1>4, SMTT(30)
<1>6. \A j \in 1..n-1 : frame_table[j] \in FrameEntry /\ frame_table[j+1] \in FrameEntry
  BY <1>1, <1>2, SMTT(30)
<1>7. frame_table' \in Seq(FrameEntry) /\ DOMAIN frame_table' = 1..n-1
  <2>1. n-1 \in Nat /\ frame_table' \in [1..n-1 -> FrameEntry]
    BY <1>2, <1>3, <1>6, SMTT(30)
  <2> QED BY <2>1, SMTT(30)
<1>8. \A j \in 1..k : frame_table'[j] = frame_table[j]
  BY <1>2, <1>3, <1>5, SMTT(30)
<1>9. \A j \in i..n-1 : frame_table'[j] = frame_table[j+1]
  BY <1>2, <1>3, SMTT(30)
<1>10. \A j \in 1..n-1 : \/ j \in 1..k /\ frame_table'[j] = frame_table[j]
                         \/ j \in i..n-1 /\ frame_table'[j] = frame_table[j+1]
  BY <1>2, <1>5, <1>8, <1>9, SMTT(30)
<1>11. Distinct'
  <2> SUFFICES ASSUME NEW j \in 1..n-1, NEW h \in 1..n-1, frame_table'[j].f = frame_table'[h].f
               PROVE  j = h
    BY <1>7, Zenon DEF Distinct
  <2>1. /\ \/ j \in 1..k /\ frame_table'[j] = frame_table[j]
           \/ j \in i..n-1 /\ frame_table'[j] = frame_table[j+1]
        /\ \/ h \in 1..k /\ frame_table'[h] = frame_table[h]
           \/ h \in i..n-1 /\ frame_table'[h] = frame_table[h+1]
    BY <1>10, Zenon
  <2> QED BY <1>2, <1>5, <2>1, SMTT(30) DEF Distinct
<1>12. \A j \in 1..n-1 : frame_table'[j] \in Table \ {frame_table[i]}
  BY <1>2, <1>5, <1>10, SMTT(30) DEF Distinct, Table
<1>13. \A j \in (1..n) \ {i} : \E h \in 1..n-1 : frame_table[j] = frame_table'[h]
  <2> TAKE j \in (1..n) \ {i}
  <2>1. CASE j < i
    BY <1>2, <1>5, <1>8, <2>1, SMTT(30)
  <2>2. CASE j > i
    <3>1. j-1 \in i..n-1 /\ (j-1)+1 = j /\ j-1 \in 1..n-1
      BY <1>2, <2>2, SMTT(30)
    <3> QED BY <1>9, <3>1, Zenon
  <2> QED BY <1>2, <2>1, <2>2, SMTT(30)
<1>14. Table' = Table \ {frame_table[i]}
  <2>1. \A x : x \in Table' => x \in Table \ {frame_table[i]}
    BY <1>7, <1>12, Zenon DEF Table
  <2>2. \A x : x \in Table \ {frame_table[i]} => x \in Table'
    BY <1>2, <1>7, <1>13, Zenon DEF Table
  <2> QED BY <2>1, <2>2, Zenon
<1> QED BY <1>2, <1>7, <1>11, <1>14, Zenon DEF Table

\* Only the flag of one entry changes.
LEMMA Replaced ==
  ASSUME frame_table \in Seq(FrameEntry), NEW i \in DOMAIN frame_table, NEW b \in BOOLEAN,
         frame_table' = [frame_table EXCEPT ![i].pinned = b], Distinct
  PROVE  /\ frame_table' \in Seq(FrameEntry) /\ Distinct'
         /\ Table' = (Table \ {frame_table[i]}) \cup {[frame_table[i] EXCEPT !.pinned = b]}
<1>1. PICK n \in Nat : n = Len(frame_table)
  BY SMTT(30)
<1>2. PICK x \in FrameEntry : x = frame_table[i]
  BY <1>1, SMTT(30)
<1>3. PICK y \in FrameEntry : y = [x EXCEPT !.pinned = b]
  BY Zenon DEF FrameEntry
<1>4. y.f = x.f
  BY <1>3, Zenon DEF FrameEntry
<1>5. /\ DOMAIN frame_table = 1..n /\ DOMAIN frame_table' = 1..n /\ i \in 1..n
      /\ frame_table'[i] = y /\ \A j \in (1..n) \ {i} : frame_table'[j] = frame_table[j]
      /\ frame_table' \in Seq(FrameEntry)
  BY <1>1, <1>2, <1>3, SMTT(30)
<1>6. Distinct'
  BY <1>2, <1>4, <1>5, SMTT(30) DEF Distinct
<1>7. Table' = (Table \ {x}) \cup {y}
  BY <1>2, <1>4, <1>5, SMTT(30) DEF Distinct, Table
<1> QED BY <1>2, <1>3, <1>5, <1>6, <1>7, Zenon

\* No two entries are for one frame.
LEMMA Unique ==
  ASSUME Distinct, NEW x \in Table, NEW y \in Table, x.f = y.f
  PROVE  x = y
BY Zenon DEF Distinct, Table

\* Every element of the table is an entry.
LEMMA TableType ==
  ASSUME frame_table \in Seq(FrameEntry)
  PROVE  Table \subseteq FrameEntry
BY SMTT(30) DEF Table

\* find_frame finds the entry of a frame exactly if there is one.
LEMMA FindFrame ==
  ASSUME frame_table \in Seq(FrameEntry), NEW f
  PROVE  \/ find_frame(f) = 0 /\ \A x \in Table : x.f # f
         \/ /\ find_frame(f) \in DOMAIN frame_table /\ find_frame(f) # 0
            /\ frame_table[find_frame(f)].f = f
            /\ frame_table[find_frame(f)] \in Table
<1> DEFINE at == {i \in DOMAIN frame_table : frame_table[i].f = f}
<1>1. CASE at = {}
  BY <1>1, Zenon DEF find_frame, Table
<1>2. CASE at # {}
  <2>1. find_frame(f) \in at
    BY <1>2, Zenon DEF find_frame
  <2>2. find_frame(f) # 0
    BY <2>1, SMTT(30)
  <2> QED BY <2>1, <2>2, Zenon DEF Table
<1> QED BY <1>1, <1>2, Zenon

\* With distinct frames, the entry find_frame finds is the only one of the frame.
LEMMA HoldsOwn ==
  ASSUME frame_table \in Seq(FrameEntry), Distinct, NEW p, NEW g, NEW f
  PROVE  Holds(p, g, f) <=> Own(p, g, f)
<1>1. CASE find_frame(f) = 0 /\ \A x \in Table : x.f # f
  BY <1>1, Zenon DEF Holds, Own
<1>2. CASE /\ find_frame(f) \in DOMAIN frame_table /\ find_frame(f) # 0
           /\ frame_table[find_frame(f)].f = f
           /\ frame_table[find_frame(f)] \in Table
  <2> DEFINE x == frame_table[find_frame(f)]
  <2>1. Holds(p, g, f) <=> x.p = p /\ x.g = g
    BY <1>2, Zenon DEF Holds
  <2>2. x \in Table /\ x.f = f
    BY <1>2, Zenon
  <2> HIDE DEF x
  <2>3. \A y \in Table : y.f = f => y = x
    BY <2>2, Unique, Zenon
  <2> QED BY <2>1, <2>2, <2>3, Zenon DEF Own
<1> QED BY <1>1, <1>2, FindFrame, Zenon

\* Locals of spt_load_page, mmap_unmap and pin_buffer; outcomes of a step.
Locals == [g : Page, f : Frame \cup {None}, again : BOOLEAN,
           then : {"user", "pin_look", "sys", "exit"}]

Outcome == {"ok"} \cup Windows \cup Panics

\* The types, one index at a time.
LEMMA Types ==
  ASSUME Typed
  PROVE  /\ frame_table \in Seq(FrameEntry) /\ Table \subseteq FrameEntry
         /\ \A p \in Proc, g \in Page :
              /\ spt[p][g] # None => spt[p][g] \in Entry
              /\ pte[p][g].f \in Frame \cup {None}
         /\ \A p \in Proc : /\ pc[p] \in PC /\ ld[p] \in Locals /\ ld[p].g \in Page
                            /\ ld[p].f \in Frame \cup {None}
                            /\ Hand(p) => /\ ev[p] \in Victim /\ ev[p].f \in Frame
                                          /\ ev[p].p \in Proc /\ ev[p].g \in Page
<1>1. frame_table \in Seq(FrameEntry)
  BY Zenon DEF Typed, TypeOK, FrameEntry
<1>2. Table \subseteq FrameEntry
  BY <1>1, TableType, Zenon
<1>3. \A p \in Proc, g \in Page : /\ spt[p][g] # None => spt[p][g] \in Entry
                                  /\ pte[p][g].f \in Frame \cup {None}
  BY SMTT(30) DEF Typed, TypeOK
<1>4. \A p \in Proc : pc[p] \in PC /\ ld[p] \in Locals
  BY Zenon DEF Typed, TypeOK, Locals
<1>5. \A p \in Proc : ld[p].g \in Page /\ ld[p].f \in Frame \cup {None}
  BY <1>4, Zenon DEF Locals
<1>6. \A p \in Proc : Hand(p) => ev[p] \in Victim
  BY Zenon DEF Typed, TypeOK
<1>7. \A v \in Victim : v.f \in Frame /\ v.p \in Proc /\ v.g \in Page
  BY Zenon DEF Victim
<1> QED BY <1>1, <1>2, <1>3, <1>4, <1>5, <1>6, <1>7, Zenon

\* What the entries of the frame table and what evict_frame has taken refer to.
LEMMA Refers ==
  ASSUME IInv
  PROVE  /\ \A x \in Table : x.p \in Proc /\ x.g \in Page /\ x.f \in Frame /\ x.f # None
         /\ \A q \in Proc : pc[q] \in InEvict => ev[q].p \in Proc /\ ev[q].g \in Page /\ ev[q].f \in Frame
<1>1. Table \subseteq FrameEntry /\ \A q \in Proc : Hand(q) => ev[q].p \in Proc /\ ev[q].g \in Page /\ ev[q].f \in Frame
  BY Types, Zenon DEF IInv
<1> QED BY <1>1, NoneIsNothing, Zenon DEF FrameEntry, Hand

\* The functions in which a thread has a frame in its hands, or other state that
\* the invariant speaks of.
Busy == InEvict \cup {"register", "fill", "install", "record", "load", "unmap_clear"}

\* The process p may go on to l, with locals r, neither into one of the busy
\* functions nor out of one, nothing else being changed.
MayGo(p, l, r) ==
  /\ pc[p] \notin Busy /\ l \in PC \ Busy /\ r \in Locals /\ r.g \in Layout[p]
  /\ l = "alloc" => pc[p] = "alloc" /\ r.g = ld[p].g /\ r.then = ld[p].then
  /\ l \in Unmapping => /\ Kind[r.g] = "map" /\ spt[p][r.g] # None
                        /\ r.then \in {"user", "exit"}
  /\ l = "unmap_remove" => pte[p][r.g].f = None
  /\ l = "unmap_free" => \A x \in Table : x.p = p /\ x.g = r.g => content[x.f][3] = file[p][r.g]
  /\ l \in Ending => \A g \in Page : Kind[g] = "map" => spt[p][g] = None
  /\ l = "destroy_free" => spt[p][r.g] # None
  /\ l # "dead"
  /\ \A x \in Table : x.pinned /\ x.p = p =>
       l \in {"sys", "unpin", "unpin_walk"} /\ r.f = x.f /\ r.g = x.g
  /\ l = "sys" /\ r.f # None => \E x \in Table : x.p = p /\ x.g = r.g /\ x.f = r.f /\ x.pinned

\* A step that moves only the thread's place and locals keeps the invariant.
LEMMA LocalStep ==
  ASSUME IInv, NEW p \in Proc, NEW l, NEW r, MayGo(p, l, r),
         pc' = [pc EXCEPT ![p] = l], ld' = [ld EXCEPT ![p] = r],
         UNCHANGED <<spt, pte, frameVars, content, swap, file, ev>>,
         touches' \in [Proc -> Nat], outcome' \in Outcome, Alive(p)' => Alive(p)
  PROVE  IInv'
<1>1. /\ pc \in [Proc -> PC] /\ ld \in [Proc -> Locals]
      /\ TypeOK /\ Typed /\ frame_table \in Seq(FrameEntry) /\ Table \subseteq FrameEntry
  BY Types, Zenon DEF IInv, Typed, TypeOK, Locals
<1>2. /\ pc' \in [Proc -> PC] /\ ld' \in [Proc -> Locals]
      /\ pc'[p] = l /\ ld'[p] = r
      /\ \A q \in Proc \ {p} : pc'[q] = pc[q] /\ ld'[q] = ld[q]
  BY <1>1, Zenon DEF MayGo
<1>3. /\ spt' = spt /\ pte' = pte /\ frame_table' = frame_table /\ clock_hand' = clock_hand
      /\ free_frames' = free_frames /\ content' = content /\ swap' = swap /\ file' = file /\ ev' = ev
      /\ Table' = Table
  BY Zenon DEF frameVars, Table
<1>4. \A q \in Proc : /\ pc'[q] \in InEvict \/ pc[q] \in InEvict => pc'[q] = pc[q]
                      /\ pc'[q] \in Busy \/ pc[q] \in Busy => pc'[q] = pc[q] /\ ld'[q] = ld[q]
                      /\ Hand(q)' <=> Hand(q)
                      /\ Alive(q)' => Alive(q)
  BY <1>2, SMTT(30) DEF Busy, Hand, Alive, MayGo
<1>5. Typed'
  <2>1. TypeOK'
    BY <1>1, <1>2, <1>3, Zenon DEF TypeOK, Locals, Outcome
  <2> QED BY <1>1, <1>2, <1>3, <1>4, <2>1, SMTT(30) DEF MayGo, Typed, Loading, Busy, Seeking
<1>6. Distinct'
  BY <1>3, Zenon DEF IInv, Distinct
<1>7. Partition'
  BY <1>3, <1>4, SMTT(30) DEF IInv, Partition
<1>8. TableOwned'
  BY <1>1, <1>3, <1>4, SMTT(30) DEF IInv, TableOwned, Busy, FrameEntry
<1>9. Present'
  BY <1>1, <1>3, <1>4, SMTT(30) DEF IInv, Present, Own, Busy
<1>10. Filling'
  BY <1>1, <1>2, <1>3, <1>4, SMTT(30) DEF IInv, MayGo, Filling, Own, Busy, Seeking, Unmapping
<1>11. HasEntry'
  BY <1>1, <1>2, <1>3, <1>4, SMTT(30)
     DEF IInv, MayGo, HasEntry, EntryOf, Busy, Loading, Seeking, InEvict
<1>12. Ends'
  BY <1>1, <1>2, <1>3, <1>4, SMTT(30) DEF IInv, MayGo, Ends, EndOf, Busy, Unmapping, Ending
<1>13. Evicts'
  BY <1>1, <1>2, <1>3, <1>4, SMTT(30)
     DEF IInv, MayGo, Evicts, EvictOf, OneEvictor, Busy, Loading, Seeking
<1>14. Kinds'
  BY <1>1, <1>3, <1>4, SMTT(30) DEF IInv, Kinds, KindOf, EvictKind, InEvict
<1>15. FrameContents'
  <2>1. \A q \in Proc, x \in Table : pc'[q] = "unmap_free" /\ x.p = q /\ x.g = ld'[q].g =>
                                       content[x.f][3] = file[q][x.g]
    BY <1>2, SMTT(30) DEF IInv, FrameContents, FrameHolds, MayGo
  <2> QED BY <1>1, <1>3, <1>4, <2>1, SMTT(30)
             DEF IInv, FrameContents, FrameHolds, Busy, FrameEntry
<1>16. EvictContents'
  BY <1>3, <1>4, SMTT(30) DEF IInv, EvictContents, EvictHolds
<1>17. Swapped'
  BY <1>1, <1>3, <1>4, Types, SMTT(30)
     DEF IInv, Swapped, SlotHolds, EvictSlots, Resting, NoEvictor, Busy, InEvict, Hand
<1>18. Claims'
  BY <1>3, <1>4, SMTT(30) DEF IInv, Claims, ClaimOf, Resting, NoEvictor, Busy, InEvict
<1>19. Pins'
  BY <1>1, <1>2, <1>3, SMTT(30) DEF IInv, MayGo, Pins, FrameEntry
<1> QED BY <1>5, <1>6, <1>7, <1>8, <1>9, <1>10, <1>11, <1>12, <1>13, <1>14, <1>15, <1>16, <1>17,
           <1>18, <1>19, Zenon DEF IInv

\* The locals of a process outside every function are well formed.
LEMMA IdleLocals ==
  ASSUME NEW p \in Proc
  PROVE  /\ Idle(p) \in Locals /\ Idle(p).g \in Layout[p]
         /\ Idle(p).f = None /\ Idle(p).then = "user"
BY StackIn, Zenon DEF Idle, Locals

\* A step that ends in a panic or a window changes nothing else.
LEMMA StopStep ==
  ASSUME IInv, UNCHANGED <<pc, spt, pte, frameVars, content, swap, file, ld, ev>>,
         touches' \in [Proc -> Nat], outcome' \in Outcome
  PROVE  IInv'
<1>1. /\ pc' = pc /\ spt' = spt /\ pte' = pte /\ frame_table' = frame_table
      /\ clock_hand' = clock_hand /\ free_frames' = free_frames /\ content' = content
      /\ swap' = swap /\ file' = file /\ ld' = ld /\ ev' = ev /\ Table' = Table
  BY Zenon DEF frameVars, Table
<1>2. \A q \in Proc : (Hand(q)' <=> Hand(q)) /\ (Alive(q)' <=> Alive(q))
  BY <1>1, Zenon DEF Hand, Alive
<1>3. \A p, g, f : Own(p, g, f)' <=> Own(p, g, f)
  BY <1>1, Zenon DEF Own
<1>4. Typed'
  BY <1>1, <1>2, Zenon DEF IInv, Typed, TypeOK, Outcome
<1>5. Distinct' /\ Partition'
  BY <1>1, <1>2, SMTT(30) DEF IInv, Distinct, Partition
<1>6. TableOwned' /\ Present'
  BY <1>1, <1>3, SMTT(30) DEF IInv, TableOwned, Present
<1>7. Filling'
  BY <1>1, <1>3, SMTT(30) DEF IInv, Filling
<1>8. HasEntry'
  BY <1>1, SMTT(30) DEF IInv, HasEntry, EntryOf
<1>9. Ends' /\ Evicts'
  BY <1>1, SMTT(30) DEF IInv, Ends, EndOf, Evicts, EvictOf, OneEvictor
<1>10. Kinds'
  BY <1>1, <1>2, SMTT(30) DEF IInv, Kinds, KindOf, EvictKind
<1>11. FrameContents' /\ EvictContents'
  BY <1>1, SMTT(30) DEF IInv, FrameContents, FrameHolds, EvictContents, EvictHolds
<1>12. Swapped'
  <2>1. \A q \in Proc : pc[q] = "evict_slot" => ev[q].p \in Proc
    BY Types, Zenon DEF IInv, Hand, InEvict
  <2> QED BY <1>1, <1>2, <2>1, SMTT(30)
             DEF IInv, Swapped, SlotHolds, EvictSlots, Resting, NoEvictor
<1>13. Claims' /\ Pins'
  BY <1>1, SMTT(30) DEF IInv, Claims, ClaimOf, Resting, NoEvictor, Pins
<1> QED BY <1>4, <1>5, <1>6, <1>7, <1>8, <1>9, <1>10, <1>11, <1>12, <1>13, Zenon DEF IInv

\* Stop as an action.
LEMMA StopsStep ==
  ASSUME IInv, NEW o \in Outcome, Stop(o)
  PROVE  IInv'
<1>1. touches \in [Proc -> Nat]
  BY Zenon DEF IInv, Typed, TypeOK
<1>2. /\ UNCHANGED <<pc, spt, pte, frameVars, content, swap, file, ld, ev>>
      /\ outcome' = o /\ touches' = touches
  BY Zenon DEF Stop, StopIn
<1> QED BY <1>1, <1>2, StopStep, Zenon

\* Every window and every panic is an outcome.
LEMMA Outcomes == Windows \cup Panics \cup {"ok"} \subseteq Outcome
BY Zenon DEF Outcome

\* What the types say of the locals, and of the other variables a local step keeps.
LEMMA LocalTypes ==
  ASSUME IInv, NEW p \in Proc
  PROVE  /\ pc[p] \in PC /\ ld[p] \in Locals /\ ld[p].g \in Layout[p] /\ ld[p].g \in Page
         /\ pc \in [Proc -> PC] /\ ld \in [Proc -> Locals]
         /\ touches \in [Proc -> Nat] /\ outcome \in Outcome
BY StackIn, Zenon DEF IInv, Typed, TypeOK, Locals, Outcome

\* What is known of the page a thread in evict_frame has taken.
LEMMA Taken ==
  ASSUME IInv, NEW q \in Proc, pc[q] \in InEvict, NEW o, NEW g, o = ev[q].p, g = ev[q].g
  PROVE  /\ o \in Proc /\ g \in Page /\ ev[q].f \in Frame
         /\ pte[o][g].f = None /\ spt[o][g] # None /\ spt[o][g] \in Entry
         /\ spt[o][g].loaded <=> pc[q] \in {"evict_find", "evict_mark"}
         /\ ~(pc[o] \in Loading /\ ld[o].g = g) /\ pc[o] # "load"
         /\ \A x \in Table : ~(x.p = o /\ x.g = g)
         /\ \A r \in Proc : pc[r] \in InEvict /\ ev[r].p = o /\ ev[r].g = g => r = q
         /\ KindOf(o, g) /\ EvictKind(q) /\ EvictHolds(q)
         /\ content[ev[q].f] \in Contents
<1>1. o \in Proc /\ g \in Page /\ ev[q].f \in Frame
  BY Refers, Zenon
<1>2. EvictOf(q, o, g)
  BY <1>1, Zenon DEF IInv, Evicts
<1>3. spt[o][g] \in Entry
  BY <1>1, <1>2, Types, Zenon DEF EvictOf, IInv
<1>4. pc[o] # "load"
  BY <1>1, Zenon DEF IInv, Ends, EndOf
<1>5. \A x \in Table : ~(x.p = o /\ x.g = g)
  BY <1>1, <1>2, Refers, SMTT(30) DEF EvictOf, IInv, TableOwned, Loading
<1>6. \A r \in Proc : pc[r] \in InEvict /\ ev[r].p = o /\ ev[r].g = g => r = q
  BY Zenon DEF IInv, Evicts, OneEvictor
<1>7. KindOf(o, g) /\ EvictKind(q) /\ EvictHolds(q)
  BY <1>1, Zenon DEF IInv, Kinds, EvictContents
<1>8. content[ev[q].f] \in Contents
  BY <1>1, <1>7, Zenon DEF EvictHolds, Is, IInv, Typed, TypeOK
<1> QED BY <1>1, <1>2, <1>3, <1>4, <1>5, <1>6, <1>7, <1>8, Zenon DEF EvictOf

\* The entry spt_set_swap leaves.
LEMMA MovedToSwap ==
  ASSUME NEW e \in Entry, NEW s \in Slot
  PROVE  \E n \in Entry : /\ n = [e EXCEPT !.type = "SWAP", !.slot = s] /\ n.loaded = e.loaded
                          /\ n.type = "SWAP" /\ n.writable = e.writable /\ n.slot = s
<1> DEFINE n == [e EXCEPT !.type = "SWAP", !.slot = s]
<1>1. /\ n \in Entry /\ n.loaded = e.loaded /\ n.type = "SWAP" /\ n.writable = e.writable
      /\ n.slot = s
  BY Zenon DEF Entry
<1> QED BY <1>1, Zenon

\* What spt_set_swap makes of the entries.
NowInSlot(o, g, s) ==
  /\ spt' \in [Proc -> [Page -> {None} \cup Entry]]
  /\ spt'[o][g] \in Entry /\ spt'[o][g] # None /\ spt'[o][g].loaded = FALSE
  /\ spt'[o][g].type = "SWAP" /\ spt'[o][g].writable = spt[o][g].writable
  /\ spt'[o][g].slot = s
  /\ \A q \in Proc, h \in Page : (q # o \/ h # g) => spt'[q][h] = spt[q][h]

\* After spt_set_swap the entry names the slot the evictor filled.
LEMMA SlotNamed ==
  ASSUME IInv, NEW p \in Proc, EvictSlot(p), NEW o, NEW g, NEW s,
         o = ev[p].p, g = ev[p].g, s = ev[p].slot
  PROVE  NowInSlot(o, g, s)
<1>1. PICK e : e = spt[o][g]
  BY Zenon
<1>2. pc[p] = "evict_slot" /\ spt' = [spt EXCEPT ![o][g].type = "SWAP", ![o][g].slot = s]
  BY Zenon DEF EvictSlot, Running
<1>3. pc[p] \in InEvict
  BY <1>2, Zenon DEF InEvict
<1>4. /\ o \in Proc /\ g \in Page /\ e # None /\ e \in Entry
      /\ e.loaded <=> pc[p] \in {"evict_find", "evict_mark"}
  BY <1>1, <1>3, Taken, SMTT(30)
<1>5. s \in Slot
  BY <1>2, Zenon DEF IInv, Swapped, EvictSlots
<1>6. PICK n \in Entry : /\ n = [e EXCEPT !.type = "SWAP", !.slot = s] /\ n.loaded = e.loaded
                         /\ n.type = "SWAP" /\ n.writable = e.writable /\ n.slot = s
  BY <1>4, <1>5, MovedToSwap, Zenon
<1>7. spt' = [spt EXCEPT ![o][g] = n]
  BY <1>1, <1>2, <1>4, <1>6, ZenonT(30) DEF IInv, Typed, TypeOK
<1>8. e.loaded = FALSE
  BY <1>2, <1>4, Zenon DEF Entry
<1> QED BY <1>1, <1>4, <1>6, <1>7, <1>8, NoneIsNothing, ZenonT(30)
           DEF IInv, Typed, TypeOK, NowInSlot

\* The entry of a page whose frame is registered and present, and what is known
\* of its frame.
LEMMA Registered ==
  ASSUME IInv, NEW p \in Proc, NEW g \in Page, NEW f, Own(p, g, f), pc[p] \notin {"fill", "install"}
  PROVE  /\ f \in Frame /\ f # None /\ pte[p][g].f = f /\ Is(p, g, content[f])
         /\ content[f] \in Contents /\ NoEvictor(p, g)
         /\ \A x \in Table : x.p = p /\ x.g = g => x.f = f
<1>1. PICK x \in Table : x.p = p /\ x.g = g /\ x.f = f
  BY Zenon DEF Own
<1>2. f \in Frame /\ f # None
  BY <1>1, Refers, Zenon
<1>3. \A y \in Table : y.p = p /\ y.g = g => pte[p][g].f = y.f
  BY Zenon DEF IInv, TableOwned
<1>4. pte[p][g].f = f
  BY <1>1, <1>3, Zenon
<1>5. Is(p, g, content[f])
  BY <1>1, <1>4, Zenon DEF IInv, FrameContents, FrameHolds
<1>6. content[f] \in Contents
  BY <1>2, <1>5, Zenon DEF Is, IInv, Typed, TypeOK
<1>7. NoEvictor(p, g)
  BY <1>2, <1>4, Zenon DEF NoEvictor, IInv, Evicts, EvictOf
<1> QED BY <1>2, <1>3, <1>4, <1>5, <1>6, <1>7, Zenon

\* The frame being filled is registered once, for the page that is loaded.
LEMMA Fills ==
  ASSUME IInv, NEW p \in Proc, pc[p] \in {"fill", "install"}
  PROVE  /\ ld[p].g \in Page /\ ld[p].g \in Layout[p] /\ ld[p].f \in Frame /\ ld[p].f # None
         /\ Own(p, ld[p].g, ld[p].f) /\ pte[p][ld[p].g].f = None
         /\ spt[p][ld[p].g] # None /\ ~spt[p][ld[p].g].loaded /\ NoEvictor(p, ld[p].g)
         /\ \A x \in Table : x.p = p /\ x.g = ld[p].g => x.f = ld[p].f
         /\ \A x \in Table : x.f = ld[p].f => x.p = p /\ x.g = ld[p].g
<1>1. ld[p].g \in Page /\ ld[p].g \in Layout[p]
  BY LocalTypes, Zenon DEF IInv, Typed
<1>2. PICK g, f : g \in Page /\ g = ld[p].g /\ f = ld[p].f
  BY <1>1, Zenon
<1>3. Own(p, g, f) /\ pte[p][g].f = None
  BY <1>2, Zenon DEF IInv, Filling
<1>4. PICK x \in Table : x.p = p /\ x.g = g /\ x.f = f
  BY <1>3, Zenon DEF Own
<1>5. f \in Frame /\ f # None
  BY <1>4, Refers, Zenon
<1>6. spt[p][g] # None /\ ~spt[p][g].loaded
  BY <1>2, SMTT(30) DEF IInv, HasEntry, EntryOf, Loading
<1>7. NoEvictor(p, g)
  BY <1>2, ZenonT(30) DEF NoEvictor, IInv, Evicts, EvictOf, Loading
<1>8. \A y \in Table : y.p = p /\ y.g = g => y.f = f
  BY <1>2, <1>3, Refers, Zenon DEF IInv, TableOwned
<1>9. \A y \in Table : y.f = f => y.p = p /\ y.g = g
  BY <1>4, Unique, Zenon DEF IInv
<1> QED BY <1>1, <1>2, <1>3, <1>5, <1>6, <1>7, <1>8, <1>9, Zenon

\* What PageFill reads into the frame is the page, from wherever it was.
LEMMA Read ==
  ASSUME IInv, NEW p \in Proc, pc[p] = "fill", spt[p][ld[p].g].type = "SWAP"
  PROVE  /\ spt[p][ld[p].g].slot \in Slot /\ Is(p, ld[p].g, swap[spt[p][ld[p].g].slot])
         /\ swap[spt[p][ld[p].g].slot] \in Contents
<1>1. PICK g, s : g = ld[p].g /\ s = spt[p][g].slot
  BY Zenon
<1>2. g \in Page /\ spt[p][g] # None /\ ~spt[p][g].loaded /\ NoEvictor(p, g)
  BY <1>1, Fills, Zenon
<1>3. s \in Slot
  BY <1>1, <1>2, Zenon DEF IInv, Kinds, KindOf
<1>4. Resting(p, g) /\ Alive(p)
  BY <1>1, <1>2, Zenon DEF Resting, Alive
<1>5. Is(p, g, swap[s])
  BY <1>1, <1>2, <1>4, Zenon DEF IInv, Swapped, SlotHolds
<1>6. swap[s] \in Contents
  BY <1>3, <1>5, Zenon DEF Is, IInv, Typed, TypeOK
<1> QED BY <1>1, <1>3, <1>5, <1>6, Zenon

\* The entry after the i-th of n, round the list.
LEMMA HandOn ==
  ASSUME NEW n \in Nat, NEW i \in 1..n, n # 1
  PROVE  (i % n) + 1 \in 1..n /\ (i % n) + 1 # i
<1>1. CASE i = n
  <2>1. i % n = 0
    BY <1>1, SMTT(30)
  <2> QED BY <1>1, <2>1, SMTT(30)
<1>2. CASE i < n
  <2>1. i % n = i
    BY <1>2, SMTT(30)
  <2> QED BY <1>2, <2>1, SMTT(30)
<1> QED BY <1>1, <1>2, SMTT(30)

\* The list without its i-th entry, and the clock hand moved on if it was there.
LEMMA HandMoves ==
  ASSUME frame_table \in Seq(FrameEntry), Distinct, NEW i \in DOMAIN frame_table,
         frame_table' = list_remove(frame_table, i),
         clock_hand' = IF Len(frame_table) = 1 THEN Stale
                       ELSE frame_table[(i % Len(frame_table)) + 1].f
  PROVE  /\ clock_hand' \in Frame \cup {None, Stale}
         /\ clock_hand' \in Frame => \E x \in Table' : x.f = clock_hand'
<1>1. PICK n \in Nat : n = Len(frame_table) /\ DOMAIN frame_table = 1..n
  BY SMTT(30)
<1>2. Table' = Table \ {frame_table[i]}
  BY Removed, Zenon
<1>3. CASE n = 1
  BY <1>1, <1>3, NoneIsNothing, Zenon
<1>4. CASE n # 1
  <2>1. PICK j : j = (i % n) + 1
    BY Zenon
  <2>2. j \in 1..n /\ j # i
    BY <1>1, <1>4, <2>1, HandOn, Zenon
  <2>3. frame_table[j] \in FrameEntry /\ frame_table[j] \in Table /\ clock_hand' = frame_table[j].f
    BY <1>1, <1>4, <2>1, <2>2, SMTT(30) DEF Table
  <2>4. frame_table[j] # frame_table[i]
    BY <1>1, <2>2, Zenon DEF Distinct
  <2> QED BY <1>2, <2>3, <2>4, Zenon DEF FrameEntry
<1> QED BY <1>3, <1>4, Zenon

\* The threads that have a frame in their hands keep it.
SameHands == ev' = ev /\ \A q \in Proc : Hand(q)' <=> Hand(q)

\* frame_free of the frame of entry x.
LEMMA Freed ==
  ASSUME IInv, NEW x \in Table, NEW f, f = x.f, frame_free(f), SameHands
  PROVE  /\ frame_table' \in Seq(FrameEntry) /\ Distinct' /\ Partition' /\ Table' = Table \ {x}
         /\ clock_hand' \in Frame \cup {None, Stale} /\ free_frames' \subseteq Frame
         /\ content' \in [Frame -> {None} \cup Contents]
         /\ \A y \in Table' : content'[y.f] = content[y.f]
         /\ \A q \in Proc : pc[q] \in InEvict => content'[ev[q].f] = content[ev[q].f]
<1>1. frame_table \in Seq(FrameEntry) /\ Distinct /\ f \in Frame
  BY Types, Refers, Zenon DEF IInv
<1>2. PICK i : i = find_frame(f)
  BY Zenon
<1>3. i \in DOMAIN frame_table /\ i # 0 /\ frame_table[i] = x
  BY <1>1, <1>2, FindFrame, Unique, Zenon
<1>4. /\ frame_table' = list_remove(frame_table, i) /\ free_frames' = free_frames \cup {f}
      /\ content' = [content EXCEPT ![f] = None]
      /\ clock_hand # f => clock_hand' = clock_hand
      /\ clock_hand = f => clock_hand' = IF Len(frame_table) = 1 THEN Stale
                                         ELSE frame_table[(i % Len(frame_table)) + 1].f
  BY <1>2, <1>3, Zenon DEF frame_free
<1>5. /\ frame_table' \in Seq(FrameEntry) /\ Distinct' /\ Table' = Table \ {x}
  BY <1>1, <1>3, <1>4, Removed, Zenon
<1>6. \A y \in Table' : y.f # f /\ y \in Table
  BY <1>1, <1>5, Unique, Zenon
<1>7. /\ clock_hand' \in Frame \cup {None, Stale}
      /\ clock_hand' \in Frame => \E y \in Table' : y.f = clock_hand'
  <2>1. CASE clock_hand = f
    BY <1>1, <1>3, <1>4, <2>1, HandMoves, Zenon
  <2>2. CASE clock_hand # f
    BY <1>4, <1>5, <2>2, ZenonT(30) DEF IInv, Typed, TypeOK, Partition
  <2> QED BY <2>1, <2>2, Zenon
<1>8. free_frames' \subseteq Frame
  BY <1>1, <1>4, Zenon DEF IInv, Typed, TypeOK
<1>9. /\ content' \in [Frame -> {None} \cup Contents]
      /\ \A k \in Frame \ {f} : content'[k] = content[k]
  BY <1>1, <1>4, Zenon DEF IInv, Typed, TypeOK
<1>10. \A y \in Table' : content'[y.f] = content[y.f]
  BY <1>6, <1>9, Refers, Zenon
<1>11. \A q \in Proc : Hand(q) => ev[q].f # f
  BY Zenon DEF IInv, Partition
<1>12. \A q \in Proc : pc[q] \in InEvict => content'[ev[q].f] = content[ev[q].f]
  BY <1>9, <1>11, Refers, Zenon DEF Hand
<1>13. Partition'
  <2>1. \A y \in Table' : y.f \notin free_frames'
    BY <1>4, <1>6, Zenon DEF IInv, Partition
  <2>2. \A q \in Proc : Hand(q)' => ev'[q].f \notin free_frames' /\ \A y \in Table' : y.f # ev'[q].f
    BY <1>4, <1>6, <1>11, Zenon DEF IInv, Partition, SameHands
  <2>3. \A q, r \in Proc : Hand(q)' /\ Hand(r)' /\ ev'[q].f = ev'[r].f => q = r
    BY Zenon DEF IInv, Partition, SameHands
  <2>4. ASSUME NEW k \in Frame
        PROVE  \/ k \in free_frames'
               \/ \E y \in Table' : y.f = k
               \/ \E q \in Proc : Hand(q)' /\ ev'[q].f = k
    <3>1. \/ k \in free_frames
          \/ \E y \in Table : y.f = k
          \/ \E q \in Proc : Hand(q) /\ ev[q].f = k
      BY Zenon DEF IInv, Partition
    <3> QED BY <1>4, <1>5, <3>1, Zenon DEF SameHands
  <2> QED BY <1>7, <2>1, <2>2, <2>3, <2>4, Zenon DEF Partition
<1> QED BY <1>5, <1>7, <1>8, <1>9, <1>10, <1>12, <1>13, Zenon

\* Where spt_destroy_func has found no frame there is none.
Looked == \A p \in Proc : pc[p] = "destroy_free" /\ ld[p].f = None => pte[p][ld[p].g].f = None

\* The frame of the entry that is destroyed, if it has one.
LEMMA Emptied ==
  ASSUME IInv, Looked, NEW p \in Proc, pc[p] = "destroy_free", NEW g, NEW f, g = ld[p].g, f = ld[p].f,
         f # None => Holds(p, g, f), SameHands,
         IF f = None THEN UNCHANGED <<frameVars, content>> ELSE frame_free(f)
  PROVE  /\ frame_table' \in Seq(FrameEntry) /\ Distinct' /\ Partition'
         /\ Table' \subseteq Table /\ \A x \in Table : (x.p # p \/ x.g # g) => x \in Table'
         /\ \A x \in Table' : x.p # p \/ x.g # g
         /\ clock_hand' \in Frame \cup {None, Stale} /\ free_frames' \subseteq Frame
         /\ content' \in [Frame -> {None} \cup Contents]
         /\ \A y \in Table' : content'[y.f] = content[y.f]
         /\ \A q \in Proc : pc[q] \in InEvict => content'[ev[q].f] = content[ev[q].f]
<1>1. CASE f = None
  <2>1. /\ frame_table' = frame_table /\ clock_hand' = clock_hand /\ free_frames' = free_frames
        /\ content' = content /\ Table' = Table
    BY <1>1, Zenon DEF frameVars, Table
  <2>2. \A x \in Table : x.p # p \/ x.g # g
    <3>1. pte[p][g].f = None
      BY <1>1, Zenon DEF Looked
    <3> QED BY <3>1, Refers, Zenon DEF IInv, TableOwned
  <2>3. Partition'
    BY <2>1, Zenon DEF IInv, Partition, SameHands
  <2> QED BY <2>1, <2>2, <2>3, Types, Zenon DEF IInv, Typed, TypeOK, Distinct
<1>2. CASE f # None
  <2>1. Own(p, g, f) /\ g \in Page
    BY <1>2, HoldsOwn, Types, LocalTypes, Zenon DEF IInv
  <2>2. \A x \in Table : x.p = p /\ x.g = g => x.f = f
    BY <2>1, Registered, SMTT(30)
  <2>3. PICK x0 \in Table : x0.p = p /\ x0.g = g /\ x0.f = f
    BY <2>1, Zenon DEF Own
  <2>4. \A x \in Table : x.p = p /\ x.g = g => x = x0
    BY <2>2, <2>3, Unique, Zenon DEF IInv
  <2>5. /\ frame_table' \in Seq(FrameEntry) /\ Distinct' /\ Partition' /\ Table' = Table \ {x0}
        /\ clock_hand' \in Frame \cup {None, Stale} /\ free_frames' \subseteq Frame
        /\ content' \in [Frame -> {None} \cup Contents]
        /\ \A y \in Table' : content'[y.f] = content[y.f]
        /\ \A q \in Proc : pc[q] \in InEvict => content'[ev[q].f] = content[ev[q].f]
    BY <1>2, <2>3, Freed, Zenon
  <2> QED BY <2>3, <2>4, <2>5, Zenon
<1> QED BY <1>1, <1>2, Zenon

\* evict_frame, once it has chosen the j-th entry v: the accessed bits of the pages W
\* are cleared, the page of v is unmapped and its frame is in p's hands.
TakeFrame(p, j, v, W) ==
  /\ pc[p] = "alloc" /\ v = frame_table[j] /\ ~v.pinned
  /\ ~(pc[v.p] \in {"fill", "install", "record"} /\ ld[v.p].f = v.f)
  /\ pte' = [q \in Proc |-> [g \in Page |->
               [f |-> IF q = v.p /\ g = v.g THEN None ELSE pte[q][g].f,
                A |-> pte[q][g].A /\ <<q, g>> \notin W,
                D |-> pte[q][g].D]]]
  /\ clock_hand' = IF Len(frame_table) = 1 THEN Stale
                   ELSE frame_table[(j % Len(frame_table)) + 1].f
  /\ frame_table' = list_remove(frame_table, j)
  /\ ev' = [ev EXCEPT ![p] = [f |-> v.f, p |-> v.p, g |-> v.g,
                              dirty |-> pagedir_is_dirty(v.p, v.g), slot |-> 0]]
  /\ pc' = [pc EXCEPT ![p] = "evict_find"]
  /\ UNCHANGED <<spt, free_frames, content, swap, file, ld, touches, outcome>>

\* The i-th entry from the h-th one on, round the list.
LEMMA Round ==
  ASSUME NEW n \in Nat, NEW h \in 1..n, NEW i \in 1..n
  PROVE  ((h + i - 2) % n) + 1 \in 1..n
<1>1. CASE h + i - 2 < n
  <2>1. (h + i - 2) % n = h + i - 2
    BY <1>1, SMTT(30)
  <2> QED BY <1>1, <2>1, SMTT(30)
<1>2. CASE h + i - 2 >= n
  <2>1. PICK r \in 0..(n - 1) : h + i - 2 = n + r
    BY <1>2, SMTT(30)
  <2>2. (n + r) % n = r
    BY <2>1, SMTT(30)
  <2> QED BY <2>1, <2>2, SMTT(30)
<1> QED BY <1>1, <1>2, SMTT(30)

\* evict_frame takes an entry that is not pinned, or meets one of its windows.
LEMMA EvictTakes ==
  ASSUME IInv, NEW p \in Proc, evict_frame(p)
  PROVE  \/ \E o \in Outcome : Stop(o)
         \/ \E j \in DOMAIN frame_table : \E v, W : TakeFrame(p, j, v, W)
<1> DEFINE n == Len(frame_table)
           h == IF clock_hand = None THEN 1 ELSE find_frame(clock_hand)
           at(i) == ((h + i - 2) % n) + 1
           unpinned == {i \in 1..n : Evictable(frame_table[at(i)])}
           cold == {i \in unpinned : ~pagedir_is_accessed(frame_table[at(i)].p, frame_table[at(i)].g)}
           S == IF cold # {} THEN cold ELSE unpinned
           v(k) == frame_table[at(k)]
           swept(k) == {<<frame_table[at(i)].p, frame_table[at(i)].g>> :
                          i \in IF cold # {} THEN {i \in unpinned : i < k} ELSE unpinned}
           Loads(k) == pc[v(k).p] \in {"fill", "install", "record"} /\ ld[v(k).p].f = v(k).f
           TakesAt(k) ==
             /\ pte' = [q \in Proc |-> [g \in Page |->
                          [f |-> IF q = v(k).p /\ g = v(k).g THEN None ELSE pte[q][g].f,
                           A |-> pte[q][g].A /\ <<q, g>> \notin swept(k),
                           D |-> pte[q][g].D]]]
             /\ clock_hand' = IF n = 1 THEN Stale ELSE frame_table[(at(k) % n) + 1].f
             /\ frame_table' = list_remove(frame_table, at(k))
             /\ ev' = [ev EXCEPT ![p] = [f |-> v(k).f, p |-> v(k).p, g |-> v(k).g,
                                         dirty |-> pagedir_is_dirty(v(k).p, v(k).g), slot |-> 0]]
             /\ Goto(p, "evict_find")
             /\ UNCHANGED <<spt, free_frames, content, swap, file, ld, touches, outcome>>
<1>1. /\ pc[p] = "alloc"
      /\ IF Walked(p) THEN Stop("walk")
         ELSE IF clock_hand = Stale /\ n > 0 THEN Stop("stale_hand")
         ELSE IF n = 0 \/ unpinned = {} THEN Stop("out_of_memory")
         ELSE \E k \in First(S) : IF Loads(k) THEN Stop("fill") ELSE TakesAt(k)
  BY Zenon DEF evict_frame, Running
<1> HIDE DEF TakesAt, Loads, n, h, at, unpinned, cold, S, v, swept
<1>2. CASE \E o \in Outcome : Stop(o)
  BY <1>2, Zenon
<1>3. CASE /\ ~(clock_hand = Stale /\ n > 0) /\ n # 0
           /\ \E k \in First(S) : ~Loads(k) /\ TakesAt(k)
  <2>1. n \in Nat /\ DOMAIN frame_table = 1..n /\ n # 0 /\ clock_hand # Stale
    BY <1>3, Types, SMTT(30) DEF IInv, n
  <2>2. h \in 1..n
    <3>1. CASE clock_hand = None
      BY <2>1, <3>1, SMTT(30) DEF h
    <3>2. CASE clock_hand # None
      <4>1. clock_hand \in Frame
        BY <2>1, <3>2, Zenon DEF IInv, Typed, TypeOK
      <4>2. PICK x \in Table : x.f = clock_hand
        BY <4>1, Zenon DEF IInv, Partition
      <4> QED BY <2>1, <3>2, <4>1, <4>2, FindFrame, Types, Zenon DEF IInv, Table, h
    <3> QED BY <3>1, <3>2, Zenon
  <2>3. PICK k \in First(S) : ~Loads(k) /\ TakesAt(k)
    BY <1>3, Zenon
  <2>4. k \in unpinned
    <3>1. S \subseteq unpinned
      BY Zenon DEF S, cold
    <3> QED BY <2>3, <3>1, Zenon DEF First
  <2>5. PICK j : j = at(k)
    BY Zenon
  <2>6. j \in DOMAIN frame_table
    BY <2>1, <2>2, <2>4, <2>5, Round, Zenon DEF at, unpinned
  <2>7. v(k) = frame_table[j] /\ ~v(k).pinned
    BY <2>4, <2>5, Zenon DEF Evictable, unpinned, v
  <2>8. PICK x, W : x = v(k) /\ W = swept(k)
    BY Zenon
  <2>9. TakeFrame(p, j, x, W)
    <3>1. /\ pc[p] = "alloc" /\ x = frame_table[j] /\ ~x.pinned
          /\ ~(pc[x.p] \in {"fill", "install", "record"} /\ ld[x.p].f = x.f)
      BY <1>1, <2>3, <2>7, <2>8, Zenon DEF Loads
    <3> QED BY <2>3, <2>5, <2>8, <3>1, ZenonT(30) DEF TakeFrame, TakesAt, Goto, n
  <2> QED BY <2>6, <2>9, Zenon
<1> QED BY <1>1, <1>2, <1>3, Zenon DEF Outcome, Windows, Panics

\* A step of p, as the other processes see it: none of them moves, and at most
\* their pages are unmapped.  p itself is in spt_destroy_func before the frame is
\* freed only if it was, and nothing has happened since, or has just looked.
Others(p) ==
  /\ \A q \in Proc \ {p} : /\ pc'[q] = pc[q] /\ ld'[q] = ld[q] /\ ev'[q] = ev[q]
                           /\ \A h \in Page : pte[q][h].f = None => pte'[q][h].f = None
  /\ pc'[p] = "destroy_free" => pc'[p] = pc[p] /\ ld'[p] = ld[p] /\ pte' = pte

\* A step of p leaves the others' places, locals and entries alone, up to the
\* mark an evictor sets.
LEMMA OthersStay ==
  ASSUME IInv, NEW p \in Proc, UserStep(p) \/ KernelStep(p)
  PROVE  Others(p) \/ DestroyLook(p)
<1>1. /\ pc \in [Proc -> PC] /\ DOMAIN ld = Proc /\ DOMAIN ev = Proc
      /\ DOMAIN pte = Proc /\ \A q \in Proc : DOMAIN pte[q] = Page
      /\ ld[p].then # "destroy_free"
  BY Zenon DEF IInv, Typed, TypeOK
<1>2. ASSUME NEW o, Stop(o) \/ StopIn(o) PROVE Others(p)
  BY <1>2, Zenon DEF Stop, StopIn, Others
<1>3. ASSUME NEW g \in Page, NEW e, NEW again, NEW l, spt_load_page(p, g, e, again, l)
      PROVE  Others(p)
  BY <1>1, <1>2, <1>3, Zenon DEF spt_load_page, Goto, Others
<1>4. ASSUME NEW g \in Page, NEW l, page_fault(p, g, l) PROVE Others(p)
  BY <1>1, <1>3, <1>4, Zenon DEF page_fault, Goto, Others
<1>5. ASSUME NEW g \in Page, Reach(p, g)
      PROVE  \A q \in Proc \ {p} : pte'[q] = pte[q]
  BY <1>1, <1>5, Zenon DEF Reach
<1>6. CASE UserStep(p)
  <2>1. CASE sys_exit(p)
    BY <1>1, <2>1, Zenon DEF sys_exit, Goto, Others
  <2>2. ASSUME NEW g \in Page, Access(p, g) PROVE Others(p)
    BY <1>1, <1>4, <1>5, <2>2, Zenon DEF Access, Running, Others
  <2>3. ASSUME NEW g \in Page, SysBuffer(p, g) PROVE Others(p)
    BY <1>1, <1>3, <2>3, Zenon DEF SysBuffer, Goto, Others
  <2>4. ASSUME NEW g \in Page, mmap_map(p, g) PROVE Others(p)
    BY <2>4, Zenon DEF mmap_map, Others
  <2>5. ASSUME NEW g \in Page, mmap_unmap(p, g) PROVE Others(p)
    BY <1>1, <2>5, Zenon DEF mmap_unmap, Goto, Others
  <2> QED BY <1>6, <2>1, <2>2, <2>3, <2>4, <2>5, Zenon DEF UserStep
<1>7. CASE KernelStep(p)
  <2>1. CASE setup_stack(p)
    BY <1>1, <2>1, Zenon DEF setup_stack, Goto, Others
  <2>2. CASE frame_alloc(p)
    BY <1>1, <2>2, Zenon DEF frame_alloc, Goto, Others
  <2>3. CASE frame_alloc_fails(p)
    BY <1>1, <2>3, Zenon DEF frame_alloc_fails, LoadFails, Goto, Others
  <2>4. CASE evict_frame(p)
    <3>1. ASSUME NEW j, NEW v, NEW W, TakeFrame(p, j, v, W) PROVE Others(p)
      <4>1. \A q \in Proc, h \in Page : pte[q][h].f = None => pte'[q][h].f = None
        BY <3>1, Zenon DEF TakeFrame
      <4> QED BY <1>1, <3>1, <4>1, Zenon DEF TakeFrame, Others
    <3> QED BY <1>2, <2>4, <3>1, EvictTakes, Zenon
  <2>5. CASE EvictFind(p)
    BY <1>1, <2>5, Zenon DEF EvictFind, Goto, Others
  <2>6. CASE EvictMark(p)
    BY <1>1, <2>6, Zenon DEF EvictMark, Goto, Others
  <2>7. CASE EvictWrite(p)
    BY <1>1, <2>7, Zenon DEF EvictWrite, Goto, Others
  <2>8. CASE swap_out(p)
    BY <1>1, <1>2, <2>8, Zenon DEF swap_out, Goto, Others
  <2>9. CASE EvictSlot(p)
    BY <1>1, <2>9, Zenon DEF EvictSlot, Goto, Others
  <2>10. CASE FrameRegister(p)
    BY <1>1, <2>10, Zenon DEF FrameRegister, Goto, Others
  <2>11. CASE PageFill(p)
    BY <1>1, <1>2, <2>11, Zenon DEF PageFill, Goto, Others
  <2>12. CASE pagedir_set_page(p)
    BY <1>1, <2>12, Zenon DEF pagedir_set_page, Goto, Others
  <2>13. CASE pagedir_set_page_fails(p)
    BY <1>1, <1>2, <2>13, Zenon DEF pagedir_set_page_fails, LoadFails, Goto, Others
  <2>14. CASE spt_set_loaded(p)
    BY <1>1, <2>14, Zenon DEF spt_set_loaded, Goto, Others
  <2>15. CASE PinLook(p)
    BY <1>1, <2>15, Zenon DEF PinLook, Goto, Others
  <2>16. CASE PinWalk(p)
    BY <1>1, <2>16, Zenon DEF PinWalk, Goto, Others
  <2>17. CASE frame_pin(p)
    BY <1>1, <1>2, <2>17, Zenon DEF frame_pin, Goto, Others
  <2>18. CASE SysCopy(p)
    <3>1. ld[p].g \in Page
      BY LocalTypes, Zenon
    <3> QED BY <1>1, <1>4, <1>5, <2>18, <3>1, Zenon DEF SysCopy, Goto, Others
  <2>19. ASSUME NEW g \in Page, mmap_unmap(p, g) PROVE Others(p)
    BY <1>1, <2>19, Zenon DEF mmap_unmap, Goto, Others
  <2>20. CASE UnmapWrite(p)
    BY <1>1, <1>2, <2>20, Zenon DEF UnmapWrite, Goto, Others
  <2>21. CASE UnmapFree(p)
    BY <1>1, <1>2, <2>21, Zenon DEF UnmapFree, Goto, Others
  <2>22. CASE UnmapClear(p)
    BY <1>1, <2>22, Zenon DEF UnmapClear, pagedir_clear_page, Goto, Others
  <2>23. CASE spt_remove_entry(p)
    BY <1>1, <1>2, <2>23, Zenon DEF spt_remove_entry, Goto, Others
  <2>24. CASE spt_destroy(p)
    BY <1>1, <2>24, Zenon DEF spt_destroy, Goto, Others
  <2>25. CASE spt_destroy_func(p)
    BY <1>1, <1>2, <2>25, Zenon DEF spt_destroy_func, pagedir_clear_page, Goto, Others
  <2>26. CASE process_exit(p)
    BY <1>1, <2>26, Zenon DEF process_exit, Goto, Others
  <2> QED BY <1>7, <2>1, <2>2, <2>3, <2>4, <2>5, <2>6, <2>7, <2>8, <2>9, <2>10, <2>11, <2>12,
             <2>13, <2>14, <2>15, <2>16, <2>17, <2>18, <2>19, <2>20, <2>21, <2>22, <2>23, <2>24,
             <2>25, <2>26, Zenon DEF KernelStep
<1> QED BY <1>6, <1>7, Zenon

\* Every frame is in the pool, in one entry of the frame table or in one thread's
\* hands, counted.
LEMMA Accounts ==
  ASSUME IInv
  PROVE  FramesAccounted
<1>1. frame_table \in Seq(FrameEntry) /\ Distinct
  BY Types, Zenon DEF IInv
<1>2. clock_hand \in Frame => find_frame(clock_hand) # 0
  BY <1>1, FindFrame, Zenon DEF IInv, Partition
<1>3. ASSUME NEW f \in Frame
      PROVE  LET table == {i \in DOMAIN frame_table : frame_table[i].f = f}
                 hands == {p \in Proc : pc[p] \in InEvict \cup {"register"} /\ ev[p].f = f}
                 places == ({"table"} \X table) \cup ({"hands"} \X hands)
                             \cup ({"pool"} \X ({f} \cap free_frames))
             IN  \E x \in places : places = {x}
  <2>1. PICK table, hands, pool :
          /\ table = {i \in DOMAIN frame_table : frame_table[i].f = f}
          /\ hands = {p \in Proc : pc[p] \in InEvict \cup {"register"} /\ ev[p].f = f}
          /\ pool = {f} \cap free_frames
    BY Zenon
  <2>2. PICK places : places = ({"table"} \X table) \cup ({"hands"} \X hands)
                                 \cup ({"pool"} \X pool)
    BY Zenon
  <2> SUFFICES \E x \in places : places = {x}
    BY <2>1, <2>2, Zenon
  <2>3. \A p \in Proc : p \in hands <=> Hand(p) /\ ev[p].f = f
    BY <2>1, Zenon DEF Hand
  <2>4. \A i \in DOMAIN frame_table : frame_table[i] \in Table
    BY Zenon DEF Table
  <2>5. CASE f \in free_frames
    <3>1. table = {}
      BY <2>1, <2>4, <2>5, SMTT(30) DEF IInv, Partition
    <3>2. hands = {}
      BY <2>1, <2>3, <2>5, SMTT(30) DEF IInv, Partition
    <3>3. pool = {f}
      BY <2>1, <2>5, Zenon
    <3>4. places = {<<"pool", f>>}
      BY <2>1, <2>2, <3>1, <3>2, <3>3, SMTT(30)
    <3> QED BY <3>4, Zenon
  <2>6. CASE \E x \in Table : x.f = f
    <3>1. PICK i \in DOMAIN frame_table : frame_table[i].f = f
      BY <2>6, Zenon DEF Table
    <3>2. table = {i}
      BY <1>1, <2>1, <3>1, Zenon DEF Distinct
    <3>3. hands = {}
      BY <2>1, <2>3, <2>6, SMTT(30) DEF IInv, Partition
    <3>4. pool = {}
      BY <2>1, <2>6, SMTT(30) DEF IInv, Partition
    <3>5. places = {<<"table", i>>}
      BY <2>1, <2>2, <3>2, <3>3, <3>4, SMTT(30)
    <3> QED BY <3>5, Zenon
  <2>7. CASE \E q \in Proc : Hand(q) /\ ev[q].f = f
    <3>1. PICK q \in Proc : Hand(q) /\ ev[q].f = f
      BY <2>7, Zenon
    <3>2. hands = {q}
      BY <2>1, <2>3, <3>1, SMTT(30) DEF IInv, Partition
    <3>3. table = {}
      BY <2>1, <2>4, <3>1, Zenon DEF IInv, Partition
    <3>4. pool = {}
      BY <2>1, <3>1, SMTT(30) DEF IInv, Partition
    <3>5. places = {<<"hands", q>>}
      BY <2>1, <2>2, <3>2, <3>3, <3>4, SMTT(30)
    <3> QED BY <3>5, Zenon
  <2> QED BY <2>5, <2>6, <2>7, Zenon DEF IInv, Partition
<1> QED BY <1>2, <1>3, Zenon DEF FramesAccounted
==============================================================================
