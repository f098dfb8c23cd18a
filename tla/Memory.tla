------------------------------- MODULE Memory --------------------------------
(***************************************************************************)
(* Virtual memory: frames (vm/frame.c), supplemental page tables           *)
(* (vm/page.c), swap (vm/swap.c), mapped files (vm/mmap.c), page tables    *)
(* (userprog/pagedir.c), the page-fault handler (userprog/exception.c) and *)
(* the pinning of system-call buffers (userprog/syscall.c).                *)
(*                                                                         *)
(* A process is one thread; every step is code another thread cannot see   *)
(* the middle of: interrupts off, or under the lock the others take too.   *)
(* Contents of a page are <<p, g, v>>: page g of process p, with its       *)
(* initial contents (v = 0) or written (v = 1).                            *)
(*                                                                         *)
(* outcome is "ok" until the kernel panics or two threads meet in a window *)
(* the code leaves open (Windows); what happens then is not followed.      *)
(***************************************************************************)
EXTENDS Integers, Sequences

CONSTANTS Proc, Page,
          Frames,       \* pages of the user pool
          Kind,         \* [Page -> {"code", "data", "stack", "grow", "map"}]
          Layout,       \* [Proc -> SUBSET Page]: the pages a process may use
          Buffers,      \* the pages passed to sys_read and sys_write
          Slots,        \* swap slots are 0..Slots-1
          Touches,      \* bound on the accesses, page faults and calls of each process
          None, Stale   \* no value; a clock hand left on a freed entry

VARIABLES pc,
          spt,           \* spt[p][g]: None or a spt_entry
          pte,           \* pte[p][g]: frame (None: not present) and A, D bits
          frame_table, clock_hand,
          free_frames,   \* the user pool of palloc
          content,       \* of the frames
          swap,          \* swap[s]: contents of slot s, None when its bit is clear
          file,          \* file[p][g]: version in the file p maps at g
          ld,            \* locals of spt_load_page and of mmap_unmap
          ev,            \* locals of evict_frame
          touches, outcome

vars == <<pc, spt, pte, frame_table, clock_hand, free_frames, content, swap, file,
          ld, ev, touches, outcome>>
frameVars == <<frame_table, clock_hand, free_frames>>

Frame == 1..Frames
Slot == 0..Slots-1
Contents == Proc \X Page \X {0, 1}
Entry == [type : {"FILE", "ZERO", "MMAP", "SWAP"}, writable : BOOLEAN, loaded : BOOLEAN,
          slot : Slot \cup {0}]
Victim == [f : Frame, p : Proc, g : Page, dirty : BOOLEAN, slot : Slot \cup {0}]
Windows == {"fill", "reload", "freed_entry", "stolen_frame", "foreign_slot", "stale_hand", "walk"}
Panics == {"out_of_memory", "swap_full", "free_slot"}

ASSUME MemoryAssumption ==
  /\ Kind \in [Page -> {"code", "data", "stack", "grow", "map"}]
  /\ Layout \in [Proc -> SUBSET Page]
  /\ \A p \in Proc : \E g \in Layout[p] : Kind[g] = "stack"
  /\ Buffers \subseteq {g \in Page : Kind[g] # "code"}
  /\ Frames \in Nat /\ Slots \in Nat /\ Touches \in [Proc -> Nat]
  /\ Frame \cap {None, Stale} = {} /\ None # Stale
  /\ None \notin Contents /\ None \notin Entry /\ None \notin Victim

-----------------------------------------------------------------------------
Running(p, l) == outcome = "ok" /\ pc[p] = l
Goto(p, l) == pc' = [pc EXCEPT ![p] = l]

\* The step ends in outcome o and nothing else is followed.
StopIn(o) ==
  /\ outcome' = o
  /\ UNCHANGED <<pc, spt, pte, frameVars, content, swap, file, ld, ev>>
Stop(o) == StopIn(o) /\ UNCHANGED touches

StackPage(p) == CHOOSE g \in Layout[p] : Kind[g] = "stack"
MapPages(p) == {g \in Layout[p] : Kind[g] = "map" /\ spt[p][g] # None}

\* The page table: what the processor finds there, and what it leaves in the
\* accessed and dirty bits.
pagedir_get_page(p, g) == pte[p][g].f
pagedir_is_dirty(p, g) == pte[p][g].D
pagedir_is_accessed(p, g) == pte[p][g].A
pagedir_clear_page(p, g) == pte' = [pte EXCEPT ![p][g].f = None]
Mapped(p, g) == pagedir_get_page(p, g) # None

\* A list without its i-th element.
list_remove(s, i) == [j \in 1..Len(s)-1 |-> IF j < i THEN s[j] ELSE s[j+1]]

\* The first of a set of positions, as a bitmap or a list is scanned for it.
First(S) == {i \in S : \A j \in S : i =< j}

\* Position of frame f in the frame table, 0 if it is not there (find_frame).
find_frame(f) ==
  LET at == {i \in DOMAIN frame_table : frame_table[i].f = f}
  IN IF at = {} THEN 0 ELSE CHOOSE i \in at : TRUE

\* Frame f is in the table as page g of process p.
Holds(p, g, f) == LET i == find_frame(f)
                  IN i # 0 /\ frame_table[i].p = p /\ frame_table[i].g = g

\* The locals of a process that is in none of the functions that have them.
Idle(p) == [g |-> StackPage(p), f |-> None, again |-> FALSE, then |-> "user"]

NewEntry(type, writable) == [type |-> type, writable |-> writable, loaded |-> FALSE, slot |-> 0]
spt_set_file(writable) == NewEntry("FILE", writable)
spt_set_zero == NewEntry("ZERO", TRUE)
spt_set_mmap == NewEntry("MMAP", TRUE)
spt_get_entry(p, g) == spt[p][g]

InEvict == {"evict_find", "evict_mark", "evict_write", "swap_out", "evict_slot"}

\* Threads in evict_frame that have taken page g of p from its frame.
Evicting(p, g) == {q \in Proc : pc[q] \in InEvict /\ ev[q].p = p /\ ev[q].g = g}

-----------------------------------------------------------------------------
\* Another thread is inside find_frame's walk for frame_pin or frame_unpin, which
\* hold frame_lock with interrupts on; the entry removed may be the one it is at.
Walked(p) == \E q \in Proc \ {p} : pc[q] \in {"pin_walk", "unpin_walk"}

\* frame_free: off the frame table, the clock hand moved on first, and back to
\* the pool.  The hand of a one-entry table moves on to the entry itself.
\* What a free frame holds is not followed.
frame_free(f) ==
  LET i == find_frame(f)
      n == Len(frame_table)
  IN /\ clock_hand' = IF i = 0 \/ clock_hand # f THEN clock_hand
                      ELSE IF n = 1 THEN Stale ELSE frame_table[(i % n) + 1].f
     /\ frame_table' = IF i = 0 THEN frame_table ELSE list_remove(frame_table, i)
     /\ free_frames' = free_frames \cup {f}
     /\ content' = [content EXCEPT ![f] = None]

\* frame_alloc with a page in the pool: the frame is entered in the table.
frame_alloc(p) ==
  /\ Running(p, "alloc")
  /\ \E f \in First(free_frames) :
       /\ free_frames' = free_frames \ {f}
       /\ frame_table' = Append(frame_table, [f |-> f, p |-> p, g |-> ld[p].g, pinned |-> FALSE])
       /\ ld' = [ld EXCEPT ![p].f = f]
  /\ Goto(p, "fill")
  /\ UNCHANGED <<spt, pte, clock_hand, content, swap, file, ev, touches, outcome>>

\* A load that fails: page_fault tries a grown page a second time, pin_buffer
\* goes on without the page, page_fault and setup_stack end the process.
LoadFails(p) ==
  /\ ld' = [ld EXCEPT ![p].again = FALSE, ![p].f = None]
  /\ Goto(p, IF ld[p].again THEN "alloc" ELSE IF ld[p].then = "pin_look" THEN "sys" ELSE "exit")

\* No kernel memory for the frame_entry: the page goes back, the load fails.
frame_alloc_fails(p) ==
  /\ Running(p, "alloc")
  /\ free_frames # {}
  /\ LoadFails(p)
  /\ UNCHANGED <<spt, pte, frameVars, content, swap, file, ev, touches, outcome>>

\* Mutant: the pinned flag is not looked at.
Evictable_any(e) == e.f \in Frame

\* The clock passes over a pinned frame.
Evictable(e) == ~e.pinned

\* evict_frame up to the end of its interrupts-off part.  The clock sweeps at
\* most twice from the hand: it clears A bits of unpinned frames until it meets
\* an unpinned frame whose bit is clear.
evict_frame(p) ==
  LET n == Len(frame_table)
      h == IF clock_hand = None THEN 1 ELSE find_frame(clock_hand)
      at(i) == ((h + i - 2) % n) + 1
      unpinned == {i \in 1..n : Evictable(frame_table[at(i)])}
      cold == {i \in unpinned : ~pagedir_is_accessed(frame_table[at(i)].p, frame_table[at(i)].g)}
  IN /\ Running(p, "alloc")
     /\ free_frames = {}
     /\ IF Walked(p) THEN Stop("walk")
        ELSE IF clock_hand = Stale /\ n > 0 THEN Stop("stale_hand")
        ELSE IF n = 0 \/ unpinned = {} THEN Stop("out_of_memory")
        ELSE \E k \in First(IF cold # {} THEN cold ELSE unpinned) :
          LET v == frame_table[at(k)]
              swept == {<<frame_table[at(i)].p, frame_table[at(i)].g>> :
                          i \in IF cold # {} THEN {i \in unpinned : i < k} ELSE unpinned}
          IN IF pc[v.p] \in {"fill", "install", "record"} /\ ld[v.p].f = v.f THEN Stop("fill")
             ELSE /\ pte' = [q \in Proc |-> [g \in Page |->
                               [f |-> IF q = v.p /\ g = v.g THEN None ELSE pte[q][g].f,
                                A |-> pte[q][g].A /\ <<q, g>> \notin swept,
                                D |-> pte[q][g].D]]]
                  /\ clock_hand' = IF n = 1 THEN Stale ELSE frame_table[(at(k) % n) + 1].f
                  /\ frame_table' = list_remove(frame_table, at(k))
                  /\ ev' = [ev EXCEPT ![p] = [f |-> v.f, p |-> v.p, g |-> v.g,
                                              dirty |-> pagedir_is_dirty(v.p, v.g), slot |-> 0]]
                  /\ Goto(p, "evict_find")
                  /\ UNCHANGED <<spt, free_frames, content, swap, file, ld, touches, outcome>>

\* spt_get_entry without the lock.
EvictFind(p) ==
  /\ Running(p, "evict_find")
  /\ Goto(p, IF spt_get_entry(ev[p].p, ev[p].g) = None THEN "register" ELSE "evict_mark")
  /\ UNCHANGED <<spt, pte, frameVars, content, swap, file, ld, ev, touches, outcome>>

\* spt_destroy holds the lock of a table that goes away.
SptUnlocked(p) == pc[p] \notin {"destroy", "destroy_free"}

\* Mutant: a page that began as zeros is taken for zeros.
EvictMark_zero(p) ==
  LET o == ev[p].p
      g == ev[p].g
      e == spt[o][g]
  IN /\ Running(p, "evict_mark") /\ SptUnlocked(o)
     /\ spt' = [spt EXCEPT ![o][g].loaded = FALSE]
     /\ Goto(p, IF e.type = "MMAP" THEN IF ev[p].dirty THEN "evict_write" ELSE "register"
                ELSE IF e.type # "ZERO" THEN "swap_out" ELSE "register")
     /\ UNCHANGED <<pte, frameVars, content, swap, file, ld, ev, touches, outcome>>

\* Mutant: a lock the thread holds itself is tried for again and again.
EvictMark_retry(p) ==
  LET o == ev[p].p
      g == ev[p].g
      e == spt[o][g]
  IN /\ Running(p, "evict_mark") /\ SptUnlocked(o)
     /\ spt' = IF o = p THEN spt ELSE [spt EXCEPT ![o][g].loaded = FALSE]
     /\ Goto(p, IF o = p THEN "evict_find"
                ELSE IF e.type = "MMAP" THEN IF ev[p].dirty THEN "evict_write" ELSE "register"
                ELSE IF ev[p].dirty \/ e.writable THEN "swap_out" ELSE "register")
     /\ UNCHANGED <<pte, frameVars, content, swap, file, ld, ev, touches, outcome>>

\* Marked not loaded; where the contents go is decided from the entry.
EvictMark(p) ==
  LET o == ev[p].p
      g == ev[p].g
      e == spt[o][g]
  IN /\ Running(p, "evict_mark") /\ SptUnlocked(o)
     /\ spt' = [spt EXCEPT ![o][g].loaded = FALSE]
     /\ Goto(p, IF e.type = "MMAP" THEN IF ev[p].dirty THEN "evict_write" ELSE "register"
                ELSE IF ev[p].dirty \/ e.writable THEN "swap_out" ELSE "register")
     /\ UNCHANGED <<pte, frameVars, content, swap, file, ld, ev, touches, outcome>>

EvictWrite(p) ==
  /\ Running(p, "evict_write")
  /\ file' = [file EXCEPT ![ev[p].p][ev[p].g] = content[ev[p].f][3]]
  /\ Goto(p, "register")
  /\ UNCHANGED <<spt, pte, frameVars, content, swap, ld, ev, touches, outcome>>

\* The first slot whose bit is clear.
swap_out(p) ==
  LET clear == {s \in Slot : swap[s] = None}
  IN /\ Running(p, "swap_out")
     /\ IF clear = {} THEN Stop("swap_full")
        ELSE \E s \in First(clear) :
             /\ swap' = [swap EXCEPT ![s] = content[ev[p].f]]
             /\ ev' = [ev EXCEPT ![p].slot = s]
             /\ Goto(p, "evict_slot")
             /\ UNCHANGED <<spt, pte, frameVars, content, file, ld, touches, outcome>>

\* Mutant: the entry is not told which slot it is in.
EvictSlot_unset(p) ==
  /\ Running(p, "evict_slot") /\ SptUnlocked(ev[p].p)
  /\ spt' = [spt EXCEPT ![ev[p].p][ev[p].g].type = "SWAP"]
  /\ Goto(p, "register")
  /\ UNCHANGED <<pte, frameVars, content, swap, file, ld, ev, touches, outcome>>

\* spt_set_swap.
EvictSlot(p) ==
  /\ Running(p, "evict_slot") /\ SptUnlocked(ev[p].p)
  /\ spt' = [spt EXCEPT ![ev[p].p][ev[p].g].type = "SWAP", ![ev[p].p][ev[p].g].slot = ev[p].slot]
  /\ Goto(p, "register")
  /\ UNCHANGED <<pte, frameVars, content, swap, file, ld, ev, touches, outcome>>

\* The end of frame_alloc after an eviction.
FrameRegister(p) ==
  /\ Running(p, "register")
  /\ frame_table' = Append(frame_table, [f |-> ev[p].f, p |-> p, g |-> ld[p].g, pinned |-> FALSE])
  /\ ld' = [ld EXCEPT ![p].f = ev[p].f]
  /\ ev' = [ev EXCEPT ![p] = None]
  /\ content' = [content EXCEPT ![ev[p].f] = None]
  /\ Goto(p, "fill")
  /\ UNCHANGED <<spt, pte, clock_hand, free_frames, swap, file, touches, outcome>>
-----------------------------------------------------------------------------
\* The part of spt_load_page before frame_alloc, for an entry e that is not
\* loaded.  Reloading a page whose contents another thread is still moving to
\* swap or to its file is a window.
spt_load_page(p, g, e, again, then) ==
  IF \E q \in Evicting(p, g) : pc[q] \in {"evict_write", "swap_out", "evict_slot"}
  THEN StopIn("reload")
  ELSE /\ spt' = [spt EXCEPT ![p][g] = e]
       /\ ld' = [ld EXCEPT ![p] = [g |-> g, f |-> None, again |-> again, then |-> then]]
       /\ Goto(p, "alloc")
       /\ UNCHANGED <<pte, frameVars, content, swap, file, ev, outcome>>

\* The entry load_segment gives to a page of the executable's segments.
load_segment(g) == IF Kind[g] = "code" THEN spt_set_file(FALSE) ELSE spt_set_file(TRUE)

\* load_segment for every page of the file, then setup_stack up to frame_alloc.
setup_stack(p) ==
  /\ Running(p, "load")
  /\ spt' = [spt EXCEPT ![p] = [g \in Page |->
               IF g \notin Layout[p] \/ Kind[g] \in {"grow", "map"} THEN None
               ELSE IF Kind[g] = "stack" THEN spt_set_zero ELSE load_segment(g)]]
  /\ ld' = [ld EXCEPT ![p] = Idle(p)]
  /\ Goto(p, "alloc")
  /\ UNCHANGED <<pte, frameVars, content, swap, file, ev, touches, outcome>>

\* page_fault on page g, back to l: the stack grows, an entry that is not loaded
\* is loaded, anything else ends the process.
page_fault(p, g, l) ==
  LET e == spt_get_entry(p, g)
  IN IF e = None /\ Kind[g] = "grow" THEN spt_load_page(p, g, spt_set_zero, TRUE, l)
     ELSE IF e # None /\ ~e.loaded THEN spt_load_page(p, g, e, FALSE, l)
     ELSE /\ Goto(p, "exit")
          /\ UNCHANGED <<spt, pte, frameVars, content, swap, file, ld, ev, outcome>>

\* What the processor does on an access, a read of a code page or a write of any
\* other: the A bit, on a write the D bit too.
Reach(p, g) ==
  LET write == Kind[g] # "code"
  IN /\ pte' = [pte EXCEPT ![p][g].A = TRUE, ![p][g].D = @ \/ write]
     /\ content' = IF write THEN [content EXCEPT ![pte[p][g].f] = <<p, g, 1>>] ELSE content

\* A user instruction.
Access(p, g) ==
  /\ Running(p, "user") /\ touches[p] > 0
  /\ g \in Layout[p]
  /\ touches' = [touches EXCEPT ![p] = @ - 1]
  /\ IF Mapped(p, g)
     THEN /\ Reach(p, g)
          /\ UNCHANGED <<pc, spt, frameVars, swap, file, ld, ev, outcome>>
     ELSE page_fault(p, g, "user")

\* swap_in and swap_free clear the bit of the slot.
swap_free(s) == [swap EXCEPT ![s] = None]
swap_in(s, f) == /\ content' = [content EXCEPT ![f] = swap[s]]
                 /\ swap' = swap_free(s)

\* The contents of the new frame, by the type the entry had.
PageFill(p) ==
  LET g == ld[p].g
      e == spt[p][g]
  IN /\ Running(p, "fill")
     /\ IF e.type = "SWAP" /\ swap[e.slot] = None THEN Stop("free_slot")
        ELSE /\ IF e.type = "SWAP" THEN swap_in(e.slot, ld[p].f)
                ELSE /\ content' = [content EXCEPT ![ld[p].f] =
                                      <<p, g, IF e.type = "MMAP" THEN file[p][g] ELSE 0>>]
                     /\ UNCHANGED swap
             /\ Goto(p, "install")
             /\ UNCHANGED <<spt, pte, frameVars, file, ld, ev, touches, outcome>>

pagedir_set_page(p) ==
  /\ Running(p, "install")
  /\ pte' = [pte EXCEPT ![p][ld[p].g] = [f |-> ld[p].f, A |-> FALSE, D |-> FALSE]]
  /\ Goto(p, "record")
  /\ UNCHANGED <<spt, frameVars, content, swap, file, ld, ev, touches, outcome>>

\* No kernel memory for a page table; that of a page read from swap exists.
pagedir_set_page_fails(p) ==
  /\ Running(p, "install") /\ spt[p][ld[p].g].type # "SWAP"
  /\ IF Walked(p) THEN Stop("walk")
     ELSE /\ frame_free(ld[p].f)
          /\ LoadFails(p)
          /\ UNCHANGED <<spt, pte, swap, file, ev, touches, outcome>>

\* The last locked part of spt_load_page, and spt_set_loaded.
spt_set_loaded(p) ==
  /\ Running(p, "record")
  /\ spt' = [spt EXCEPT ![p][ld[p].g].loaded = TRUE]
  /\ Goto(p, ld[p].then)
  /\ ld' = IF ld[p].then = "user" THEN [ld EXCEPT ![p] = Idle(p)] ELSE [ld EXCEPT ![p].f = None]
  /\ UNCHANGED <<pte, frameVars, content, swap, file, ev, touches, outcome>>

-----------------------------------------------------------------------------
\* sys_read and sys_write on a buffer in page g: pin_buffer looks the page up.
SysBuffer(p, g) ==
  /\ Running(p, "user") /\ touches[p] > 0
  /\ g \in Layout[p] \cap Buffers /\ (spt[p][g] # None \/ Kind[g] = "grow")   \* valid_uaddr
  /\ touches' = [touches EXCEPT ![p] = @ - 1]
  /\ IF ~Mapped(p, g) /\ spt[p][g] # None /\ ~spt[p][g].loaded THEN spt_load_page(p, g, spt[p][g], FALSE, "pin_look")
     ELSE /\ ld' = [ld EXCEPT ![p] = [g |-> g, f |-> pte[p][g].f, again |-> FALSE, then |-> "sys"]]
          /\ Goto(p, IF Mapped(p, g) THEN "pin" ELSE "sys")
          /\ UNCHANGED <<spt, pte, frameVars, content, swap, file, ev, outcome>>

\* pin_buffer looks the page up again, after the load.
PinLook(p) ==
  /\ Running(p, "pin_look")
  /\ ld' = [ld EXCEPT ![p].f = pagedir_get_page(p, ld[p].g), ![p].then = "sys"]
  /\ Goto(p, IF Mapped(p, ld[p].g) THEN "pin" ELSE "sys")
  /\ UNCHANGED <<spt, pte, frameVars, content, swap, file, ev, touches, outcome>>

\* frame_pin and frame_unpin take frame_lock and walk the table.
PinWalk(p) ==
  /\ pc[p] \in {"pin", "unpin"} /\ outcome = "ok"
  /\ ~Walked(p)                                     \* frame_lock
  /\ Goto(p, IF pc[p] = "pin" THEN "pin_walk" ELSE "unpin_walk")
  /\ UNCHANGED <<spt, pte, frameVars, content, swap, file, ld, ev, touches, outcome>>

\* frame_pin and frame_unpin of the frame looked up before, wherever it is now.
frame_pin(p) ==
  LET i == find_frame(ld[p].f)
      pin == pc[p] = "pin_walk"
  IN /\ pc[p] \in {"pin_walk", "unpin_walk"} /\ outcome = "ok"
     /\ IF i # 0 /\ ~Holds(p, ld[p].g, ld[p].f) THEN Stop("stolen_frame")
        ELSE /\ frame_table' = IF i = 0 THEN frame_table
                               ELSE [frame_table EXCEPT ![i].pinned = pin]
             /\ Goto(p, IF pin THEN "sys" ELSE "user")
             /\ ld' = IF ~pin THEN [ld EXCEPT ![p] = Idle(p)]
                      ELSE IF i = 0 THEN [ld EXCEPT ![p].f = None] ELSE ld
             /\ UNCHANGED <<spt, pte, clock_hand, free_frames, content, swap, file, ev,
                            touches, outcome>>

\* copy_out writes the buffer, or faults on it in the kernel; then unpin_buffer
\* looks the page up.
SysCopy(p) ==
  LET g == ld[p].g
  IN /\ Running(p, "sys")
     /\ touches' = touches
     /\ IF Mapped(p, g)
        THEN /\ Reach(p, g)
             /\ ld' = [ld EXCEPT ![p].f = pte[p][g].f]
             /\ Goto(p, "unpin")
             /\ UNCHANGED <<spt, frameVars, swap, file, ev, outcome>>
        ELSE page_fault(p, g, "sys")

-----------------------------------------------------------------------------
\* sys_mmap of a page that has no entry.
mmap_map(p, g) ==
  /\ Running(p, "user") /\ touches[p] > 0
  /\ g \in Layout[p] /\ Kind[g] = "map" /\ spt[p][g] = None
  /\ spt' = [spt EXCEPT ![p][g] = spt_set_mmap]
  /\ touches' = [touches EXCEPT ![p] = @ - 1]
  /\ UNCHANGED <<pc, pte, frameVars, content, swap, file, ld, ev, outcome>>

sys_exit(p) ==
  /\ Running(p, "user")
  /\ Goto(p, "exit")
  /\ UNCHANGED <<spt, pte, frameVars, content, swap, file, ld, ev, touches, outcome>>

\* mmap_unmap up to the write-back, called by sys_munmap and by mmap_unmap_all.
mmap_unmap(p, g) ==
  /\ pc[p] \in {"user", "exit"} /\ outcome = "ok"
  /\ g \in MapPages(p)
  /\ ld' = [ld EXCEPT ![p] = [g |-> g, f |-> pte[p][g].f, again |-> FALSE, then |-> pc[p]]]
  /\ Goto(p, IF ~Mapped(p, g) THEN "unmap_remove"
             ELSE IF pagedir_is_dirty(p, g) THEN "unmap_write" ELSE "unmap_free")
  /\ UNCHANGED <<spt, pte, frameVars, content, swap, file, ev, touches, outcome>>

UnmapWrite(p) ==
  /\ Running(p, "unmap_write")
  /\ IF ~Holds(p, ld[p].g, ld[p].f) THEN Stop("stolen_frame")
     ELSE /\ file' = [file EXCEPT ![p][ld[p].g] = content[ld[p].f][3]]
          /\ Goto(p, "unmap_free")
          /\ UNCHANGED <<spt, pte, frameVars, content, swap, ld, ev, touches, outcome>>

UnmapFree(p) ==
  /\ Running(p, "unmap_free")
  /\ IF ~Holds(p, ld[p].g, ld[p].f) THEN Stop("stolen_frame")
     ELSE IF Walked(p) THEN Stop("walk")
     ELSE /\ frame_free(ld[p].f)
          /\ Goto(p, "unmap_clear")
          /\ UNCHANGED <<spt, pte, swap, file, ld, ev, touches, outcome>>

\* Mutant: the page stays in the page table.
UnmapClear_not(p) ==
  /\ Running(p, "unmap_clear")
  /\ Goto(p, "unmap_remove")
  /\ UNCHANGED <<spt, pte, frameVars, content, swap, file, ld, ev, touches, outcome>>

UnmapClear(p) ==
  /\ Running(p, "unmap_clear")
  /\ pagedir_clear_page(p, ld[p].g)
  /\ Goto(p, "unmap_remove")
  /\ UNCHANGED <<spt, frameVars, content, swap, file, ld, ev, touches, outcome>>

\* A thread that evicts the page still uses the entry.
spt_remove_entry(p) ==
  /\ Running(p, "unmap_remove")
  /\ IF Evicting(p, ld[p].g) # {} THEN Stop("freed_entry")
     ELSE /\ spt' = [spt EXCEPT ![p][ld[p].g] = None]
          /\ Goto(p, ld[p].then)
          /\ ld' = [ld EXCEPT ![p] = Idle(p)]
          /\ UNCHANGED <<pte, frameVars, content, swap, file, ev, touches, outcome>>

\* spt_destroy takes the lock once mmap_unmap_all is done.
spt_destroy(p) ==
  /\ Running(p, "exit") /\ MapPages(p) = {}
  /\ Goto(p, "destroy")
  /\ ld' = [ld EXCEPT ![p] = Idle(p)]
  /\ touches' = [touches EXCEPT ![p] = 0]
  /\ UNCHANGED <<spt, pte, frameVars, content, swap, file, ev, outcome>>

\* spt_destroy_func of the next entry, in the table's fixed order:
\* pagedir_get_page ...
DestroyLook(p) ==
  /\ Running(p, "destroy")
  /\ \E g \in Page : spt[p][g] # None
  /\ LET g == CHOOSE g \in Page : spt[p][g] # None
     IN ld' = [ld EXCEPT ![p].g = g, ![p].f = pagedir_get_page(p, g)]
  /\ Goto(p, "destroy_free")
  /\ UNCHANGED <<spt, pte, frameVars, content, swap, file, ev, touches, outcome>>

\* ... then the frame found and the swap slot of the entry are freed.  The slot
\* number of a page that has been read back from swap is out of date.
spt_destroy_func(p) ==
  LET g == ld[p].g
      f == ld[p].f
      e == spt[p][g]
      frees == e.type = "SWAP" /\ e.slot # 0
  IN /\ Running(p, "destroy_free")
     /\ IF Evicting(p, g) # {} THEN Stop("freed_entry")
        ELSE IF f # None /\ ~Holds(p, g, f) THEN Stop("stolen_frame")
        ELSE IF f # None /\ Walked(p) THEN Stop("walk")
        ELSE IF frees /\ swap[e.slot] # None /\ swap[e.slot][1] # p THEN Stop("foreign_slot")
        ELSE /\ pagedir_clear_page(p, g)
             /\ IF f = None THEN UNCHANGED <<frameVars, content>> ELSE frame_free(f)
             /\ swap' = IF frees THEN swap_free(e.slot) ELSE swap
             /\ spt' = [spt EXCEPT ![p][g] = None]
             /\ ld' = [ld EXCEPT ![p] = Idle(p)]
             /\ Goto(p, "destroy")
             /\ UNCHANGED <<file, ev, touches, outcome>>

\* The rest of process_exit: pagedir_destroy gives back what is still mapped.
process_exit(p) ==
  /\ Running(p, "destroy") /\ \A g \in Page : spt[p][g] = None
  /\ free_frames' = free_frames \cup {pte[p][g].f : g \in {g \in Page : Mapped(p, g)}}
  /\ pte' = [pte EXCEPT ![p] = [g \in Page |-> [f |-> None, A |-> FALSE, D |-> FALSE]]]
  /\ Goto(p, "dead")
  /\ UNCHANGED <<spt, frame_table, clock_hand, content, swap, file, ld, ev, touches, outcome>>
-----------------------------------------------------------------------------
Init ==
  /\ pc = [p \in Proc |-> "load"]
  /\ spt = [p \in Proc |-> [g \in Page |-> None]]
  /\ pte = [p \in Proc |-> [g \in Page |-> [f |-> None, A |-> FALSE, D |-> FALSE]]]
  /\ frame_table = <<>> /\ clock_hand = None /\ free_frames = Frame
  /\ content = [f \in Frame |-> None]
  /\ swap = [s \in Slot |-> None]
  /\ file = [p \in Proc |-> [g \in Page |-> 0]]
  /\ ld = [p \in Proc |-> Idle(p)]
  /\ ev = [p \in Proc |-> None]
  /\ touches = Touches
  /\ outcome = "ok"

\* A program's choices, and the steps of the kernel on its behalf.
UserStep(p) ==
  \/ sys_exit(p)
  \/ \E g \in Page :
       Access(p, g) \/ SysBuffer(p, g) \/ mmap_map(p, g)
  \/ \E g \in Page : pc[p] = "user" /\ mmap_unmap(p, g)

KernelStep(p) ==
  \/ setup_stack(p) \/ frame_alloc(p) \/ frame_alloc_fails(p)
  \/ evict_frame(p) \/ EvictFind(p) \/ EvictMark(p) \/ EvictWrite(p) \/ swap_out(p) \/ EvictSlot(p)
  \/ FrameRegister(p) \/ PageFill(p) \/ pagedir_set_page(p) \/ pagedir_set_page_fails(p)
  \/ spt_set_loaded(p)
  \/ PinLook(p) \/ PinWalk(p) \/ frame_pin(p) \/ SysCopy(p)
  \/ \E g \in Page : pc[p] = "exit" /\ mmap_unmap(p, g)
  \/ UnmapWrite(p) \/ UnmapFree(p) \/ UnmapClear(p) \/ spt_remove_entry(p)
  \/ spt_destroy(p) \/ DestroyLook(p) \/ spt_destroy_func(p) \/ process_exit(p)

\* Every process is gone, or what follows is not modelled.
Halted ==
  /\ outcome # "ok" \/ \A p \in Proc : pc[p] = "dead"
  /\ UNCHANGED vars

Next == (\E p \in Proc : UserStep(p) \/ KernelStep(p)) \/ Halted

\* The scheduler runs every thread that is ready; a thread inside the kernel
\* waits only for locks, which sema_up hands on in order among equals.
Fairness == \A p \in Proc : WF_vars(KernelStep(p))

Spec == Init /\ [][Next]_vars /\ Fairness

-----------------------------------------------------------------------------
\* Every variable has its type.
TypeOK ==
  /\ spt \in [Proc -> [Page -> {None} \cup Entry]]
  /\ pte \in [Proc -> [Page -> [f : Frame \cup {None}, A : BOOLEAN, D : BOOLEAN]]]
  /\ frame_table \in Seq([f : Frame, p : Proc, g : Page, pinned : BOOLEAN])
  /\ clock_hand \in Frame \cup {None, Stale} /\ free_frames \subseteq Frame
  /\ content \in [Frame -> {None} \cup Contents] /\ swap \in [Slot -> {None} \cup Contents]
  /\ file \in [Proc -> [Page -> {0, 1}]] /\ touches \in [Proc -> Nat]
  /\ ld \in [Proc -> [g : Page, f : Frame \cup {None}, again : BOOLEAN,
                      then : {"user", "pin_look", "sys", "exit"}]]
  /\ ev \in [Proc -> {None} \cup Victim]
  /\ outcome \in {"ok"} \cup Windows \cup Panics

\* Every frame is in exactly one place: the pool, one entry of the frame table,
\* or the hands of one thread between taking it from its owner and registering
\* it (frame_alloc, evict_frame, frame_free); and the clock hand is on an entry.
FramesAccounted ==
  /\ \A f \in Frame :
       LET table == {i \in DOMAIN frame_table : frame_table[i].f = f}
           hands == {p \in Proc : pc[p] \in InEvict \cup {"register"} /\ ev[p].f = f}
           places == ({"table"} \X table) \cup ({"hands"} \X hands)
                       \cup ({"pool"} \X ({f} \cap free_frames))
       IN \E x \in places : places = {x}
  /\ clock_hand \in Frame => find_frame(clock_hand) # 0

\* A page that is present is in a frame registered for it, so no two pages share
\* a frame; but for the page mmap_unmap has freed and not yet cleared.
PresentIsOwned ==
  \A p \in Proc : \A g \in Page :
    Mapped(p, g) => \/ Holds(p, g, pte[p][g].f)
                    \/ pc[p] = "unmap_clear" /\ ld[p].g = g

Claimed(s) ==
  LET p == swap[s][1]
      g == swap[s][2]
  IN \/ spt[p][g] # None /\ spt[p][g].type = "SWAP" /\ spt[p][g].slot = s /\ ~spt[p][g].loaded
     \/ \E q \in Evicting(p, g) : pc[q] = "evict_slot" /\ ev[q].slot = s

\* Every used slot but slot 0 has one page to be read back into: its entry names
\* the slot and is not loaded, or the evictor is about to say so (swap_out,
\* spt_set_swap, swap_in).
SlotsClaimed == \A s \in Slot \ {0} : swap[s] # None => Claimed(s)

\* A frame is pinned only while its owner is in the system call, and the frame
\* the call has pinned stays the page's until the buffer is copied, whatever the
\* other processes evict (pin_buffer, unpin_buffer, evict_frame).
PinnedStays ==
  /\ \A i \in DOMAIN frame_table : frame_table[i].pinned => pc[frame_table[i].p] # "user"
  /\ \A p \in Proc : pc[p] = "sys" /\ ld[p].f # None =>
       Holds(p, ld[p].g, ld[p].f) /\ pte[p][ld[p].g].f = ld[p].f

-----------------------------------------------------------------------------
Alive(p) ==
  /\ pc[p] \notin {"exit", "destroy", "destroy_free", "dead"}
  /\ pc[p] \in {"unmap_write", "unmap_free", "unmap_clear", "unmap_remove"} => ld[p].then # "exit"

Version(p, g, c) == IF c # None /\ c[1] = p /\ c[2] = g THEN c[3] ELSE 2

\* Where the contents of a page are: in its frame, in the frame being filled for
\* it or emptied of it, in its swap slot, in its file.
Value(p, g) ==
  LET f == pte[p][g].f
      e == spt[p][g]
  IN IF ~Alive(p) /\ Kind[g] # "map" THEN 0
     ELSE IF Mapped(p, g) /\ Holds(p, g, f) THEN Version(p, g, content[f])
     ELSE IF Evicting(p, g) # {}
       THEN Version(p, g, content[ev[CHOOSE q \in Evicting(p, g) : TRUE].f])
     ELSE IF pc[p] = "install" /\ ld[p].g = g THEN Version(p, g, content[ld[p].f])
     ELSE IF Kind[g] = "map" THEN file[p][g]
     ELSE IF e # None /\ e.type = "SWAP" THEN Version(p, g, swap[e.slot])
     ELSE 0

UM == INSTANCE UserMemory WITH
        Shared <- {g \in Page : Kind[g] = "map"},
        mem <- [p \in Proc |-> [g \in Page |-> Value(p, g)]],
        alive <- [p \in Proc |-> Alive(p)]

\* A page reads as it was last written, through eviction, swapping, write-back
\* and reloading, and a mapped file keeps what was written when its process ends.
ReadsLastWritten == UM!Spec

\* No process stays in the kernel for ever: a fault is resolved, a system call
\* returns and an exit comes to its end, whoever evicts its pages meanwhile, and
\* evict_frame never waits on a table that is going away or on its own locks.
KernelReturns ==
  \A p \in Proc : []<>(pc[p] \in {"user", "dead"} \/ outcome # "ok")

\* Every frame has one owner at every step of allocation, eviction, unmapping and
\* exit, and a page that is present is in a frame of its own.
FramesOwned == TypeOK /\ FramesAccounted /\ PresentIsOwned
=============================================================================
