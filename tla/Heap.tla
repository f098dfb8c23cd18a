-------------------------------- MODULE Heap --------------------------------
(***************************************************************************)
(* The kernel's heap: malloc.c (descriptors, arenas, free lists) on top of *)
(* palloc.c (two pools of pages, each with a bitmap of the used ones).     *)
(*                                                                         *)
(* A descriptor's free list and the arenas it owns change only under the   *)
(* descriptor's lock, so a section under that lock which calls no other    *)
(* module is one step.  The bitmap is different: palloc_get_multiple scans *)
(* and flips it under the pool's lock, but palloc_free_multiple clears     *)
(* bits with no lock at all.  Every test and every write of a bit is       *)
(* therefore a step of its own, as it is in the kernel, where the timer    *)
(* can preempt the scan between two bits.                                  *)
(*                                                                         *)
(* Pages are numbered from the first page above 1 MB.  A block is its page *)
(* and its offset in it.  The contents of the blocks are left out: the     *)
(* properties are about which bytes belong to whom.                        *)
(***************************************************************************)
EXTENDS Naturals, Sequences, FiniteSets

CONSTANTS Thread,          \* the kernel threads that use the heap
          PGSIZE,          \* bytes in a page (4096 in the code)
          SizeMod,         \* size_t counts modulo this (2^32 in the code)
          free_pages,      \* pages of RAM above 1 MB
          user_page_limit, \* the -ul option: most pages in the user pool
          Sizes,           \* sizes the threads ask malloc for
          PageCalls,       \* <<flags, page_cnt>> of the direct calls of palloc
          MaxHeld,         \* bound: blocks a thread holds
          None

VARIABLES used,       \* pool -> the bits of its used_map
          pool_lock,  \* pool -> the thread that holds its lock, or None
          arena,      \* page -> the header of the arena there, or None
          free_list,  \* descriptor -> its free blocks, first to last
          lock,       \* descriptor -> the thread that holds its lock, or None
          regs,       \* thread -> where it is and its local variables
          held,       \* thread -> the blocks and pages it was given
          outcome     \* "running", or the assertion that failed

vars == <<used, pool_lock, arena, free_list, lock, regs, held, outcome>>

DIV_ROUND_UP(x, y) == (x + y - 1) \div y

ArenaSize == 12   \* sizeof (struct arena)

(***************************************************************************)
(* The pools.                                                              *)
(***************************************************************************)
byte_cnt(bit_cnt) == 4 * DIV_ROUND_UP(bit_cnt, 32)

bitmap_buf_size(bit_cnt) == 8 + byte_cnt(bit_cnt)

\* The bitmap takes the first pages of the pool.
init_pool(base, page_cnt) ==
  LET bm_pages == DIV_ROUND_UP(bitmap_buf_size(page_cnt), PGSIZE)
  IN  [base |-> base + bm_pages, bit_cnt |-> page_cnt - bm_pages]

user_pages == IF free_pages \div 2 > user_page_limit THEN user_page_limit
                                                     ELSE free_pages \div 2

kernel_pages == free_pages - user_pages

palloc_init ==
  [kernel |-> init_pool(0, kernel_pages),
   user   |-> init_pool(kernel_pages, user_pages)]

Pool == {"kernel", "user"}
Page == 0 .. free_pages - 1

ASSUME PoolsHoldTheirBitmaps ==
  /\ DIV_ROUND_UP(bitmap_buf_size(kernel_pages), PGSIZE) <= kernel_pages
  /\ DIV_ROUND_UP(bitmap_buf_size(user_pages), PGSIZE) <= user_pages

page_from_pool(p, page) ==
  /\ page >= palloc_init[p].base
  /\ page < palloc_init[p].base + palloc_init[p].bit_cnt

(***************************************************************************)
(* The descriptors: one per power of 2 from 16 up to half a page.          *)
(***************************************************************************)
Desc == {d \in 1 .. 10 : 16 * 2^(d - 1) < PGSIZE \div 2}

desc_block_size(d) == 16 * 2^(d - 1)

blocks_per_arena(d) == (PGSIZE - ArenaSize) \div desc_block_size(d)

\* Mutant: a descriptor of half the size is taken for large enough.
FindDesc_half(size) ==
  LET fits == {d \in Desc : 2 * desc_block_size(d) >= size}
  IN  IF fits = {} THEN 0 ELSE CHOOSE d \in fits : \A e \in fits : d <= e

\* The smallest descriptor whose blocks hold SIZE bytes, 0 when none does.
FindDesc(size) ==
  LET fits == {d \in Desc : desc_block_size(d) >= size}
  IN  IF fits = {} THEN 0 ELSE CHOOSE d \in fits : \A e \in fits : d <= e

\* Pages of a big block, in size_t arithmetic.
BigPages(size) ==
  ((((size + ArenaSize) % SizeMod) + PGSIZE - 1) % SizeMod) \div PGSIZE

arena_to_block(page, idx, d) ==
  [page |-> page, ofs |-> ArenaSize + idx * desc_block_size(d)]

ArenaBlocks(page, d) ==
  [i \in 1 .. blocks_per_arena(d) |-> arena_to_block(page, i - 1, d)]

\* The assertions of block_to_arena.
block_to_arena_ok(b) ==
  LET a == arena[b.page]
  IN  /\ a # None
      /\ a.desc # 0 => (b.ofs - ArenaSize) % desc_block_size(a.desc) = 0
      /\ a.desc = 0 => b.ofs = ArenaSize

\* Bytes that block B can hold.
block_size(b) ==
  LET a == arena[b.page]
  IN  IF a.desc # 0 THEN desc_block_size(a.desc)
                    ELSE PGSIZE * a.free_cnt - b.ofs

-----------------------------------------------------------------------------
Idle == [pc |-> "idle", size |-> 0, desc |-> 0, pool |-> "kernel", cnt |-> 0,
         i |-> 0, j |-> 0, old |-> None, assert |-> FALSE]

Init ==
  /\ used = [p \in Pool |-> [i \in 0 .. palloc_init[p].bit_cnt - 1 |-> FALSE]]
  /\ pool_lock = [p \in Pool |-> None]
  /\ arena = [p \in Page |-> None]
  /\ free_list = [d \in Desc |-> <<>>]
  /\ lock = [d \in Desc |-> None]
  /\ regs = [t \in Thread |-> Idle]
  /\ held = [t \in Thread |-> {}]
  /\ outcome = "running"

At(t, pc) == outcome = "running" /\ regs[t].pc = pc

\* What thread T holds once the block at B, asked for with SIZE, is its own.
Block(b, size) == [page |-> b.page, ofs |-> b.ofs, size |-> size]

(***************************************************************************)
(* Returning from malloc.  Inside realloc the caller copies the old block  *)
(* and frees it; a null result leaves the old block as it was.             *)
(***************************************************************************)
ReturnBlock(t, b) ==
  /\ held' = [held EXCEPT ![t] = @ \cup {Block(b, regs[t].size)}]
  /\ regs' = [regs EXCEPT ![t] =
                IF @.old = None THEN Idle
                ELSE [Idle EXCEPT !.pc = "copy", !.size = regs[t].size,
                                  !.i = b.page, !.j = b.ofs, !.old = regs[t].old]]

ReturnNull(t) == regs' = [regs EXCEPT ![t] = Idle] /\ UNCHANGED held

(***************************************************************************)
(* malloc, up to the point where it needs a lock.                          *)
(***************************************************************************)
malloc(t, size, old) ==
  LET d == FindDesc(size)
  IN  regs' = [regs EXCEPT ![t] =
        IF size = 0 THEN Idle
        ELSE IF d # 0
        THEN [Idle EXCEPT !.pc = "malloc", !.size = size, !.desc = d, !.old = old]
        ELSE IF BigPages(size) = 0 THEN Idle
        ELSE [Idle EXCEPT !.pc = "get", !.size = size, !.cnt = BigPages(size),
                          !.old = old]]

Malloc(t) ==
  /\ At(t, "idle")
  /\ Cardinality(held[t]) < MaxHeld
  /\ \E size \in Sizes : malloc(t, size, None)
  /\ UNCHANGED <<used, pool_lock, arena, free_list, lock, held, outcome>>

\* Mutant: the block stays on the free list.
TakeBlock_peek(t) ==
  /\ At(t, "malloc")
  /\ LET d == regs[t].desc
         b == Head(free_list[d])
     IN  /\ lock[d] = None
         /\ free_list[d] # <<>>
         /\ arena' = [arena EXCEPT ![b.page].free_cnt = @ - 1]
         /\ ReturnBlock(t, b)
  /\ UNCHANGED <<used, pool_lock, free_list, lock, outcome>>

\* The section of malloc under the descriptor's lock, when a block is free.
TakeBlock(t) ==
  /\ At(t, "malloc")
  /\ LET d == regs[t].desc
         b == Head(free_list[d])
     IN  /\ lock[d] = None
         /\ free_list[d] # <<>>
         /\ free_list' = [free_list EXCEPT ![d] = Tail(@)]
         /\ arena' = [arena EXCEPT ![b.page].free_cnt = @ - 1]
         /\ ReturnBlock(t, b)
  /\ UNCHANGED <<used, pool_lock, lock, outcome>>

\* The free list is empty: malloc asks for a page, holding the lock.
NeedArena(t) ==
  /\ At(t, "malloc")
  /\ LET d == regs[t].desc
     IN  /\ lock[d] = None
         /\ free_list[d] = <<>>
         /\ lock' = [lock EXCEPT ![d] = t]
  /\ regs' = [regs EXCEPT ![t].pc = "get", ![t].cnt = 1]
  /\ UNCHANGED <<used, pool_lock, arena, free_list, held, outcome>>

\* malloc has its page: the arena's blocks join the free list, the first of
\* the list is the result, the lock is released.
NewArena(t) ==
  /\ At(t, "got")
  /\ regs[t].desc # 0
  /\ LET d    == regs[t].desc
         page == palloc_init.kernel.base + regs[t].i
         all  == free_list[d] \o ArenaBlocks(page, d)
         b    == Head(all)
     IN  /\ free_list' = [free_list EXCEPT ![d] = Tail(all)]
         /\ arena' = [arena EXCEPT
                        ![page] = [desc |-> d, free_cnt |-> blocks_per_arena(d) - 1]]
         /\ lock' = [lock EXCEPT ![d] = None]
         /\ ReturnBlock(t, b)
  /\ UNCHANGED <<used, pool_lock, outcome>>

\* malloc has the pages of a big block.
NewBig(t) ==
  /\ At(t, "got")
  /\ regs[t].desc = 0
  /\ regs[t].size # 0
  /\ LET page == palloc_init.kernel.base + regs[t].i
     IN  /\ arena' = [arena EXCEPT ![page] = [desc |-> 0, free_cnt |-> regs[t].cnt]]
         /\ ReturnBlock(t, [page |-> page, ofs |-> ArenaSize])
  /\ UNCHANGED <<used, pool_lock, free_list, lock, outcome>>

\* Mutant: the early return forgets the descriptor's lock.
NoPages_locked(t) ==
  /\ At(t, "none")
  /\ outcome' = IF regs[t].assert THEN "palloc_get: out of pages" ELSE outcome
  /\ ReturnNull(t)
  /\ UNCHANGED <<used, pool_lock, arena, free_list, lock>>

\* No pages: palloc panics under PAL_ASSERT, and malloc returns null after
\* releasing the lock it holds.
NoPages(t) ==
  /\ At(t, "none")
  /\ lock' = [d \in Desc |-> IF lock[d] = t THEN None ELSE lock[d]]
  /\ outcome' = IF regs[t].assert THEN "palloc_get: out of pages" ELSE outcome
  /\ ReturnNull(t)
  /\ UNCHANGED <<used, pool_lock, arena, free_list>>

(***************************************************************************)
(* palloc.                                                                 *)
(***************************************************************************)
\* A caller other than malloc asks for pages: a frame, a thread, a page table.
palloc_get_multiple(t) ==
  /\ At(t, "idle")
  /\ Cardinality(held[t]) < MaxHeld
  /\ \E c \in PageCalls :
       regs' = [regs EXCEPT ![t] =
                  IF c[2] = 0 THEN Idle
                  ELSE [Idle EXCEPT !.pc = "get", !.cnt = c[2],
                          !.pool = IF "PAL_USER" \in c[1] THEN "user" ELSE "kernel",
                          !.assert = "PAL_ASSERT" \in c[1]]]
  /\ UNCHANGED <<used, pool_lock, arena, free_list, lock, held, outcome>>

\* Takes the pool's lock; bitmap_scan starts at bit 0, if CNT bits can exist.
Scan(t) ==
  /\ At(t, "get")
  /\ LET p == regs[t].pool
     IN  /\ pool_lock[p] = None
         /\ IF regs[t].cnt <= palloc_init[p].bit_cnt
            THEN /\ regs' = [regs EXCEPT ![t].pc = "scan"]
                 /\ pool_lock' = [pool_lock EXCEPT ![p] = t]
            ELSE /\ regs' = [regs EXCEPT ![t].pc = "none"]
                 /\ UNCHANGED pool_lock
  /\ UNCHANGED <<used, arena, free_list, lock, held, outcome>>

\* bitmap_contains tests one bit of the group that starts at I: a used bit
\* moves the group up by one, past the last group the scan fails.
bitmap_scan(t) ==
  /\ At(t, "scan")
  /\ LET r    == regs[t]
         last == palloc_init[r.pool].bit_cnt - r.cnt
     IN  CASE ~used[r.pool][r.i + r.j] ->
                /\ regs' = [regs EXCEPT
                     ![t].pc = IF r.j + 1 = r.cnt THEN "flip" ELSE "scan",
                     ![t].j  = IF r.j + 1 = r.cnt THEN 0 ELSE r.j + 1]
                /\ UNCHANGED pool_lock
           [] used[r.pool][r.i + r.j] /\ r.i < last ->
                /\ regs' = [regs EXCEPT ![t].i = @ + 1, ![t].j = 0]
                /\ UNCHANGED pool_lock
           [] OTHER ->
                /\ regs' = [regs EXCEPT ![t].pc = "none"]
                /\ pool_lock' = [pool_lock EXCEPT ![r.pool] = None]
  /\ UNCHANGED <<used, arena, free_list, lock, held, outcome>>

\* bitmap_set_multiple marks one bit of the group; after the last one the
\* pool's lock is released.
Flip(t) ==
  /\ At(t, "flip")
  /\ LET r    == regs[t]
         done == r.j + 1 = r.cnt
     IN  /\ used' = [used EXCEPT ![r.pool][r.i + r.j] = TRUE]
         /\ regs' = [regs EXCEPT ![t].pc = IF done THEN "got" ELSE "flip",
                                 ![t].j  = IF done THEN 0 ELSE @ + 1]
         /\ pool_lock' = [pool_lock EXCEPT ![r.pool] = IF done THEN None ELSE @]
  /\ UNCHANGED <<arena, free_list, lock, held, outcome>>

\* palloc_get_multiple returns to a caller other than malloc.
GotPages(t) ==
  /\ At(t, "got")
  /\ regs[t].size = 0
  /\ LET r    == regs[t]
         page == palloc_init[r.pool].base + r.i
     IN  held' = [held EXCEPT ![t] =
                    @ \cup {[page |-> page, ofs |-> 0, size |-> PGSIZE * r.cnt]}]
  /\ regs' = [regs EXCEPT ![t] = Idle]
  /\ UNCHANGED <<used, pool_lock, arena, free_list, lock, outcome>>

\* The pool of PAGES, the check that they are all used, the memset that wipes
\* an arena's header.  R is the thread's registers on entry.
palloc_free_multiple(t, r, page, cnt) ==
  LET p   == IF page_from_pool("kernel", page) THEN "kernel" ELSE "user"
      idx == page - palloc_init[p].base
  IN  /\ regs' = [regs EXCEPT ![t] = [r EXCEPT !.pc = "clear", !.pool = p,
                                               !.i = idx, !.cnt = cnt]]
      /\ arena' = [arena EXCEPT ![page] = None]
      /\ outcome' = IF \A k \in idx .. idx + cnt - 1 :
                         k \in DOMAIN used[p] /\ used[p][k]
                    THEN outcome ELSE "bitmap_all"

\* Mutant: palloc_free_multiple resets the first bit only.
Clear_first(t) ==
  /\ At(t, "clear")
  /\ LET r == regs[t]
     IN  /\ used' = [used EXCEPT ![r.pool][r.i] = FALSE]
         /\ lock' = IF r.desc # 0 THEN [lock EXCEPT ![r.desc] = None] ELSE lock
  /\ regs' = [regs EXCEPT ![t] = Idle]
  /\ UNCHANGED <<pool_lock, arena, free_list, held, outcome>>

\* The bits are reset one by one, under no lock of the pool.
Clear(t) ==
  /\ At(t, "clear")
  /\ LET r    == regs[t]
         done == r.j + 1 = r.cnt
     IN  /\ used' = [used EXCEPT ![r.pool][r.i + r.j] = FALSE]
         /\ regs' = [regs EXCEPT ![t] = IF done THEN Idle ELSE [@ EXCEPT !.j = r.j + 1]]
         /\ lock' = IF done /\ r.desc # 0 THEN [lock EXCEPT ![r.desc] = None] ELSE lock
  /\ UNCHANGED <<pool_lock, arena, free_list, held, outcome>>

(***************************************************************************)
(* free and realloc.                                                       *)
(***************************************************************************)
\* free, up to the descriptor's lock.  The arena is read before the lock: it
\* cannot go away while one of its blocks is in use.
free(t, b) ==
  LET a == arena[b.page]
  IN  IF ~block_to_arena_ok(b)
      THEN outcome' = "block_to_arena" /\ UNCHANGED <<regs, arena>>
      ELSE IF a.desc = 0 THEN palloc_free_multiple(t, Idle, b.page, a.free_cnt)
      ELSE /\ regs' = [regs EXCEPT ![t] = [Idle EXCEPT !.pc = "free", !.desc = a.desc,
                                                       !.i = b.page, !.j = b.ofs]]
           /\ UNCHANGED <<arena, outcome>>

Free(t) ==
  /\ At(t, "idle")
  /\ \E b \in held[t] :
       /\ held' = [held EXCEPT ![t] = @ \ {b}]
       /\ IF b.ofs = 0 THEN palloc_free_multiple(t, Idle, b.page, b.size \div PGSIZE)
                       ELSE free(t, b)
  /\ UNCHANGED <<used, pool_lock, free_list, lock>>

\* The section of free under the lock.  An arena that is entirely unused
\* leaves the list and goes back to palloc, still under the lock.
FreeBlock(t) ==
  /\ At(t, "free")
  /\ LET r    == regs[t]
         d    == r.desc
         list == <<[page |-> r.i, ofs |-> r.j]>> \o free_list[d]
         cnt  == arena[r.i].free_cnt + 1
     IN  /\ lock[d] = None
         /\ IF cnt >= blocks_per_arena(d)
            THEN /\ free_list' = [free_list EXCEPT ![d] =
                                    SelectSeq(list, LAMBDA b : b.page # r.i)]
                 /\ lock' = [lock EXCEPT ![d] = t]
                 /\ palloc_free_multiple(t, [Idle EXCEPT !.desc = d], r.i, 1)
            ELSE /\ free_list' = [free_list EXCEPT ![d] = list]
                 /\ arena' = [arena EXCEPT ![r.i].free_cnt = cnt]
                 /\ regs' = [regs EXCEPT ![t] = Idle]
                 /\ UNCHANGED <<lock, outcome>>
  /\ UNCHANGED <<used, pool_lock, held>>

\* realloc to zero bytes frees; otherwise it begins with malloc.
Realloc(t) ==
  /\ At(t, "idle")
  /\ \E b \in {c \in held[t] : c.ofs # 0}, size \in Sizes :
       IF size = 0
       THEN held' = [held EXCEPT ![t] = @ \ {b}] /\ free(t, b)
       ELSE malloc(t, size, b) /\ UNCHANGED <<held, arena, outcome>>
  /\ UNCHANGED <<used, pool_lock, free_list, lock>>

\* realloc copies the smaller of the two sizes and frees the old block.
Copy(t) ==
  /\ At(t, "copy")
  /\ held' = [held EXCEPT ![t] = @ \ {regs[t].old}]
  /\ free(t, regs[t].old)
  /\ UNCHANGED <<used, pool_lock, free_list, lock>>

Next ==
  \E t \in Thread :
    \/ Malloc(t) \/ TakeBlock(t) \/ NeedArena(t) \/ NewArena(t) \/ NewBig(t)
    \/ NoPages(t) \/ palloc_get_multiple(t) \/ Scan(t) \/ bitmap_scan(t)
    \/ Flip(t) \/ GotPages(t) \/ Clear(t)
    \/ Free(t) \/ FreeBlock(t) \/ Realloc(t) \/ Copy(t)

Spec == Init /\ [][Next]_vars

-----------------------------------------------------------------------------
Header == [desc : Desc \cup {0}, free_cnt : Nat]

\* The state has the shape of the C structures, and no assertion of the
\* allocators fails (block_to_arena, bitmap_all in palloc_free_multiple, free_cnt).
TypeOK ==
  /\ \A p \in Pool : used[p] \in [0 .. palloc_init[p].bit_cnt - 1 -> BOOLEAN]
  /\ pool_lock \in [Pool -> Thread \cup {None}]
  /\ \A p \in Page : arena[p] = None \/ arena[p] \in Header
  /\ lock \in [Desc -> Thread \cup {None}]
  /\ \A d \in Desc, k \in 1 .. 2 : k <= Len(free_list[d]) => free_list[d][k].page \in Page
  /\ outcome = "running"

\* The bytes of a block or of a group of pages, from the header's end.
Capacity(b) == IF b.ofs = 0 THEN b.size ELSE block_size(b)

Held == UNION {held[t] : t \in Thread}

\* The bytes from ADDR(b) on that belong to the owner of B.
Start(b) == b.page * PGSIZE + b.ofs

Bytes(b) == Start(b) .. Start(b) + Capacity(b) - 1

Free_(d) == {free_list[d][k] : k \in 1 .. Len(free_list[d])}

PageUsed(page) ==
  \E p \in Pool : page_from_pool(p, page) /\ used[p][page - palloc_init[p].base]

\* A block being freed still belongs to its thread until FreeBlock.
InFree == {[page |-> regs[t].i, ofs |-> regs[t].j] :
             t \in {u \in Thread : regs[u].pc = "free"}}

\* No byte has two owners: the blocks and pages handed out by malloc and
\* palloc, the blocks on the free lists and the arena headers are pairwise
\* disjoint, whatever the order in which scans, flips and the unlocked clearing
\* of bits interleave.
Disjoint ==
  LET frees == UNION {Free_(d) : d \in Desc} \cup InFree
      all   == Held \cup frees
  IN  /\ \A b, c \in all : b # c => Bytes(b) \cap Bytes(c) = {}
      /\ \A d \in Desc : Cardinality(Free_(d)) = Len(free_list[d])
      /\ \A b \in all, page \in Page :
           arena[page] # None => (page * PGSIZE) .. (page * PGSIZE + ArenaSize - 1)
                                   \cap Bytes(b) = {}

\* Every byte a thread or a free list owns lies in pages whose bit is set: the
\* next scan of palloc_get_multiple cannot hand it out again.
OwnedIsUsed ==
  \A b \in Held \cup UNION {Free_(d) : d \in Desc} :
    \A page \in b.page .. (Start(b) + Capacity(b) - 1) \div PGSIZE : PageUsed(page)

\* The number of free blocks in an arena's header is the number of its blocks
\* on the free list; an arena with no block in use was given back.
FreeCounted ==
  \A page \in Page :
    arena[page] # None /\ arena[page].desc # 0 =>
      LET d == arena[page].desc
          n == Cardinality({b \in Free_(d) : b.page = page})
      IN  arena[page].free_cnt = n /\ n < blocks_per_arena(d)

\* When no call is under way, the used pages are exactly those of the arenas,
\* the big blocks and the groups the threads hold: no path loses a page, a
\* failed malloc or realloc included.
NothingLost ==
  (\A t \in Thread : regs[t].pc = "idle") =>
    \A page \in Page :
      PageUsed(page) <=>
        \/ \E q \in Page : /\ arena[q] # None
                           /\ IF arena[q].desc = 0
                              THEN page \in q .. q + arena[q].free_cnt - 1
                              ELSE page = q
        \/ \E b \in Held : b.ofs = 0 /\ page \in b.page .. b.page + b.size \div PGSIZE - 1

\* A block malloc returned holds the bytes that were asked for, and realloc
\* copies no more than either block holds ("a new block of at least SIZE bytes",
\* malloc.c:87) unless SIZE plus the arena header wraps around in size_t.
BlockHolds ==
  \A b \in Held : b.size + ArenaSize < SizeMod => Capacity(b) >= b.size

\* Threads never wait for each other in a circle: the descriptor's lock is
\* taken before the pool's, and some thread inside a call can always step;
\* no path, a failed one included, returns with a lock held.
SomeCallMoves ==
  (\E t \in Thread : regs[t].pc # "idle") =>
    \E t \in Thread :
      \/ regs[t].pc \in {"scan", "flip", "got", "none", "clear", "copy"}
      \/ regs[t].pc \in {"malloc", "free"} /\ lock[regs[t].desc] = None
      \/ regs[t].pc = "get" /\ pool_lock[regs[t].pool] = None

\* What malloc and palloc have handed out is the caller's alone, and no later
\* allocation can get it.
BlocksOwned == TypeOK /\ Disjoint /\ OwnedIsUsed

\* No page and no block is lost: the counts in the arenas and the pools' bitmaps
\* agree with what is in use.
PagesAccounted == FreeCounted /\ NothingLost
=============================================================================
