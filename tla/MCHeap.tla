------------------------------- MODULE MCHeap -------------------------------
(***************************************************************************)
(* Two threads on a machine with 6 pages above 1 MB of 80 bytes each: a    *)
(* kernel pool of 3 pages and a user pool of 1 beside their bitmaps, and   *)
(* blocks of 32 bytes, two to an arena.                                    *)
(***************************************************************************)
EXTENDS Heap, TLC

CONSTANTS t1, t2

const_Thread == {t1, t2}

\* Nothing, a block of the second descriptor, a big block of two pages, and a
\* size whose sum with the header wraps around to 0.
const_Sizes == {0, 30, 100, SizeMod - 12}

const_PageCalls == {<<{"PAL_USER"}, 1>>, <<{}, 0>>}

Symmetric == Permutations({t1, t2})
=============================================================================
