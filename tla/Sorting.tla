------------------------------- MODULE Sorting -------------------------------
(***************************************************************************)
(* The sorting and searching algorithms of the library: the natural merge  *)
(* sort of lib/kernel/list.c and the heap sort and binary search of        *)
(* lib/stdlib.c.  A list or an array is a sequence, an element of it a     *)
(* position, and a comparator the set of pairs <<a, b>> with a less than b.*)
(***************************************************************************)
EXTENDS Integers, SequencesExt

\* The end of the nondecreasing run that starts at a, Len(s) + 1 being the tail.
find_end_of_run(s, a, less) ==
  Min({p \in a+1..Len(s)+1 : p = Len(s) + 1 \/ <<s[p], s[p - 1]>> \in less})

\* Elements first..last-1 are moved before an earlier position.
list_splice(s, before, first, last) ==
  SubSeq(s, 1, before - 1) \o SubSeq(s, first, last - 1)
    \o SubSeq(s, before, first - 1) \o SubSeq(s, last, Len(s))

RECURSIVE inplace_merge(_, _, _, _, _)
inplace_merge(s, a0, a1b0, b1, less) ==
  IF a0 = a1b0 \/ a1b0 = b1 THEN s
  ELSE IF <<s[a1b0], s[a0]>> \notin less THEN inplace_merge(s, a0 + 1, a1b0, b1, less)
  ELSE inplace_merge(list_splice(s, a0, a1b0, a1b0 + 1), a0 + 1, a1b0 + 1, b1, less)

\* One pass of list_sort from a0 on: pairs of runs are merged; the list and
\* the number of runs put out.
RECURSIVE Pass(_, _, _, _)
Pass(s, a0, runs, less) ==
  LET a1b0 == find_end_of_run(s, a0, less)
      b1 == find_end_of_run(s, a1b0, less)
  IN IF a0 = Len(s) + 1 THEN [s |-> s, runs |-> runs]
     ELSE IF a1b0 = Len(s) + 1 THEN [s |-> s, runs |-> runs + 1]
     ELSE Pass(inplace_merge(s, a0, a1b0, b1, less), b1, runs + 1, less)

RECURSIVE list_sort(_, _)
list_sort(s, less) ==
  LET pass == Pass(s, 1, 0, less)
  IN IF pass.runs > 1 THEN list_sort(pass.s, less) ELSE pass.s

Equal(x, y, less) == <<x, y>> \notin less /\ <<y, x>> \notin less

\* The list keeps the first of each group of adjacent equal elements, the
\* others are appended to duplicates.
list_unique(s, less) ==
  FoldLeft(LAMBDA r, x : IF r.s # <<>> /\ Equal(Last(r.s), x, less)
                         THEN [r EXCEPT !.duplicates = Append(@, x)]
                         ELSE [r EXCEPT !.s = Append(@, x)],
           [s |-> <<>>, duplicates |-> <<>>], s)

\* The earliest largest and the earliest smallest element.
list_max(s, less) == FoldLeft(LAMBDA max, e : IF <<max, e>> \in less THEN e ELSE max, Head(s), s)
list_min(s, less) == FoldLeft(LAMBDA min, e : IF <<e, min>> \in less THEN e ELSE min, Head(s), s)

-----------------------------------------------------------------------------
do_swap(array, a_idx, b_idx) == [array EXCEPT ![a_idx] = array[b_idx], ![b_idx] = array[a_idx]]
do_compare(array, a_idx, b_idx, less) ==
  IF <<array[a_idx], array[b_idx]>> \in less THEN -1
  ELSE IF <<array[b_idx], array[a_idx]>> \in less THEN 1 ELSE 0

RECURSIVE heapify(_, _, _, _)
heapify(array, i, cnt, less) ==
  LET l == IF 2 * i <= cnt /\ do_compare(array, 2 * i, i, less) > 0 THEN 2 * i ELSE i
      max == IF 2 * i + 1 <= cnt /\ do_compare(array, 2 * i + 1, l, less) > 0 THEN 2 * i + 1 ELSE l
  IN IF max = i THEN array ELSE heapify(do_swap(array, i, max), max, cnt, less)

\* sort and qsort: a heap is built, then its top is put at the end again and again.
sort(array, less) ==
  LET cnt == Len(array)
      heap == FoldLeft(LAMBDA a, i : heapify(a, i, cnt, less), array, [k \in 1..cnt \div 2 |-> cnt \div 2 + 1 - k])
  IN FoldLeft(LAMBDA a, i : heapify(do_swap(a, 1, i), 1, i - 1, less), heap, [k \in 1..cnt - 1 |-> cnt + 1 - k])

\* binary_search and bsearch: first and last are 0-based, 0 stands for the null pointer.
RECURSIVE SearchIn(_, _, _, _, _)
SearchIn(key, array, first, last, less) ==
  LET middle == first + (last - first) \div 2
  IN IF first >= last THEN 0
     ELSE IF <<key, array[middle + 1]>> \in less THEN SearchIn(key, array, first, middle, less)
     ELSE IF <<array[middle + 1], key>> \in less THEN SearchIn(key, array, middle + 1, last, less)
     ELSE middle + 1

binary_search(key, array, less) == SearchIn(key, array, 0, Len(array), less)
=============================================================================
