-------------------------------- MODULE KList --------------------------------
(***************************************************************************)
(* The ordered operations of lib/kernel/list.c on a list seen as a         *)
(* sequence.  A comparator (list_less_func) is the relation it decides:    *)
(* the set of pairs <<a, b>> with less (a, b) true.                        *)
(***************************************************************************)
EXTENDS Integers, Sequences, FiniteSets

\* The elements of a list, and that no element is linked twice.
Elems(s) == {s[i] : i \in 1..Len(s)}
NoDup(s) == \A i, j \in 1..Len(s) : s[i] = s[j] => i = j

\* list_insert: x is linked just before position p (Len(s) + 1 is the tail).
list_insert(s, p, x) ==
  [i \in 1..(Len(s) + 1) |->
     IF i < p THEN s[i] ELSE IF i = p THEN x ELSE s[i - 1]]

\* The loop of list_insert_ordered stops at the first element that x precedes.
InsertPos(s, x, less) ==
  LET P == {i \in 1..Len(s) : <<x, s[i]>> \in less}
  IN  IF \E i \in P : \A j \in P : i <= j
      THEN CHOOSE i \in P : \A j \in P : i <= j
      ELSE Len(s) + 1

list_insert_ordered(s, x, less) == list_insert(s, InsertPos(s, x, less), x)

\* Where list_sort puts the element at position i: after every element that
\* is less, and after the equal ones that stood before it (the sort is stable).
Precedes(s, less, i) ==
  {j \in 1..Len(s) : \/ <<s[j], s[i]>> \in less
                     \/ j < i /\ <<s[i], s[j]>> \notin less}

Rank(s, less, i) == Cardinality(Precedes(s, less, i)) + 1

list_sort(s, less) ==
  [k \in 1..Len(s) |-> s[CHOOSE i \in 1..Len(s) : Rank(s, less, i) = k]]

\* The nondecreasing runs list.c calls sorted (is_sorted).
is_sorted(s, less) == \A i \in 2..Len(s) : <<s[i], s[i - 1]>> \notin less
=============================================================================
