------------------------------- MODULE MCSynch -------------------------------
(* Instance of Synch for TLC. *)
EXTENDS Synch, TLC

CONSTANTS t1, t2, t3

MCThreads == {t1, t2, t3}
BoundsMain == t1 :> 2 @@ t2 :> 1 @@ t3 :> 1

\* With BoundsMain nothing tells t2 and t3 apart.
Symmetry == Permutations({t2, t3})
=============================================================================
