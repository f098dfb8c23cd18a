------------------------------- MODULE MCFiles -------------------------------
(***************************************************************************)
(* Two processes, two names and room for two files.                        *)
(***************************************************************************)
EXTENDS Files, TLC

CONSTANTS p1, p2, a, b

Symmetric == Permutations(Proc)
=============================================================================
