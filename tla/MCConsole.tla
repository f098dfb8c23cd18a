------------------------------ MODULE MCConsole ------------------------------
(* Instance of Console for TLC: two readers and two writers; the keys are A
   and left Shift. *)
EXTENDS Console

CONSTANTS r1, r2, w1, w2
==============================================================================
