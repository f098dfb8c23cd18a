----------------------------- MODULE UserMemory ------------------------------
(***************************************************************************)
(* What virtual memory promises a program: a page reads as it was last     *)
(* written, whatever the kernel does with frames, swap slots and files in  *)
(* the meantime.  A page holds 0 (its initial contents) or 1 (written).    *)
(* Memory implements this.                                                 *)
(***************************************************************************)
CONSTANTS Proc, Page,
          Shared        \* pages whose contents outlive the process (mapped files)

VARIABLES mem, alive

Init ==
  /\ mem = [p \in Proc |-> [g \in Page |-> 0]]
  /\ alive = [p \in Proc |-> TRUE]

Write(p, g) ==
  /\ alive[p]
  /\ mem' = [mem EXCEPT ![p][g] = 1]
  /\ UNCHANGED alive

Exit(p) ==
  /\ alive[p]
  /\ alive' = [alive EXCEPT ![p] = FALSE]
  /\ mem' = [mem EXCEPT ![p] = [g \in Page |-> IF g \in Shared THEN @[g] ELSE 0]]

\* A write that changes nothing is a stuttering step.
Next ==
  /\ <<mem, alive>>' # <<mem, alive>>
  /\ \E p \in Proc : Exit(p) \/ \E g \in Page : Write(p, g)

Spec == Init /\ [][Next]_<<mem, alive>>
=============================================================================
