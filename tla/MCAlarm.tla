------------------------------- MODULE MCAlarm -------------------------------
(* Instance of Alarm for TLC. *)
EXTENDS Alarm, TLC

CONSTANTS t1, t2, t3

MCThreads == {t1, t2, t3}
Bounds == [t \in MCThreads |-> 1]
=============================================================================
