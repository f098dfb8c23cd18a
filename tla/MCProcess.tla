------------------------------ MODULE MCProcess ------------------------------
(* Instance of Process for TLC. *)
EXTENDS Process, TLC

CONSTANTS root, p1, p2

MCProcs == {root, p1, p2}
MCStatus == {-1, 7}
=============================================================================
