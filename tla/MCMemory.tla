------------------------------ MODULE MCMemory -------------------------------
(***************************************************************************)
(* Two processes with a stack page each: p1 has a code page and a page its *)
(* stack grows into, p2 maps a file and passes it to system calls.  Five   *)
(* pages compete for two frames and two swap slots.                        *)
(***************************************************************************)
EXTENDS Memory

CONSTANTS p1, p2, stack, data, code, grow, map, T1, T2

MCKind == [g \in Page |-> CASE g = stack -> "stack" [] g = data -> "data" [] g = code -> "code"
                            [] g = grow -> "grow" [] OTHER -> "map"]
MCLayout == [p \in Proc |-> Page \cap IF p = p1 THEN {stack, code, grow} ELSE {stack, data, map}]
MCTouches == [p \in Proc |-> IF p = p1 THEN T1 ELSE T2]
=============================================================================
