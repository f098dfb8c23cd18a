------------------------------ MODULE MCLibrary ------------------------------
(***************************************************************************)
(* Inputs for the library's algorithms.                                    *)
(***************************************************************************)
EXTENDS Library

MCHashOf == <<0, 2, 5, 3>>         \* some keys share a bucket of two and not of four
MCFlagSets == SUBSET {"MINUS", "PLUS", "ZERO"}
                \cup {{"SPACE"}, {"SPACE", "PLUS"}, {"POUND"}, {"POUND", "ZERO"}, {"GROUP"}, {"GROUP", "MINUS"}}
MCWidths == {-6, 0, 9}
MCPrecisions == {-1, 0, 5, 14}     \* 14: more than the buffer of 12 holds
MCNumbers == {-129, 0, 42, 12345}
MCLoads == {0, 1, 2, 31, 32, 33, 100, 227, 320}
MCRecents == {-640, -33, -32, -1, 0, 1, 31, 32, 127, 128, 1000, 8064, 16000}
MCNices == {-20, -3, 0, 1, 20}
=============================================================================
