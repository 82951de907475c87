---------------------------- MODULE MCYvncServer ----------------------------
(* Small instances of YvncServer for TLC: a window of one or two tiles. *)
EXTENDS YvncServer
OneOrTwoTiles == [w \in {"small", "wide"} |-> IF w = "small" THEN {1} ELSE {1, 2}]
Few == [draws |-> 1, connects |-> 2, faults |-> 1]
=============================================================================
