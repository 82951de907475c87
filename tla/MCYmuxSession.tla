--------------------------- MODULE MCYmuxSession ---------------------------
(* Small instances of YmuxSession for TLC. *)
EXTENDS YmuxSession
Screens == [c \in Clients |-> IF c = "a" THEN 1 ELSE 2]
Few == [starts |-> 2, orders |-> 2, faults |-> 1, calls |-> 2, closes |-> 1]
=============================================================================
