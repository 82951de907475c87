---------------------------- MODULE MCYworkPool ----------------------------
(* Small instances of YworkPool for TLC: the loop and one other thread. *)
EXTENDS YworkPool

BothThreads == {"loop", "other"}
=============================================================================
