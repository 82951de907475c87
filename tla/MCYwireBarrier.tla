--------------------------- MODULE MCYwireBarrier ---------------------------
(* Small instances of YwireBarrier for TLC. *)
EXTENDS YwireBarrier
=============================================================================
