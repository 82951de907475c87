---------------------------- MODULE MCYclassRpc ----------------------------
(* A small instance of YclassRpc for TLC. *)
EXTENDS YclassRpc
=============================================================================
