--------------------------- MODULE MCYmuxOverlay ---------------------------
(* Small instances of YmuxOverlay for TLC. *)
EXTENDS YmuxOverlay
=============================================================================
