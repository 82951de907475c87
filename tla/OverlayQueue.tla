---------------------------- MODULE OverlayQueue ----------------------------
(***************************************************************************)
(* What the bridge's overlay ownership pump promises, with no sequence     *)
(* numbers, copies, refusals or retry queues: an input record the chrome   *)
(* took is owned by the bridge until the daemon applies it, and the daemon *)
(* applies the owned records one at a time, each once, in the order they   *)
(* were taken.                                                             *)
(***************************************************************************)
EXTENDS Sequences, SequencesExt

VARIABLES
  owned,     \* records taken and not applied
  applied    \* records the daemon applied

Init == owned = <<>> /\ applied = <<>>

\* The records of one chunk or one pointer event join the queue together.
Take == IsStrictPrefix(owned, owned') /\ UNCHANGED applied

Apply ==
  /\ owned # <<>>
  /\ applied' = Append(applied, Head(owned))
  /\ owned' = Tail(owned)

Next == Take \/ Apply

Spec == Init /\ [][Next]_<<owned, applied>>
=============================================================================
