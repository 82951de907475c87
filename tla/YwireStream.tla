----------------------------- MODULE YwireStream -----------------------------
(***************************************************************************)
(* What a dynamic ywire channel promises its two consumers, with no slots, *)
(* windows, chunks or messages: each direction is an ordered byte stream   *)
(* that loses nothing while the channel is open, REMOTE_EOF and CLOSED are *)
(* told at most once, and nothing arrives after either of them.            *)
(***************************************************************************)
EXTENDS Naturals, Sequences

CONSTANTS
  Id,        \* channel ids
  Opened     \* Opened[e]: the ids endpoint e is the one to open

Endpoint == {"client", "host"}
Peer(e) == IF e = "client" THEN "host" ELSE "client"

VARIABLES
  accepted,  \* accepted[e][id]: bytes e's consumer wrote
  arrived,   \* arrived[e][id]: bytes that reached e, by number
  told,      \* told[e][id]: events e's consumer was told
  closers    \* closers[e]: ids e's consumer closed

vars == <<accepted, arrived, told, closers>>

Told(e, id, event) == \E k \in 1 .. Len(told[e][id]) : told[e][id][k] = event
Closed(id) == \E e \in Endpoint : id \in closers[e]

Init ==
  /\ accepted = [e \in Endpoint |-> [id \in Id |-> 0]]
  /\ arrived = [e \in Endpoint |-> [id \in Id |-> <<>>]]
  /\ told = [e \in Endpoint |-> [id \in Id |-> <<>>]]
  /\ closers = [e \in Endpoint |-> {}]

(* Bytes are accepted until the end closes, is told CLOSED, or the peer has *)
(* been told that this end's stream is over.                                *)
Accept(e, id) ==
  /\ id \notin closers[e]
  /\ ~Told(e, id, "CLOSED")
  /\ ~Told(Peer(e), id, "REMOTE_EOF")
  /\ accepted'[e][id] > accepted[e][id]
  /\ accepted' = [accepted EXCEPT ![e][id] = accepted'[e][id]]
  /\ UNCHANGED <<arrived, told, closers>>

(* The next accepted bytes arrive, in order. *)
Arrive(e, id) ==
  /\ ~Told(e, id, "REMOTE_EOF")
  /\ ~Told(e, id, "CLOSED")
  /\ \E n \in (Len(arrived[e][id]) + 1) .. accepted[Peer(e)][id] :
       arrived' = [arrived EXCEPT ![e][id] = [k \in 1 .. n |-> k]]
  /\ UNCHANGED <<accepted, told, closers>>

(* The end of the stream is told once; unless somebody closed the channel,   *)
(* only when all of it has arrived.                                          *)
TellEof(e, id) ==
  /\ ~Told(e, id, "REMOTE_EOF")
  /\ Closed(id) \/ Len(arrived[e][id]) = accepted[Peer(e)][id]
  /\ told' = [told EXCEPT ![e][id] = Append(@, "REMOTE_EOF")]
  /\ UNCHANGED <<accepted, arrived, closers>>

Close(e, id) ==
  /\ ~Told(e, id, "CLOSED")
  /\ closers' = [closers EXCEPT ![e] = @ \union {id}]
  /\ UNCHANGED <<accepted, arrived, told>>

(* CLOSED is told once, and only if somebody closed the channel or the peer  *)
(* refused the one this end opened.                                          *)
TellClosed(e, id) ==
  /\ ~Told(e, id, "CLOSED")
  /\ Closed(id) \/ id \in Opened[e]
  /\ told' = [told EXCEPT ![e][id] = Append(@, "CLOSED")]
  /\ UNCHANGED <<accepted, arrived, closers>>

Next ==
  \E e \in Endpoint, id \in Id :
    \/ Accept(e, id) \/ Arrive(e, id) \/ TellEof(e, id)
    \/ Close(e, id) \/ TellClosed(e, id)

Spec == Init /\ [][Next]_vars

=============================================================================
