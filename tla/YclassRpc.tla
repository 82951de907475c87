------------------------------ MODULE YclassRpc ------------------------------
(***************************************************************************)
(* A yclass RPC session on one dynamic ywire channel: the client of        *)
(* yclass/rpc.c in its ASYNC mode, and the host's per-channel server of    *)
(* yclass/rpc-connection-server.c.                                         *)
(*                                                                         *)
(* Nothing on the wire names a call.  A void call is sent, put at the end  *)
(* of the pending list, and completed by the next reply frame that finds   *)
(* it at the head; a round-trip blocks until it reads the next reply; a    *)
(* one-way call has no reply.  Every pairing rests on the order of two     *)
(* byte streams, which are what YwireStream promises.                      *)
(*                                                                         *)
(* The unit of both streams is one field: a request is its header (header  *)
(* word and body_len) and the units of its body, a reply its resp_len and, *)
(* unless that is 0, its payload.  A reply is the answer "ok", "err"       *)
(* (status byte 1 and a chain) or "empty" (the dispatch failed, or the     *)
(* skeleton refused the body).                                             *)
(*                                                                         *)
(* Faults, at most MaxFaults of them: a flush that fails after the request *)
(* has been written, a round-trip that times out, a reply the host cannot  *)
(* write.  Allocation failures are left out.                               *)
(***************************************************************************)
EXTENDS Naturals, Sequences, FiniteSets, Functions

CONSTANTS
  FRAME_MAX,   \* BUF_MAX and RPC_CHANNEL_FRAME_MAX, in units
  CHUNK_MAX,   \* units of one DATA message
  Sizes,       \* body sizes of the requests
  MaxCalls,    \* bound: requests written
  MaxFaults    \* bound: faults

ASSUME RpcAssumption ==
  /\ FRAME_MAX \in Nat \ {0}
  /\ CHUNK_MAX \in Nat \ {0}
  /\ Sizes \subseteq 0 .. FRAME_MAX
  /\ MaxCalls \in Nat
  /\ MaxFaults \in Nat

VARIABLES
  calls,      \* the requests written, in order
  pending,    \* pending_head .. pending_tail
  waiting,    \* 0, or the call whose round-trip blocks in recv
  inbound,    \* inbound_buf
  completed,  \* completed_total
  garbled,    \* a reply has been read from its middle: the rest parses as garbage
  gone,       \* yetty_yclass_rpc_session_destroy has run
  closed,     \* the client has received the host's CLOSE
  up,         \* request units the host has not received
  down,       \* reply units the client has not taken
  inbuf,      \* server->inbuf
  dead,       \* server->dead
  applied,    \* history: the calls the host dispatched, in order
  abandoned,  \* history: calls with a reply nobody waits for
  reads,      \* history: round-trips that returned, and the reply each read
  sink,       \* history: error_sink calls: the name given, the reply's call
  faults      \* faults so far

session == <<pending, waiting, inbound, completed, garbled, gone, closed>>
server  == <<inbuf, dead, applied>>
history == <<abandoned, reads, sink>>
vars == <<calls, session, up, down, server, history, faults>>

Calls == 1 .. MaxCalls
Answers == {"ok", "err", "empty"}

Init ==
  /\ calls = <<>> /\ pending = <<>> /\ waiting = 0 /\ inbound = <<>>
  /\ completed = 0 /\ garbled = FALSE /\ gone = FALSE /\ closed = FALSE
  /\ up = <<>> /\ down = <<>> /\ inbuf = <<>> /\ dead = FALSE
  /\ applied = <<>> /\ abandoned = {} /\ reads = <<>> /\ sink = <<>>
  /\ faults = 0

-----------------------------------------------------------------------------
(* The frames *)

Drop(s, n) == SubSeq(s, n + 1, Len(s))
Take(s, n) == SubSeq(s, 1, n)

Request(k, size) == [i \in 1 .. size + 1 |-> [call |-> k, part |-> i - 1]]

(* The last unit of a request or of a reply. *)
EndsRequest(u) == u.part = calls[u.call].size
EndsReply(u) == u.part = IF u.answer = "empty" THEN 0 ELSE 1

-----------------------------------------------------------------------------
(* The client *)

Live == ~gone /\ ~garbled /\ waiting = 0

(* complete_pending_call: a reply pops the head of the pending list; one    *)
(* that finds the list empty is dropped with a warning.                     *)
Completed(s, reply) ==
  IF s.pending = <<>> THEN s
  ELSE [s EXCEPT !.pending = Tail(@), !.completed = @ + 1,
                 !.sink = IF reply.answer # "err" THEN @
                          ELSE Append(@, [name  |-> Head(s.pending),
                                          reply |-> reply.call])]

(* yetty_yclass_rpc_session_pump once it has taken n units: each complete   *)
(* reply in the reassembly buffer is peeled off its front, the rest stays.  *)
Peeled(s, u) == IF EndsReply(u) THEN Completed([s EXCEPT !.inbound = <<>>], u)
                                ELSE [s EXCEPT !.inbound = Append(@, u)]
Pumped(n) ==
  LET peeled[i \in 0 .. n] ==
        IF i = 0 THEN [inbound   |-> inbound,   pending |-> pending,
                       completed |-> completed, sink    |-> sink]
        ELSE Peeled(peeled[i - 1], down[i])
  IN  peeled[n]

Pump(n) ==
  /\ Live
  /\ LET p == Pumped(n)
     IN  /\ inbound' = p.inbound /\ pending' = p.pending
         /\ completed' = p.completed /\ sink' = p.sink
  /\ down' = Drop(down, n)
  /\ UNCHANGED <<calls, waiting, garbled, gone, closed, up, server, abandoned,
                 reads, faults>>

(* rpc_write_request: a channel that has received CLOSE takes no bytes. *)
WriteRequest(op, size, ticket) ==
  /\ ~closed
  /\ Len(calls) < MaxCalls
  /\ calls' = Append(calls, [op |-> op, size |-> size, ticket |-> ticket])
  /\ up' = up \o Request(Len(calls) + 1, size)

(* The flush after a write may fail; the channel keeps the bytes and a later *)
(* pump of the connection sends them.                                        *)
FlushFails == faults < MaxFaults /\ faults' = faults + 1

(* yetty_yclass_rpc_call_void.  ticket is what an embedder that snapshots    *)
(* completed_total and pending when it queues the call obtains.              *)
CallVoid(size, n) ==
  LET p == Pumped(n)
      k == Len(calls) + 1
  IN  /\ Live
      /\ inbound' = p.inbound /\ down' = Drop(down, n)
      /\ completed' = p.completed /\ sink' = p.sink
      /\ WriteRequest("CALL", size, p.completed + Len(p.pending) + 1)
      /\ \/ /\ pending' = Append(p.pending, k)
            /\ UNCHANGED <<abandoned, faults>>
         \/ /\ FlushFails
            /\ pending' = p.pending
            /\ abandoned' = abandoned \union {k}
      /\ UNCHANGED <<waiting, garbled, gone, closed, server, reads>>

(* yetty_yclass_rpc_call_oneway; its flush may fail without consequence. *)
CallOneway(size) ==
  /\ Live
  /\ WriteRequest("ONEWAY", size, 0)
  /\ UNCHANGED <<session, down, server, history, faults>>

(* yetty_yclass_rpc_call and _call_alloc: refused while the pipeline is not *)
(* empty, otherwise written and awaited.                                    *)
\* mutant: round-trips with completions pending
SyncAllowedAlways == TRUE
SyncAllowed == pending = <<>>

CallSync(size) ==
  /\ Live
  /\ SyncAllowed
  /\ WriteRequest("SYNC", size, 0)
  /\ waiting' = Len(calls) + 1
  /\ UNCHANGED <<pending, inbound, completed, garbled, gone, closed, down, server,
                 history, faults>>

(* The blocked round-trip reads the next reply off the channel itself.  If  *)
(* a pump had taken the beginning of that reply, it reads from its middle.  *)
ReadReply ==
  /\ waiting # 0
  /\ \/ /\ inbound = <<>>
        /\ \E n \in DOMAIN down :
             /\ EndsReply(down[n])
             /\ \A i \in 1 .. n - 1 : ~EndsReply(down[i])
             /\ down' = Drop(down, n)
             /\ reads' = Append(reads, [call |-> waiting, reply |-> down[n].call])
        /\ UNCHANGED garbled
     \/ /\ inbound # <<>> /\ down # <<>>
        /\ garbled' = TRUE
        /\ UNCHANGED <<down, reads>>
  /\ waiting' = 0
  /\ UNCHANGED <<calls, pending, inbound, completed, gone, closed, up, server,
                 abandoned, sink, faults>>

(* recv gives up: nothing arrived for YWIRE_PUMP_TIMEOUT_MS, the flush       *)
(* before it failed, or the channel has been closed under it.  It may have   *)
(* taken the resp_len of a reply whose payload has not arrived.              *)
GiveUp ==
  /\ waiting # 0
  /\ \/ /\ closed /\ \A i \in DOMAIN down : ~EndsReply(down[i])
        /\ UNCHANGED faults
     \/ faults < MaxFaults /\ faults' = faults + 1
  /\ garbled' \in {FALSE, down # <<>> /\ ~EndsReply(down[1])}
  /\ abandoned' = abandoned \union {waiting}
  /\ waiting' = 0
  /\ UNCHANGED <<calls, pending, inbound, completed, gone, closed, up, down, server,
                 reads, sink>>

(* on_channel_close: the CLOSE of the host, behind its last reply. *)
CloseArrives ==
  /\ dead /\ ~closed /\ ~gone
  /\ closed' = TRUE
  /\ UNCHANGED <<calls, pending, waiting, inbound, completed, garbled, gone, up, down,
                 server, history, faults>>

(* yetty_yclass_rpc_session_destroy: completions that have arrived are       *)
(* surfaced, the rest of the list is freed, and the close of the channel     *)
(* discards the requests that are not on the wire yet.                       *)
Destroy(n) ==
  /\ ~gone /\ waiting = 0
  /\ sink' = IF garbled THEN sink ELSE Pumped(n).sink
  /\ completed' = IF garbled THEN completed ELSE Pumped(n).completed
  /\ pending' = <<>> /\ inbound' = <<>> /\ down' = <<>>
  /\ gone' = TRUE
  /\ \E m \in 0 .. Len(up) : up' = Take(up, m)
  /\ UNCHANGED <<calls, waiting, garbled, closed, server, abandoned, reads, faults>>

-----------------------------------------------------------------------------
(* The host *)

\* mutant: one-way calls are answered too
HasReplyAlways(k) == TRUE
HasReply(k) == calls[k].op # "ONEWAY"

\* mutant: a failed dispatch is not answered
ReplyToDispatched(k, answer) ==
  IF ~HasReply(k) \/ answer = "empty" THEN <<>>
  ELSE << [call |-> k, part |-> 0, answer |-> answer],
          [call |-> k, part |-> 1, answer |-> answer] >>
ReplyTo(k, answer) ==
  IF ~HasReply(k) THEN <<>>
  ELSE IF answer = "empty" THEN << [call |-> k, part |-> 0, answer |-> answer] >>
  ELSE << [call |-> k, part |-> 0, answer |-> answer],
          [call |-> k, part |-> 1, answer |-> answer] >>

(* rpc_channel_drain once it has taken n units: each complete request in    *)
(* the reassembly buffer is dispatched, answered and peeled off its front.  *)
\* mutant: a dispatched request stays in the reassembly buffer
ServedKeeps(s, u, answer) ==
  IF EndsRequest(u)
  THEN [inbuf |-> s.inbuf, applied |-> Append(s.applied, u.call),
        down  |-> s.down \o ReplyTo(u.call, answer[u.call])]
  ELSE [s EXCEPT !.inbuf = Append(@, u)]
Served(s, u, answer) ==
  IF EndsRequest(u)
  THEN [inbuf |-> <<>>, applied |-> Append(s.applied, u.call),
        down  |-> s.down \o ReplyTo(u.call, answer[u.call])]
  ELSE [s EXCEPT !.inbuf = Append(@, u)]
Drained(n, answer) ==
  LET served[i \in 0 .. n] ==
        IF i = 0 THEN [inbuf |-> inbuf, applied |-> applied, down |-> down]
        ELSE Served(served[i - 1], up[i], answer)
  IN  served[n]

(* rpc_channel_kill: the close discards replies that are not on the wire. *)
Kill(replies) ==
  /\ dead' = TRUE /\ inbuf' = <<>>
  /\ \E m \in 0 .. Len(replies) : down' = Take(replies, m)

(* A reply that cannot be written or flushed kills the channel, perhaps     *)
(* with a part of it sent; the requests behind it are not looked at.        *)
Drain(n) ==
  \E answer \in [{up[i].call : i \in 1 .. n} -> Answers] :
    \/ LET s == Drained(n, answer)
       IN  /\ inbuf' = s.inbuf /\ applied' = s.applied /\ down' = s.down
           /\ UNCHANGED <<dead, faults>>
    \/ /\ faults < MaxFaults /\ faults' = faults + 1
       /\ \E j \in 1 .. n :
            /\ EndsRequest(up[j]) /\ HasReply(up[j].call)
            /\ LET s == Drained(j, answer)
               IN  applied' = s.applied /\ Kill(s.down)

(* rpc_channel_raw_sink: one DATA message of n units. *)
HostReceives(n) ==
  /\ up' = Drop(up, n)
  /\ \/ /\ dead
        /\ UNCHANGED <<down, server, faults>>
     \/ /\ ~dead /\ Len(inbuf) + n > FRAME_MAX
        /\ Kill(down)
        /\ UNCHANGED <<applied, faults>>
     \/ /\ ~dead /\ Len(inbuf) + n <= FRAME_MAX
        /\ Drain(n)
  /\ UNCHANGED <<calls, session, history>>

-----------------------------------------------------------------------------
HostStep == \E n \in 1 .. CHUNK_MAX : n <= Len(up) /\ HostReceives(n)
PumpStep == \E n \in DOMAIN down : Pump(n)

Next ==
  \/ \E size \in Sizes, n \in 0 .. Len(down) : CallVoid(size, n)
  \/ \E size \in Sizes : CallOneway(size)
  \/ \E size \in Sizes : CallSync(size)
  \/ PumpStep
  \/ ReadReply
  \/ GiveUp
  \/ CloseArrives
  \/ \E n \in 0 .. Len(down) : Destroy(n)
  \/ HostStep

Spec == Init /\ [][Next]_vars

(* The connection keeps delivering, the embedder's loop keeps pumping, and a *)
(* blocked recv returns once its reply is there.                             *)
FairSpec == Spec /\ WF_vars(HostStep) /\ WF_vars(PumpStep) /\ WF_vars(ReadReply)

-----------------------------------------------------------------------------
(* Properties *)

TypeOK ==
  /\ calls \in Seq([op : {"CALL", "ONEWAY", "SYNC"}, size : Sizes, ticket : Nat])
  /\ Len(calls) <= MaxCalls
  /\ pending \in Seq(Calls) /\ waiting \in {0} \union Calls
  /\ completed \in 0 .. MaxCalls
  /\ {garbled, gone, closed, dead} \subseteq BOOLEAN
  /\ {up, inbuf} \subseteq Seq([call : Calls, part : 0 .. FRAME_MAX])
  /\ {down, inbound} \subseteq Seq([call : Calls, part : {0, 1}, answer : Answers])
  /\ applied \in Seq(Calls) /\ abandoned \subseteq Calls
  /\ reads \in Seq([call : Calls, reply : Calls])
  /\ sink \in Seq([name : Calls, reply : Calls])
  /\ faults \in 0 .. MaxFaults

(* The contract rpc.h gives an embedder that counts: once completed_total    *)
(* has reached the snapshot taken when a call was queued, the host has       *)
(* applied that call.  Every call whose reply nobody waits for (a timed-out  *)
(* round-trip, a flush that failed) may push the count one ahead.            *)
CompletedIsApplied ==
  \A k \in DOMAIN calls :
    calls[k].op = "CALL" /\ k \notin abandoned
      /\ completed >= calls[k].ticket + Cardinality(abandoned)
    => k \in Range(applied)

(* While no call has been abandoned, a round-trip returns its own reply and  *)
(* the error sink is given the name of the call that failed: the guard that  *)
(* refuses a round-trip with completions pending, and the one-way calls that *)
(* get no reply, are all that keeps the two streams paired.                  *)
OwnReplies ==
  abandoned = {} =>
    /\ \A i \in DOMAIN reads : reads[i].reply = reads[i].call
    /\ \A i \in DOMAIN sink : sink[i].reply = sink[i].name

(* The host dispatches requests in the order they were written, each at most *)
(* once and without a gap: a frame that lies across two DATA messages is     *)
(* neither lost nor run again.                                               *)
DispatchedInOrder ==
  /\ applied = [i \in DOMAIN applied |-> i]
  /\ ~dead /\ inbuf # <<>> => inbuf[1] = [call |-> Len(applied) + 1, part |-> 0]

(* A queued call is completed, whatever the host made of it, unless the      *)
(* channel dies or the session is destroyed or loses its place in the        *)
(* stream: a sender that waits for its pipeline does not wait for ever.      *)
QueuedIsCompleted ==
  \A k \in Calls :
    k \in Range(pending) ~> (k \notin Range(pending) \/ dead \/ garbled)

=============================================================================
