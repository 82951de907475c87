---------------------------- MODULE YwireChannel ----------------------------
(***************************************************************************)
(* Dynamic channels of a yetty ywire connection (src/yetty/ywire).         *)
(*                                                                         *)
(* A connection multiplexes many byte streams (channels) over one terminal *)
(* byte stream.  Two endpoints, the in-pane client and the host, exchange  *)
(* OPEN / DATA / EOF / CLOSE / WINDOW_ADJUST envelopes.  OPEN is           *)
(* optimistic (never confirmed), each direction of a channel has a         *)
(* flow-control window, and everything an endpoint sends leaves through    *)
(* one fair outbound scheduler (pump_outbound).                            *)
(*                                                                         *)
(* An endpoint is single threaded: while its scheduler loop runs, it does  *)
(* nothing else.  The loop is modelled slot by slot (variable pump), so    *)
(* the peer may already be reading what the loop has shipped so far.       *)
(*                                                                         *)
(* Bytes of a direction of a channel are numbered 1, 2, ... in the order   *)
(* write() accepts them, and a DATA message carries the numbers.  Buffer   *)
(* offsets are therefore offsets in that stream: the code's clearing of a  *)
(* fully drained buffer does not show.                                     *)
(***************************************************************************)
EXTENDS Naturals, Sequences, FiniteSets

CONSTANTS
  NSlots,          \* dynamic slots of a connection's channel table (13 in the code)
  WINDOW_DEFAULT,  \* default flow-control window, in bytes (256 KiB)
  CHUNK_MAX,       \* most bytes one DATA message carries (16 KiB)
  HIGH_WATER,      \* bytes after which a scheduler run stops (64 KiB)
  InitialWindows,  \* receive windows an opener asks for (0 = the default)
  Attached,        \* endpoints in attach mode (no writable event); the rest own their fd
  Sinks,           \* how consumers take bytes: "pull" (read) or "push" (raw sink)
  ShipMayFail,     \* TRUE: handing a WINDOW_ADJUST to the transport may fail in read()
  HalfClosers,     \* endpoints whose consumer calls send_eof()
  Closers,         \* endpoints whose consumer calls close()
  MaxOpens,        \* bound: channels each endpoint opens
  MaxBytes         \* bound: bytes each endpoint writes on a channel

Endpoint == {"client", "host"}
Peer(e) == IF e = "client" THEN "host" ELSE "client"

ASSUME ConstantsAssumption ==
  /\ NSlots \in Nat \ {0}
  /\ WINDOW_DEFAULT \in Nat \ {0}
  /\ CHUNK_MAX \in Nat \ {0}
  /\ HIGH_WATER \in Nat \ {0}
  /\ InitialWindows \subseteq Nat
  /\ Attached \subseteq Endpoint
  /\ Sinks \subseteq {"pull", "push"}
  /\ ShipMayFail \in BOOLEAN
  /\ HalfClosers \subseteq Endpoint
  /\ Closers \subseteq Endpoint
  /\ MaxOpens \in [Endpoint -> Nat]
  /\ MaxBytes \in [Endpoint -> Nat]

Slot == 0 .. (NSlots - 1)

(* Ids step by two from the base; the host (role acceptor) takes the odd ones. *)
DYNAMIC_BASE == 16
Parity(e) == IF e = "host" THEN 1 ELSE 0
OwnId(e) == {DYNAMIC_BASE + 2 * k + Parity(e) : k \in 0 .. (MaxOpens[e] - 1)}
Id == OwnId("client") \union OwnId("host")

NextOffset(offset) == offset + 2

MsgKind == {"OPEN", "DATA", "EOF", "CLOSE", "WINDOW_ADJUST"}
Message == [msg : MsgKind, id : Id, window : Nat, data : Seq(Nat)]

Control(kind, id, window) == [msg |-> kind, id |-> id, window |-> window, data |-> <<>>]
Data(id, bytes) == [msg |-> "DATA", id |-> id, window |-> 0, data |-> bytes]

VARIABLES
  channels,             \* the channel table of each endpoint
  next_dynamic_offset,  \* id allocation
  outbound_cursor,      \* slot the next scheduler run starts from
  pump,                 \* the scheduler loop: running, position, bytes queued, progress
  wire,                 \* messages each endpoint shipped and its peer has not demuxed yet
  accepted,             \* history: bytes write() accepted, per endpoint and id
  delivered,            \* history: bytes handed to the consumer, per endpoint and id
  told,                 \* history: lifecycle events fired, per endpoint and id
  closers               \* history: ids whose close() the endpoint's own consumer called

vars == <<channels, next_dynamic_offset, outbound_cursor, pump, wire,
          accepted, delivered, told, closers>>

-----------------------------------------------------------------------------
(* A channel slot. written, flush_mark and outbuf_off are stream offsets:   *)
(* bytes outbuf_off+1 .. flush_mark wait for the scheduler, and bytes        *)
(* flush_mark+1 .. written wait for the next flush.                          *)

Channel ==
  [in_use : BOOLEAN, id : Id \union {0}, sink : {"pull", "push"},
   written : Nat, flush_mark : Nat, outbuf_off : Nat, inbuf : Seq(Nat),
   eof_requested : BOOLEAN, eof_sent : BOOLEAN,
   close_requested : BOOLEAN, close_sent : BOOLEAN, close_rcvd : BOOLEAN,
   remote_eof : BOOLEAN,
   send_window : Nat, recv_window_initial : Nat, recv_consumed : Nat]

FreeChannel ==
  [in_use |-> FALSE, id |-> 0, sink |-> "pull",
   written |-> 0, flush_mark |-> 0, outbuf_off |-> 0, inbuf |-> <<>>,
   eof_requested |-> FALSE, eof_sent |-> FALSE,
   close_requested |-> FALSE, close_sent |-> FALSE, close_rcvd |-> FALSE,
   remote_eof |-> FALSE,
   send_window |-> 0, recv_window_initial |-> 0, recv_consumed |-> 0]

DynamicChannel(id, sink, send_window, recv_window) ==
  [FreeChannel EXCEPT !.in_use = TRUE, !.id = id, !.sink = sink,
                      !.send_window = send_window,
                      !.recv_window_initial = recv_window]

OrDefault(window) == IF window = 0 THEN WINDOW_DEFAULT ELSE window

InUse(e) == {s \in Slot : channels[e][s].in_use}
FreeSlots(e) == Slot \ InUse(e)
IsFirstFree(e, s) == s \in FreeSlots(e) /\ \A t \in FreeSlots(e) : s <= t
Lookup(e, id) == {s \in InUse(e) : channels[e][s].id = id}

Pending(c) == c.flush_mark - c.outbuf_off
DrainedAlways(c) == TRUE
Drained(c) == Pending(c) = 0
SealsDue(c) == (c.eof_requested /\ ~c.eof_sent) \/ (c.close_requested /\ ~c.close_sent)

(* The slot is freed once both CLOSEs have crossed and nothing is left to read. *)
MaybeReleaseUnread(c) == IF c.close_sent /\ c.close_rcvd THEN FreeChannel ELSE c
MaybeRelease(c) ==
  IF c.close_sent /\ c.close_rcvd /\ c.inbuf = <<>> THEN FreeChannel ELSE c

(* Both directions are dead: what has not reached the wire is dropped. *)
DropPending(c) == [c EXCEPT !.outbuf_off = c.written, !.flush_mark = c.written,
                            !.close_requested = TRUE]

-----------------------------------------------------------------------------
(* Credit: drained bytes accumulate and go back to the peer once they reach *)
(* half the window; none goes back on a channel the peer stopped sending on. *)

CreditMoot(c) == c.close_sent \/ c.close_rcvd \/ c.remote_eof
GrantDuePastWindow(c, n) == ~CreditMoot(c) /\ c.recv_consumed + n > c.recv_window_initial
GrantDue(c, n) == ~CreditMoot(c) /\ c.recv_consumed + n >= c.recv_window_initial \div 2

GrantCreditNoReset(c, n) == IF CreditMoot(c) THEN c ELSE [c EXCEPT !.recv_consumed = @ + n]
GrantCredit(c, n) ==
  CASE CreditMoot(c)  -> c
    [] GrantDue(c, n) -> [c EXCEPT !.recv_consumed = 0]
    [] OTHER          -> [c EXCEPT !.recv_consumed = @ + n]

GrantMessages(c, n) ==
  IF GrantDue(c, n) THEN <<Control("WINDOW_ADJUST", c.id, c.recv_consumed + n)>> ELSE <<>>

-----------------------------------------------------------------------------
(* served is a history field: DATA messages each slot got out of this run. *)
IdlePump == [on |-> FALSE, i |-> 0, queued |-> 0, progress |-> FALSE,
             served |-> [s \in Slot |-> 0]]
StartPump(e) == pump' = [pump EXCEPT ![e] = [IdlePump EXCEPT !.on = TRUE]]
Idle(e) == ~pump[e].on

SetChannel(e, s, c) == channels' = [channels EXCEPT ![e][s] = c]
Ship(e, msgs) == wire' = [wire EXCEPT ![e] = @ \o msgs]
Tell(e, id, event) == told' = [told EXCEPT ![e][id] = Append(@, event)]

Init ==
  /\ channels = [e \in Endpoint |-> [s \in Slot |-> FreeChannel]]
  /\ next_dynamic_offset = [e \in Endpoint |-> 0]
  /\ outbound_cursor = [e \in Endpoint |-> 0]
  /\ pump = [e \in Endpoint |-> IdlePump]
  /\ wire = [e \in Endpoint |-> <<>>]
  /\ accepted = [e \in Endpoint |-> [id \in Id |-> 0]]
  /\ delivered = [e \in Endpoint |-> [id \in Id |-> <<>>]]
  /\ told = [e \in Endpoint |-> [id \in Id |-> <<>>]]
  /\ closers = [e \in Endpoint |-> {}]

-----------------------------------------------------------------------------
(* The consumer's calls.  CLOSED tells it that the channel pointer is dead, *)
(* so it only reads after that (the channel.h contract).                    *)

Open(e) ==
  /\ Idle(e)
  /\ next_dynamic_offset[e] < 2 * MaxOpens[e]
  /\ \E s \in Slot, window \in InitialWindows, sink \in Sinks :
       LET id == DYNAMIC_BASE + next_dynamic_offset[e] + Parity(e)
       IN  /\ IsFirstFree(e, s)
           /\ SetChannel(e, s, DynamicChannel(id, sink, WINDOW_DEFAULT, OrDefault(window)))
           /\ Ship(e, <<Control("OPEN", id, window)>>)
  /\ next_dynamic_offset' = [next_dynamic_offset EXCEPT ![e] = NextOffset(@)]
  /\ UNCHANGED <<outbound_cursor, pump, accepted, delivered, told, closers>>

Write(e, s) ==
  LET c == channels[e][s]
  IN  /\ Idle(e)
      /\ c.in_use
      /\ ~c.eof_requested /\ ~c.close_requested /\ ~c.close_rcvd
      /\ \E n \in 1 .. MaxBytes[e] :
           /\ c.written + n <= MaxBytes[e]
           /\ SetChannel(e, s, [c EXCEPT !.written = @ + n])
           /\ accepted' = [accepted EXCEPT ![e][c.id] = @ + n]
      /\ UNCHANGED <<next_dynamic_offset, outbound_cursor, pump, wire,
                     delivered, told, closers>>

Flush(e, s) ==
  LET c == channels[e][s]
  IN  /\ Idle(e)
      /\ c.in_use /\ ~c.close_rcvd
      /\ SetChannel(e, s, [c EXCEPT !.flush_mark = c.written])
      /\ StartPump(e)
      /\ UNCHANGED <<next_dynamic_offset, outbound_cursor, wire,
                     accepted, delivered, told, closers>>

(* read(): hand out n bytes, grant credit for them, free a finished slot.  *)
(* An error of the grant is absorbed.                                       *)
Read(e, s) ==
  LET c == channels[e][s]
  IN  /\ Idle(e)
      /\ c.in_use
      /\ \E n \in 1 .. Len(c.inbuf), ok \in IF ShipMayFail THEN BOOLEAN ELSE {TRUE} :
           LET taken == [c EXCEPT !.inbuf = SubSeq(c.inbuf, n + 1, Len(c.inbuf))]
           IN  /\ SetChannel(e, s, MaybeRelease(GrantCredit(taken, n)))
               /\ Ship(e, IF ok THEN GrantMessages(taken, n) ELSE <<>>)
               /\ delivered' = [delivered EXCEPT ![e][c.id] = @ \o SubSeq(c.inbuf, 1, n)]
      /\ UNCHANGED <<next_dynamic_offset, outbound_cursor, pump, accepted, told, closers>>

SendEof(e, s) ==
  LET c == channels[e][s]
  IN  /\ Idle(e)
      /\ e \in HalfClosers
      /\ c.in_use /\ ~c.close_rcvd
      /\ ~c.eof_requested
      /\ SetChannel(e, s, [c EXCEPT !.flush_mark = c.written, !.eof_requested = TRUE])
      /\ StartPump(e)
      /\ UNCHANGED <<next_dynamic_offset, outbound_cursor, wire,
                     accepted, delivered, told, closers>>

Close(e, s) ==
  LET c == channels[e][s]
  IN  /\ Idle(e)
      /\ e \in Closers
      /\ c.in_use /\ ~c.close_rcvd
      /\ ~c.close_requested
      /\ SetChannel(e, s, DropPending(c))
      /\ closers' = [closers EXCEPT ![e] = @ \union {c.id}]
      /\ StartPump(e)
      /\ UNCHANGED <<next_dynamic_offset, outbound_cursor, wire,
                     accepted, delivered, told>>

(* The event loop of an endpoint that owns its fd asks want_write() and, on *)
(* a writable event, runs pump_writable().                                  *)
WantWriteSealsOnly(e) ==
  e \notin Attached /\ \E s \in InUse(e) : SealsDue(channels[e][s])
WantWrite(e) ==
  /\ e \notin Attached
  /\ \E s \in InUse(e) :
       LET c == channels[e][s]
       IN  (Pending(c) > 0 /\ c.send_window # 0) \/ SealsDue(c)

PumpWritable(e) ==
  /\ Idle(e)
  /\ WantWrite(e)
  /\ StartPump(e)
  /\ UNCHANGED <<channels, next_dynamic_offset, outbound_cursor, wire,
                 accepted, delivered, told, closers>>

-----------------------------------------------------------------------------
(* The scheduler loop: one slot per step, starting at the cursor.  Rounds   *)
(* repeat while the last one queued bytes and HIGH_WATER is not reached.    *)

PumpSlotCursorOnly(e) == outbound_cursor[e]
PumpSlot(e) == (outbound_cursor[e] + pump[e].i) % NSlots

GoesOn(progress, queued) == progress /\ queued < HIGH_WATER

PumpAdvance(e, bytes) ==
  LET queued   == pump[e].queued + bytes
      progress == pump[e].progress \/ bytes > 0
      served   == [pump[e].served EXCEPT ![PumpSlot(e)] = IF bytes > 0 THEN @ + 1 ELSE @]
      last     == pump[e].i = NSlots - 1
      again    == GoesOn(progress, queued)
  IN  /\ pump' = [pump EXCEPT ![e] =
                    IF ~last THEN [on |-> TRUE, i |-> pump[e].i + 1, queued |-> queued,
                                   progress |-> progress, served |-> served]
                    ELSE IF again THEN [on |-> TRUE, i |-> 0, queued |-> queued,
                                        progress |-> FALSE, served |-> served]
                    ELSE IdlePump]
      /\ outbound_cursor' =
           [outbound_cursor EXCEPT ![e] = IF last /\ ~again THEN (@ + 1) % NSlots ELSE @]

Smaller(a, b) == IF a <= b THEN a ELSE b
NextBytes(c, n) == [k \in 1 .. n |-> c.outbuf_off + k]
Chunk(c) == Smaller(Smaller(Pending(c), CHUNK_MAX), c.send_window)

EmitData(e) ==
  LET s == PumpSlot(e)
      c == channels[e][s]
      n == Chunk(c)
  IN  /\ pump[e].on
      /\ c.in_use
      /\ n > 0
      /\ SetChannel(e, s, [c EXCEPT !.outbuf_off = @ + n, !.send_window = @ - n])
      /\ Ship(e, <<Data(c.id, NextBytes(c, n))>>)
      /\ PumpAdvance(e, n)
      /\ UNCHANGED <<next_dynamic_offset, accepted, delivered, told, closers>>

(* A drained channel's deferred EOF and CLOSE leave now. *)
EmitSeals(e) ==
  LET s == PumpSlot(e)
      c == channels[e][s]
  IN  /\ pump[e].on
      /\ c.in_use
      /\ Drained(c)
      /\ SealsDue(c)
      /\ SetChannel(e, s, MaybeRelease([c EXCEPT !.eof_sent = c.eof_requested,
                                                 !.close_sent = c.close_requested]))
      /\ Ship(e, (IF c.eof_requested /\ ~c.eof_sent
                    THEN <<Control("EOF", c.id, 0)>> ELSE <<>>)
                 \o (IF c.close_requested /\ ~c.close_sent
                       THEN <<Control("CLOSE", c.id, 0)>> ELSE <<>>))
      /\ PumpAdvance(e, 0)
      /\ UNCHANGED <<next_dynamic_offset, accepted, delivered, told, closers>>

EmitNothing(e) ==
  LET c == channels[e][PumpSlot(e)]
  IN  /\ pump[e].on
      /\ \/ ~c.in_use
         \/ Drained(c) /\ ~SealsDue(c)
         \/ Pending(c) > 0 /\ c.send_window = 0
      /\ PumpAdvance(e, 0)
      /\ UNCHANGED <<channels, next_dynamic_offset, wire, accepted, delivered, told, closers>>

-----------------------------------------------------------------------------
(* Demux of the next inbound message of e. *)

Inbound(e) == wire[Peer(e)]
Arriving(e, kind) == Idle(e) /\ Inbound(e) # <<>> /\ Head(Inbound(e)).msg = kind

(* Take the head off the peer's wire and ship a reply on our own. *)
TakeAndShip(e, msgs) ==
  wire' = [wire EXCEPT ![Peer(e)] = Tail(@), ![e] = @ \o msgs]

(* OPEN: a duplicate id, a full table or a refusing accept callback answers CLOSE. *)
RecvOpen(e) ==
  LET m == Head(Inbound(e))
  IN  /\ Arriving(e, "OPEN")
      /\ \/ /\ Lookup(e, m.id) = {}
            /\ \E s \in Slot, sink \in Sinks :
                 /\ IsFirstFree(e, s)
                 /\ SetChannel(e, s, DynamicChannel(m.id, sink, OrDefault(m.window),
                                                    WINDOW_DEFAULT))
            /\ TakeAndShip(e, <<>>)
         \/ /\ UNCHANGED channels
            /\ TakeAndShip(e, <<Control("CLOSE", m.id, 0)>>)
      /\ UNCHANGED <<next_dynamic_offset, outbound_cursor, pump,
                     accepted, delivered, told, closers>>

RecvData(e) ==
  LET m == Head(Inbound(e))
  IN  /\ Arriving(e, "DATA")
      /\ \E s \in Lookup(e, m.id) :
           LET c == channels[e][s]
           IN  \/ /\ c.remote_eof
                  /\ TakeAndShip(e, <<>>)
                  /\ UNCHANGED <<channels, delivered>>
               \/ /\ ~c.remote_eof
                  /\ c.sink = "pull"
                  /\ SetChannel(e, s, [c EXCEPT !.inbuf = @ \o m.data])
                  /\ TakeAndShip(e, <<>>)
                  /\ UNCHANGED delivered
               \/ /\ ~c.remote_eof
                  /\ c.sink = "push"
                  /\ SetChannel(e, s, GrantCredit(c, Len(m.data)))
                  /\ TakeAndShip(e, GrantMessages(c, Len(m.data)))
                  /\ delivered' = [delivered EXCEPT ![e][m.id] = @ \o m.data]
      /\ UNCHANGED <<next_dynamic_offset, outbound_cursor, pump, accepted, told, closers>>

RecvEof(e) ==
  LET m == Head(Inbound(e))
  IN  /\ Arriving(e, "EOF")
      /\ \E s \in Lookup(e, m.id) :
           SetChannel(e, s, [channels[e][s] EXCEPT !.remote_eof = TRUE])
      /\ Tell(e, m.id, "REMOTE_EOF")
      /\ TakeAndShip(e, <<>>)
      /\ UNCHANGED <<next_dynamic_offset, outbound_cursor, pump,
                     accepted, delivered, closers>>

(* A CLOSE is answered with CLOSE, unless it is itself the answer to ours. *)
CloseReplyNone(c) == <<>>
CloseReply(c) == IF c.close_sent THEN <<>> ELSE <<Control("CLOSE", c.id, 0)>>

RecvClose(e) ==
  LET m == Head(Inbound(e))
  IN  /\ Arriving(e, "CLOSE")
      /\ \E s \in Lookup(e, m.id) :
           LET c == [channels[e][s] EXCEPT !.close_rcvd = TRUE]
           IN  /\ SetChannel(e, s, MaybeRelease(
                     IF c.close_sent THEN c ELSE [DropPending(c) EXCEPT !.close_sent = TRUE]))
               /\ TakeAndShip(e, CloseReply(c))
      /\ Tell(e, m.id, "CLOSED")
      /\ UNCHANGED <<next_dynamic_offset, outbound_cursor, pump,
                     accepted, delivered, closers>>

RecvWindowAdjust(e) ==
  LET m == Head(Inbound(e))
  IN  /\ Arriving(e, "WINDOW_ADJUST")
      /\ \E s \in Lookup(e, m.id) :
           SetChannel(e, s, [channels[e][s] EXCEPT !.send_window = @ + m.window])
      /\ TakeAndShip(e, <<>>)
      /\ StartPump(e)
      /\ UNCHANGED <<next_dynamic_offset, outbound_cursor, accepted, delivered, told, closers>>

(* A message for an id the endpoint does not track is ignored. *)
RecvUnknown(e) ==
  /\ Idle(e)
  /\ Inbound(e) # <<>>
  /\ Head(Inbound(e)).msg # "OPEN"
  /\ Lookup(e, Head(Inbound(e)).id) = {}
  /\ TakeAndShip(e, <<>>)
  /\ UNCHANGED <<channels, next_dynamic_offset, outbound_cursor, pump,
                 accepted, delivered, told, closers>>

-----------------------------------------------------------------------------
Recv(e) == \/ RecvOpen(e) \/ RecvData(e) \/ RecvEof(e) \/ RecvClose(e)
           \/ RecvWindowAdjust(e) \/ RecvUnknown(e)
Emit(e) == EmitData(e) \/ EmitSeals(e) \/ EmitNothing(e)
Consumer(e, s) == \/ Write(e, s) \/ Flush(e, s) \/ Read(e, s)
                  \/ SendEof(e, s) \/ Close(e, s)

Next ==
  \E e \in Endpoint :
    \/ Open(e)
    \/ \E s \in Slot : Consumer(e, s)
    \/ PumpWritable(e)
    \/ Emit(e)
    \/ Recv(e)

Spec == Init /\ [][Next]_vars

(* The link delivers, the loop that owns a writable fd serves it, a started *)
(* scheduler run finishes, and consumers keep reading.  Nothing forces a    *)
(* consumer to open, write, flush or close.                                 *)
Fairness ==
  \A e \in Endpoint :
    /\ WF_vars(Emit(e))
    /\ SF_vars(Recv(e))
    /\ SF_vars(PumpWritable(e))
    /\ \A s \in Slot : SF_vars(Read(e, s))

FairSpec == Spec /\ Fairness

-----------------------------------------------------------------------------
(* What the two ends of a channel owe each other.                            *)

RangeOf(seq) == {seq[k] : k \in 1 .. Len(seq)}

TypeOK ==
  /\ channels \in [Endpoint -> [Slot -> Channel]]
  /\ next_dynamic_offset \in [Endpoint -> Nat]
  /\ outbound_cursor \in [Endpoint -> Slot]
  /\ pump \in [Endpoint -> [on : BOOLEAN, i : Slot, queued : Nat, progress : BOOLEAN,
                            served : [Slot -> Nat]]]
  /\ wire \in [Endpoint -> Seq(Message)]
  /\ accepted \in [Endpoint -> [Id -> Nat]]
  /\ delivered \in [Endpoint -> [Id -> Seq(Nat)]]
  /\ told \in [Endpoint -> [Id -> Seq({"REMOTE_EOF", "CLOSED"})]]
  /\ closers \in [Endpoint -> SUBSET Id]

(* Bytes of channel id that reached endpoint e, read or still buffered. *)
Arrived(e, id) ==
  IF Lookup(e, id) = {} THEN delivered[e][id]
  ELSE delivered[e][id] \o channels[e][CHOOSE s \in Lookup(e, id) : TRUE].inbuf

(* The window a message grants channel id, and all that wire w grants it. *)
Granted(m, id) == IF m.msg = "WINDOW_ADJUST" /\ m.id = id THEN m.window ELSE 0
Credit(w, id) ==
  LET sum[k \in 0 .. Len(w)] == IF k = 0 THEN 0 ELSE sum[k - 1] + Granted(w[k], id)
  IN  sum[Len(w)]

(* Bytes of credit on the wire from endpoint e for channel id. *)
CreditInFlight(e, id) == Credit(wire[e], id)

(* Neither end has begun to close, and the receiving end d has not seen EOF. *)
Live(c, d) == ~c.close_requested /\ ~CreditMoot(d) /\ ~d.close_requested

(* No credit is lost or invented: what the sender may still send, what is on *)
(* the wire or buffered, what the consumer drained but was not granted back  *)
(* and the grants on the wire add up to the receiver's window.               *)
CreditConserved ==
  \A e \in Endpoint : \A s \in InUse(e) : \A t \in Lookup(Peer(e), channels[e][s].id) :
    LET c == channels[e][s]
        d == channels[Peer(e)][t]
    IN  Live(c, d) =>
          c.send_window + (c.outbuf_off - Len(delivered[Peer(e)][c.id]))
            + d.recv_consumed + CreditInFlight(Peer(e), c.id) = d.recv_window_initial

(* Deferring grants to half a window cannot starve a sender: a sender with   *)
(* no credit always has bytes in flight, bytes unread at the receiver, or a  *)
(* grant on its way (emit_one: "WINDOW_ADJUST will wake us").                *)
BlockedSenderIsWoken ==
  \A e \in Endpoint : \A s \in InUse(e) : \A t \in Lookup(Peer(e), channels[e][s].id) :
    LET c == channels[e][s]
        d == channels[Peer(e)][t]
    IN  (Live(c, d) /\ c.send_window = 0) =>
          \/ c.outbuf_off > Len(Arrived(Peer(e), c.id))
          \/ d.inbuf # <<>>
          \/ CreditInFlight(Peer(e), c.id) > 0

(* A half-close or close never overtakes the DATA it follows: nothing of the *)
(* channel's stream is behind its EOF or CLOSE on the wire, and what an      *)
(* endpoint has sealed it no longer sends on.                                *)
SealFollowsData ==
  \A e \in Endpoint :
    /\ \A i, j \in 1 .. Len(wire[e]) :
         (/\ i < j
          /\ wire[e][i].id = wire[e][j].id
          /\ wire[e][i].msg \in {"EOF", "CLOSE"}) => wire[e][j].msg # "DATA"
    /\ \A s \in InUse(e) :
         channels[e][s].eof_sent \/ channels[e][s].close_sent => Pending(channels[e][s]) = 0

(* Ids identify channels without an id exchange (channel.h:54-58): an        *)
(* endpoint never tracks two channels under one id, nor, under an id of the   *)
(* parity of either end, one that end has not allocated yet.                  *)
UniqueIds ==
  \A e \in Endpoint :
    /\ \A s, t \in InUse(e) : channels[e][s].id = channels[e][t].id => s = t
    /\ \A s \in InUse(e), f \in Endpoint :
         channels[e][s].id \in OwnId(f)
           => channels[e][s].id < DYNAMIC_BASE + next_dynamic_offset[f]

(* No half-dead channel: an end that still tracks a channel the other end    *)
(* does not track has an OPEN or a CLOSE for it on the wire, or has already  *)
(* seen the CLOSE (and only has bytes to drain).                             *)
NoOrphan ==
  \A e \in Endpoint : \A s \in InUse(e) :
    LET c == channels[e][s]
        onWire(f, kind) == \E k \in 1 .. Len(wire[f]) :
                              wire[f][k].msg = kind /\ wire[f][k].id = c.id
    IN  Lookup(Peer(e), c.id) = {} =>
          onWire(e, "OPEN") \/ onWire(Peer(e), "CLOSE") \/ c.close_rcvd

(* One scheduler run queues at most a round more than HIGH_WATER. *)
RunIsBounded ==
  \A e \in Endpoint : pump[e].on => pump[e].queued < HIGH_WATER + NSlots * CHUNK_MAX

(* No head-of-line blocking: a channel that still could send has been served *)
(* by this run as often as any other, give or take the current round.        *)
FairRounds ==
  \A e \in Endpoint : \A s, t \in Slot :
    (pump[e].on /\ channels[e][s].in_use /\ Chunk(channels[e][s]) > 0)
      => pump[e].served[t] <= pump[e].served[s] + 1

(* The connection implements the promise of YwireStream. *)
Stream == INSTANCE YwireStream WITH
  Opened <- [e \in Endpoint |-> OwnId(e)],
  arrived <- [e \in Endpoint |-> [id \in Id |-> Arrived(e, id)]]

ImplementsStream == Stream!Spec

-----------------------------------------------------------------------------
(* Liveness, for endpoints whose event loop, peer and consumers keep going.  *)

Over(id) == \/ \E e \in Endpoint : id \in closers[e]
            \/ \E e \in Endpoint : "CLOSED" \in RangeOf(told[e][id])

Flushed(e, id, n) == \E s \in Lookup(e, id) : channels[e][s].flush_mark >= n

(* Every flushed byte, and the half-close requested behind it, reaches the   *)
(* other consumer, unless the channel ends: want_write and the grants are    *)
(* all that brings the scheduler back to bytes it left at its high-water     *)
(* mark or without credit.                                                   *)
FlushedIsDelivered ==
  \A e \in Endpoint, id \in Id :
    /\ \A n \in 1 .. MaxBytes[e] :
         Flushed(e, id, n) ~> (Len(delivered[Peer(e)][id]) >= n \/ Over(id))
    /\ (\E s \in Lookup(e, id) : channels[e][s].eof_requested)
         ~> ("REMOTE_EOF" \in RangeOf(told[Peer(e)][id]) \/ Over(id))

(* A close releases the channel's slot on both sides (channel.h:29-31). *)
CloseReleasesBoth ==
  \A id \in Id :
    (\E e \in Endpoint : id \in closers[e])
      ~> (\A e \in Endpoint : Lookup(e, id) = {})

-----------------------------------------------------------------------------
(* What the comments say of the code, and the code does not do.              *)

(* connection.c:822-824: in attach mode "the only bytes that can linger are  *)
(* window-blocked, and those wake on the peer's WINDOW_ADJUST": flushed      *)
(* bytes are delivered there too.                                            *)
LingeringBytesWake == FlushedIsDelivered

=============================================================================
