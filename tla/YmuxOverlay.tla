---------------------------- MODULE YmuxOverlay ----------------------------
(***************************************************************************)
(* Input of a ymux attachment from the host terminal to its two possible   *)
(* owners, the pane and the overlay chrome (copy mode) of the daemon: the  *)
(* bridge's ordered input queue and overlay ownership pump                 *)
(* (tools/ymux/main.c), the client's focus flag and acknowledgements       *)
(* (ymux/client.c) and the daemon's chrome seat (ymux/daemon.c).           *)
(*                                                                         *)
(* An input event is its number in arrival order; what it is stands in     *)
(* "events".  A record is one [class][len][bytes] entry of the ownership   *)
(* backlog: an event, or one piece of a paste too large for a frame.       *)
(* Buffers are counted in records.  The bridge is one thread; it may read  *)
(* its wire between any two steps, because the value call that resolves a  *)
(* pointer event pumps the transport.  Pointer moves and releases change   *)
(* no focus and are left out, as are detach chords, the scene's accounting *)
(* of what it was shown, and the pane side beyond attach_process_keys.     *)
(***************************************************************************)
EXTENDS Integers, Sequences, SequencesExt, FiniteSets

CONSTANTS
  BacklogCap,   \* ATTACH_CHROME_BACKLOG_CAP, in records
  MaxEvents,    \* bound: input events in one behaviour
  MaxCopies,    \* bound: overlay frames in transit, each way
  MaxFaults     \* bound: refused allocations, sends and calls

ASSUME OverlayAssumption ==
  /\ BacklogCap \in Nat \ {0}
  /\ MaxEvents \in Nat
  /\ MaxCopies \in Nat \ {0}
  /\ MaxFaults \in Nat

VARIABLES
  hostFocus,    \* the figure the host sends keys to: "none", "chrome", "content"
  events,       \* what has arrived, in order
  ordered,      \* client->ordered_queue
  stash,        \* pending_pointers: presses the ordered queue could not take
  overflow,     \* pending_keys: raw bytes the ordered queue could not take
  retry,        \* overlay_retry_queue
  backlog,      \* chrome_backlog
  seqNext,      \* overlay_seq_next
  inflight,     \* overlay_seq_inflight, 0 when none
  nackHandled,  \* overlay_nack_handled_seq
  active,       \* client->overlay_input_active
  acked,        \* client->overlay_input_acked_seq
  nacked,       \* client->overlay_input_nacked_seq
  toDaemon,     \* OVERLAY_INPUT frames in transit
  toClient,     \* ACK, NACK and CHROME_RELEASE frames in transit
  appliedSeq,   \* connection->overlay_applied_seq
  closed,       \* the daemon has closed the connection (want_close)
  decided,      \* history: presses whose verdict is known or never will be
  pane,         \* history: events handed to the pane, in order
  applied,      \* history: records the chrome consumer was given, in order
  oom,          \* history: the ordered queue has refused a push
  faults        \* faults so far

pumpVars   == <<seqNext, inflight, nackHandled, toDaemon>>
clientVars == <<acked, nacked>>
daemonVars == <<toClient, appliedSeq, closed, applied>>
inputVars  == <<hostFocus, events>>
countVars  == <<oom, faults>>
vars == <<inputVars, ordered, stash, overflow, retry, backlog, pumpVars, active,
          clientVars, daemonVars, decided, pane, countVars>>

Ids == 1..MaxEvents

Init ==
  /\ hostFocus = "none" /\ events = <<>>
  /\ ordered = <<>> /\ stash = <<>> /\ overflow = <<>>
  /\ retry = <<>> /\ backlog = <<>>
  /\ seqNext = 0 /\ inflight = 0 /\ nackHandled = 0 /\ toDaemon = <<>>
  /\ active = FALSE /\ acked = 0 /\ nacked = 0
  /\ toClient = <<>> /\ appliedSeq = 0 /\ closed = FALSE /\ applied = <<>>
  /\ decided = {} /\ pane = <<>>
  /\ oom = FALSE /\ faults = 0

Fault == faults < MaxFaults /\ faults' = faults + 1
NoFault == UNCHANGED faults

-----------------------------------------------------------------------------
(* The overlay ownership pump: attach_overlay_flush on the backlog b.       *)

Frame(n, b) == [seq |-> n, record |-> Head(b)]

ResendNever(b) == backlog' = b /\ UNCHANGED pumpVars

\* Not acknowledged: the same record goes again with the same sequence, after
\* the first refusal of it or when the resend window has passed.
Resend(b) ==
  LET nackedNow == nacked = inflight /\ nacked # nackHandled IN
  /\ nackHandled' = IF nackedNow THEN nacked ELSE nackHandled
  /\ \/ /\ Len(toDaemon) < MaxCopies
        /\ toDaemon' = Append(toDaemon, Frame(inflight, b))
     \/ UNCHANGED toDaemon        \* the window is open, or the send failed
  /\ backlog' = b
  /\ UNCHANGED <<seqNext, inflight>>

\* The head of the queue goes with a fresh sequence.  A send the client cannot
\* queue leaves no frame, one it cannot flush leaves the frame; the bridge
\* takes the sequence back in both cases.
SendHead(b) ==
  /\ backlog' = b
  /\ UNCHANGED nackHandled
  /\ \/ /\ b = <<>>
        /\ inflight' = 0
        /\ UNCHANGED <<seqNext, toDaemon>>
     \/ /\ b # <<>> /\ Len(toDaemon) < MaxCopies
        /\ toDaemon' = Append(toDaemon, Frame(seqNext + 1, b))
        /\ \/ seqNext' = seqNext + 1 /\ inflight' = seqNext + 1
           \/ inflight' = 0 /\ UNCHANGED seqNext
     \/ /\ b # <<>>
        /\ inflight' = 0
        /\ UNCHANGED <<seqNext, toDaemon>>

FlushRenumbers(b) ==
  IF inflight = 0 \/ nacked = inflight THEN SendHead(b)
  ELSE IF acked >= inflight THEN SendHead(Tail(b))
  ELSE Resend(b)

Flush(b) ==
  IF inflight = 0 THEN SendHead(b)
  ELSE IF acked >= inflight THEN SendHead(Tail(b))
  ELSE Resend(b)

(* ... and every iteration of the main loop. *)
OverlayFlush ==
  /\ Flush(backlog)
  /\ UNCHANGED <<inputVars, ordered, stash, overflow, retry, active, clientVars,
                 daemonVars, decided, pane, countVars>>

-----------------------------------------------------------------------------
(* Taking ownership of consumed events: attach_overlay_retain_or_hold.      *)

Pieces(e) == IF events[e].kind = "paste"
             THEN <<[event |-> e, piece |-> 1], [event |-> e, piece |-> 2]>>
             ELSE <<[event |-> e, piece |-> 1]>>

RetainOrDrop(q, e) ==
  IF q.retry = <<>> /\ Len(Pieces(e)) = 1
  THEN IF Len(q.backlog) < BacklogCap THEN [q EXCEPT !.backlog = @ \o Pieces(e)] ELSE q
  ELSE [q EXCEPT !.retry = @ \o Pieces(e)]

\* One event joins the backlog when nothing is held before it, it needs no
\* splitting and it fits; otherwise its pieces are held in the retry queue.
RetainOrHold(q, e) ==
  IF q.retry = <<>> /\ Len(Pieces(e)) = 1 /\ Len(q.backlog) < BacklogCap
  THEN [q EXCEPT !.backlog = @ \o Pieces(e)]
  ELSE [q EXCEPT !.retry = @ \o Pieces(e)]

\* Retain the events in order; the pump runs when one of them was owned.
Retain(es) ==
  \E q \in {FoldLeft(RetainOrHold, [backlog |-> backlog, retry |-> retry], es)} :
    /\ retry' = q.retry
    /\ IF q.backlog # backlog THEN Flush(q.backlog)
       ELSE UNCHANGED <<backlog, pumpVars>>

\* One raw chunk: the whole of it goes where the focus flag says now.
ProcessKeyChunk(es) ==
  \/ /\ active
     /\ Retain(es)
     /\ UNCHANGED pane
  \/ /\ ~active
     /\ pane' = pane \o es
     /\ UNCHANGED <<retry, backlog, pumpVars>>

-----------------------------------------------------------------------------
(* Ingress: the host's input, as pump_readable hands it to the bridge.      *)

Arrive(kind, raw) ==
  /\ Len(events) < MaxEvents
  /\ events' = Append(events, [kind |-> kind, raw |-> raw])

New == Len(events) + 1

Rest == <<retry, backlog, pumpVars, active, clientVars, daemonVars>>

\* attach_on_raw: append to the ordered queue, or to the overflow buffer.
PushRaw ==
  \/ /\ ordered' = Append(ordered, New)
     /\ UNCHANGED overflow /\ UNCHANGED countVars
  \/ /\ Fault /\ oom' = TRUE
     /\ overflow' = Append(overflow, New)
     /\ UNCHANGED ordered

PressAside == stash' = Append(stash, New) /\ UNCHANGED <<ordered, countVars>>

\* attach_pointer_enqueue: the same for a press, which is stashed.
PushPress ==
  \/ /\ ordered' = Append(ordered, New)
     /\ UNCHANGED stash /\ UNCHANGED countVars
  \/ /\ Fault /\ oom' = TRUE
     /\ stash' = Append(stash, New)
     /\ UNCHANGED ordered

\* A press on the overlay figure.
PressChrome ==
  /\ Arrive("hit", FALSE)
  /\ hostFocus' = "chrome"
  /\ PushPress
  /\ UNCHANGED <<overflow, Rest, decided, pane>>

\* A press on the content figure is shown to the overlay only while the
\* overlay holds the focus.
PressContent ==
  /\ Arrive("miss", FALSE)
  /\ hostFocus' = "content"
  /\ \/ /\ active
        /\ PushPress
        /\ UNCHANGED decided
     \/ /\ ~active
        /\ decided' = decided \cup {New}
        /\ UNCHANGED <<ordered, stash, countVars>>
  /\ UNCHANGED <<overflow, Rest, pane>>

\* A paste, and a key while the host has focused no figure, are raw bytes.
RawInput ==
  /\ \/ Arrive("paste", TRUE)
     \/ hostFocus = "none" /\ \E kind \in {"key", "quit"} : Arrive(kind, TRUE)
  /\ PushRaw
  /\ UNCHANGED <<hostFocus, stash, Rest, decided, pane>>

\* A key the host sends to the figure it has focused.  For the overlay, and
\* while the overlay holds the input focus, it becomes a raw run of the ordered
\* queue; otherwise it goes to the pane at once.
FigureKey ==
  /\ hostFocus # "none"
  /\ \E kind \in {"key", "quit"} : Arrive(kind, FALSE)
  /\ \/ /\ hostFocus = "chrome" /\ active
        /\ PushRaw
        /\ UNCHANGED pane
     \/ /\ ~(hostFocus = "chrome" /\ active)
        /\ pane' = Append(pane, New)
        /\ UNCHANGED <<ordered, overflow, countVars>>
  /\ UNCHANGED <<hostFocus, stash, Rest, decided>>

-----------------------------------------------------------------------------
(* The drain: attach_process_ordered_input and its neighbours.              *)

RetryLast ==
  /\ retry # <<>>
  /\ Len(backlog) < BacklogCap
  /\ retry' = Front(retry)
  /\ Flush(Append(backlog, Last(retry)))
  /\ UNCHANGED <<inputVars, ordered, stash, overflow, active, clientVars,
                 daemonVars, decided, pane, countVars>>

\* Held records come before any new input, and wait for room in the backlog.
RetryHead ==
  /\ retry # <<>>
  /\ Len(backlog) < BacklogCap
  /\ retry' = Tail(retry)
  /\ Flush(Append(backlog, Head(retry)))
  /\ UNCHANGED <<inputVars, ordered, stash, overflow, active, clientVars,
                 daemonVars, decided, pane, countVars>>

\* The press at the head is resolved by the overlay scene; its verdict sets
\* the focus, and a hit is retained for the chrome.
ProcessPress ==
  /\ retry = <<>> /\ ordered # <<>> /\ events[Head(ordered)].kind \in {"hit", "miss"}
  /\ ordered' = Tail(ordered)
  /\ decided' = decided \cup {Head(ordered)}
  /\ \/ /\ events[Head(ordered)].kind = "hit"
        /\ active' = TRUE
        /\ Retain(<<Head(ordered)>>)
        /\ NoFault
     \/ /\ events[Head(ordered)].kind = "miss"
        /\ active' = FALSE
        /\ NoFault
        /\ UNCHANGED <<retry, backlog, pumpVars>>
     \/ /\ Fault                             \* the call failed: the press is gone
        /\ UNCHANGED <<active, retry, backlog, pumpVars>>
  /\ UNCHANGED <<inputVars, stash, overflow, clientVars, daemonVars, pane, oom>>

ProcessRaw ==
  /\ retry = <<>> /\ ordered # <<>> /\ events[Head(ordered)].kind \notin {"hit", "miss"}
  /\ ordered' = Tail(ordered)
  /\ ProcessKeyChunk(<<Head(ordered)>>)
  /\ UNCHANGED <<inputVars, stash, overflow, active, clientVars, daemonVars,
                 decided, countVars>>

\* attach_flush_keys, once the drain has stopped: it is empty, it waits for
\* room in the backlog, or a reservation failed.
FlushKeys ==
  /\ overflow # <<>>
  /\ \/ retry = <<>> /\ ordered = <<>> /\ NoFault
     \/ retry # <<>> /\ Len(backlog) = BacklogCap /\ NoFault
     \/ retry = <<>> /\ ordered # <<>> /\ Fault
  /\ overflow' = <<>>
  /\ ProcessKeyChunk(overflow)
  /\ UNCHANGED <<inputVars, ordered, stash, active, clientVars, daemonVars,
                 decided, oom>>

\* attach_flush_pending_pointers
FlushStash ==
  /\ stash # <<>>
  /\ ordered' = Append(ordered, Head(stash))
  /\ stash' = Tail(stash)
  /\ UNCHANGED <<inputVars, overflow, Rest, decided, pane, countVars>>

-----------------------------------------------------------------------------
(* yetty_ymux_client_step: one frame from the daemon. *)

ClientReads ==
  /\ toClient # <<>>
  /\ toClient' = Tail(toClient)
  /\ LET m == Head(toClient) IN
     \/ /\ m.type = "ack"
        /\ acked' = IF m.seq > acked THEN m.seq ELSE acked
        /\ UNCHANGED <<nacked, active>>
     \/ /\ m.type = "nack"
        /\ nacked' = m.seq
        /\ UNCHANGED <<acked, active>>
     \/ /\ m.type = "release"
        /\ active' = FALSE
        /\ UNCHANGED clientVars
  /\ UNCHANGED <<inputVars, ordered, stash, overflow, retry, backlog, pumpVars,
                 appliedSeq, closed, applied, decided, pane, countVars>>

-----------------------------------------------------------------------------
(* The daemon: one OVERLAY_INPUT frame (daemon_handle_frame).               *)

Ack(n) == [type |-> "ack", seq |-> n]
Nack(n) == [type |-> "nack", seq |-> n]
Release == [type |-> "release", seq |-> 0]

ReplayedBefore(m) == m.seq < appliedSeq
Replayed(m) == m.seq <= appliedSeq

\* A sequence applied before is acknowledged again.
HandleDuplicate(m) ==
  /\ Replayed(m)
  /\ toClient' = Append(toClient, Ack(m.seq))
  /\ NoFault
  /\ UNCHANGED <<appliedSeq, closed, applied>>

\* The acknowledgement is queued first, then the event is applied: the chrome
\* consumer drains the seat at once, and the exit key releases the focus.
HandleFresh(m) ==
  /\ ~Replayed(m)
  /\ toClient' = IF events[m.record.event].kind = "quit"
                 THEN toClient \o <<Ack(m.seq), Release>>
                 ELSE Append(toClient, Ack(m.seq))
  /\ appliedSeq' = m.seq
  /\ applied' = Append(applied, m.record)
  /\ NoFault
  /\ UNCHANGED closed

\* The seat cannot hold the event: a refusal that names its sequence.
HandleRefused(m) ==
  /\ ~Replayed(m)
  /\ Fault
  /\ toClient' = Append(toClient, Nack(m.seq))
  /\ UNCHANGED <<appliedSeq, closed, applied>>

\* The answer does not fit the transmit buffer: nothing is applied, and
\* daemon_enqueue marks the connection for closing.
HandleOverflow(m) ==
  /\ Fault
  /\ closed' = TRUE
  /\ UNCHANGED <<toClient, appliedSeq, applied>>

DaemonHandles ==
  /\ toDaemon # <<>> /\ Len(toClient) < MaxCopies
  /\ toDaemon' = Tail(toDaemon)
  /\ LET m == Head(toDaemon) IN
       HandleDuplicate(m) \/ HandleFresh(m) \/ HandleRefused(m) \/ HandleOverflow(m)
  /\ UNCHANGED <<inputVars, ordered, stash, overflow, retry, backlog, seqNext,
                 inflight, nackHandled, active, clientVars, decided, pane, oom>>

-----------------------------------------------------------------------------
Ingress == PressChrome \/ PressContent \/ RawInput \/ FigureKey
Drain == RetryHead \/ ProcessPress \/ ProcessRaw \/ FlushKeys \/ FlushStash

\* A closed connection ends the bridge's process.
Next == ~closed /\ (Ingress \/ Drain \/ OverlayFlush \/ ClientReads \/ DaemonHandles)

Spec == Init /\ [][Next]_vars

\* A send of the pump that goes through.
Sends == OverlayFlush /\ toDaemon' # toDaemon /\ inflight' # 0

\* Both processes keep running their loops, the sockets deliver, and a send
\* that is tried again and again is not refused each time.  The host is not
\* obliged to send anything.
FairSpec ==
  /\ Spec
  /\ WF_vars(~closed /\ Drain)
  /\ WF_vars(~closed /\ OverlayFlush)
  /\ SF_vars(~closed /\ Sends)
  /\ WF_vars(~closed /\ ClientReads)
  /\ WF_vars(~closed /\ DaemonHandles)

-----------------------------------------------------------------------------
(* Properties *)

\* The daemon has applied the head of the backlog and the bridge has not
\* learned it: the sequence the head has, or will be sent with, is applied.
HeadApplied ==
  backlog # <<>> /\ appliedSeq >= IF inflight # 0 THEN inflight ELSE seqNext + 1

Owned == (IF HeadApplied THEN Tail(backlog) ELSE backlog) \o retry
Taken == applied \o Owned

\* The bridge's queues, sequences, resends and refusals and the daemon's
\* watermark together implement a queue that applies each record once, in
\* order, whatever is resent, refused, answered late or sent although the send
\* reported an error.
Queue == INSTANCE OverlayQueue WITH owned <- Owned
ImplementsQueue == Queue!Spec

\* A sequence names one record for as long as a copy of it is in transit: what
\* the daemon takes for a replay is the record it applied under that sequence,
\* and what it takes for new is the next one owned.
SequenceNamesOneEvent ==
  /\ appliedSeq = Len(applied)
  /\ \A i \in DOMAIN toDaemon :
       LET m == toDaemon[i] IN
       IF m.seq <= appliedSeq THEN m.record = applied[m.seq]
       ELSE m.seq = appliedSeq + 1 /\ Owned # <<>> /\ m.record = Head(Owned)

\* As long as the ordered queue takes every push, the chrome is given its input
\* in the order the wire brought it, a large paste whole: nothing overtakes a
\* record that waits for room.
Before(r, s) == r.event < s.event \/ (r.event = s.event /\ r.piece < s.piece)
TakenInWireOrder ==
  ~oom => \A i, j \in DOMAIN Taken : i < j => Before(Taken[i], Taken[j])

\* Input is never lost or doubled between the queues: every event is in exactly
\* one place, once.  A press is waiting or decided, and only a decided one is
\* shown to the chrome; a key or paste is waiting, with the pane, or with the
\* chrome, in all its pieces and in their order.
Chrome == {Taken[i].event : i \in DOMAIN Taken}
Places == <<Range(ordered), Range(stash), Range(overflow), Range(pane), decided \cup Chrome>>

InputConserved ==
  /\ \A s \in {ordered, stash, overflow, pane} : IsInjective(s)
  /\ UNION Range(Places) = DOMAIN events
  /\ \A i, j \in DOMAIN Places : i # j => Places[i] \cap Places[j] = {}
  /\ \A e \in DOMAIN events :
       IF events[e].kind \in {"hit", "miss"}
       THEN e \notin Range(overflow) \cup Range(pane) /\ (e \in Chrome => e \in decided)
       ELSE e \notin Range(stash) \cup decided
  /\ \A e \in Chrome : {r \in Range(Taken) : r.event = e} = Range(Pieces(e))
  /\ \A i, j \in DOMAIN Taken :
       i < j /\ Taken[i].event = Taken[j].event => Taken[i].piece < Taken[j].piece

\* The last press the host sent before event e, 0 when there is none.
LastPress(e) ==
  LET presses == {p \in 1..(e - 1) : events[p].kind \in {"hit", "miss"}}
  IN IF presses = {} THEN 0 ELSE CHOOSE p \in presses : \A q \in presses : q <= p

\* Raw bytes that follow a click on the chrome go to the chrome, also when the
\* wire delivered both at once: the click ahead of them in the queue has been
\* resolved before they are routed.  (No failure, and the user has not asked
\* copy mode to exit.)
RawFollowsHit ==
  (faults = 0 /\ \A e \in DOMAIN events : events[e].kind # "quit") =>
    \A i \in DOMAIN pane :
      LET p == LastPress(pane[i]) IN
      events[pane[i]].raw /\ p # 0 => events[p].kind = "miss"

\* Every input event reaches its owner, through a full backlog, refusals and
\* resends, unless the connection closes or the ordered queue overflowed.
EveryInputIsTaken ==
  \A e \in Ids :
    (e \in DOMAIN events) ~>
      \/ closed \/ oom
      \/ e \in decided
      \/ e \in {pane[i] : i \in DOMAIN pane}
      \/ \E i \in DOMAIN applied :
           applied[i].event = e /\ applied[i].piece = Len(Pieces(e))
=============================================================================
