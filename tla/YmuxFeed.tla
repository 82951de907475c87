------------------------------ MODULE YmuxFeed ------------------------------
(* How the screen of a ymux pane reaches one attached terminal.              *)
(*                                                                           *)
(*   pane -> daemon (projector, transmit queue) -> socket -> attach bridge   *)
(*        -> pipelined scene RPC -> the hosting terminal's grid              *)
(*                                                                           *)
(* The daemon projects the pane into frames: VTSINK_RPC (terminal bytes,     *)
(* complete or incremental), TRANSACTION (figures, complete or moved) and    *)
(* control frames.  Unacknowledged feeds close its window; a backlog makes   *)
(* it drop the terminal frames, destroy the feed session and send            *)
(* VTSINK_RESET, after which the bridge recreates the grid and publishes its *)
(* sink again.  A bridge that lost bytes sends RESYNC and recreates the grid *)
(* on its own.                                                               *)
(*                                                                           *)
(* The screen's content is a version number: an incremental feed leads from  *)
(* the version it was computed against to a later one, anywhere else it      *)
(* leaves NoText.  Sizes are counted in units: a complete redraw takes two.  *)
EXTENDS Integers, Sequences, FiniteSets, SequencesExt

CONSTANTS
  TX_CAP,         \* YMUX_DAEMON_TX_CAP
  HIGH_WATER,     \* YMUX_DAEMON_TX_RECOVER_HIGH_WATER
  MAX_UNACKED,    \* YMUX_DAEMON_MAX_UNACKED
  RECOVER_LIMIT,  \* YMUX_DAEMON_SLOW_RECOVER_LIMIT
  RING,           \* entries of the bridge's ledger of writes
  SOCKET,         \* bound: frames in the socket towards the client
  UPLINK,         \* bound: frames from the client the daemon has not read
  PIPELINE,       \* bound: scene calls without a completion
  MaxText,        \* bound: changes of the screen
  MaxTop,         \* bound: scrolled lines
  MaxFigure,      \* bound: drawings of the figure
  MaxModes,       \* bound: changes of the pane's modes
  MaxGen,         \* bound: feed generations minted
  MaxFaults       \* bound: failed allocations, feeds and remote writes

ASSUME FeedAssumption ==
  /\ {TX_CAP, HIGH_WATER, MAX_UNACKED, RECOVER_LIMIT, RING, SOCKET, UPLINK,
      PIPELINE} \subseteq Nat \ {0}
  /\ HIGH_WATER < TX_CAP
  /\ {MaxText, MaxTop, MaxFigure, MaxModes, MaxGen, MaxFaults} \subseteq Nat

VARIABLES
  pane,    \* what the application shows
  daemon,  \* one connection: projector shadow, transmit queue, window, session
  down,    \* frames in the socket, daemon -> client
  up,      \* frames daemon <- client
  bridge,  \* the client library and the attach bridge around it
  host,    \* the terminal: queued scene calls, their replies, the grid
  faults   \* bound: faults so far

vars == <<pane, daemon, down, up, bridge, host, faults>>

NoText == -1

Feed(gen, base, text) ==
  [type |-> "VTSINK_RPC", gen |-> gen, base |-> base, text |-> text]
Rich(full, figure, top) ==
  [type |-> "TRANSACTION", full |-> full, figure |-> figure, top |-> top]
Modes(modes) == [type |-> "PANE_MODES", modes |-> modes]
Ack(gen) == [type |-> "ACK", gen |-> gen]
Plain(type) == [type |-> type]

Full(feed) == feed.base = NoText
Terminal(frame) == frame.type \in {"VTSINK_RPC", "TRANSACTION"}
Control(frame) == ~Terminal(frame)
Size(frame) == IF frame.type = "VTSINK_RPC" /\ Full(frame) THEN 2 ELSE 1

(* The client has just been welcomed and has published its sink.            *)
Init ==
  /\ pane = [text |-> 0, top |-> 0, figure |-> 0, modes |-> 0]
  /\ daemon = [open |-> TRUE, want_close |-> FALSE, tx |-> <<>>, sent |-> 0,
               session |-> FALSE, minted |-> 0, sent_gen |-> 0, acked_gen |-> 0,
               strikes |-> 0, drained |-> FALSE, modes |-> <<>>,
               shadow |-> NoText, rich |-> <<>>]
  /\ down = <<>>
  /\ up = <<Plain("VTSINK_PUBLISH")>>
  /\ bridge = [phase |-> "poll", pending |-> <<>>, body |-> <<>>, applied |-> 0,
               acked |-> 0, retry |-> FALSE, desynced |-> FALSE, requested |-> FALSE,
               done |-> FALSE, ring |-> <<>>, covered |-> 0, reported |-> 0,
               arrived |-> <<>>, modes |-> 0]
  /\ host = [calls |-> <<>>, replies |-> <<>>, text |-> NoText,
             figure |-> 0, top |-> 0]
  /\ faults = 0

-----------------------------------------------------------------------------
(* The application.                                                          *)

ShowText ==
  /\ pane.text < MaxText
  /\ pane' = [pane EXCEPT !.text = @ + 1]
  /\ UNCHANGED <<daemon, down, up, bridge, host, faults>>

ScrollLine ==
  /\ pane.text < MaxText /\ pane.top < MaxTop
  /\ pane' = [pane EXCEPT !.text = @ + 1, !.top = @ + 1]
  /\ UNCHANGED <<daemon, down, up, bridge, host, faults>>

(* The first drawing creates the figure, a later one changes its content.    *)
DrawFigure ==
  /\ pane.figure < MaxFigure
  /\ pane' = [pane EXCEPT !.figure = @ + 1]
  /\ UNCHANGED <<daemon, down, up, bridge, host, faults>>

ChangeModes ==
  /\ pane.modes < MaxModes
  /\ pane' = [pane EXCEPT !.modes = @ + 1]
  /\ UNCHANGED <<daemon, down, up, bridge, host, faults>>

-----------------------------------------------------------------------------
(* The daemon's connection.                                                  *)

Units(tx) == FoldLeft(LAMBDA sum, frame : sum + Size(frame), 0, tx)
Unsent(d) == Units(d.tx) - d.sent
CanFit(d, frame) == Units(d.tx) + Size(frame) <= TX_CAP

Enqueue(d, frame) ==
  IF CanFit(d, frame) THEN [d EXCEPT !.tx = Append(@, frame)]
                      ELSE [d EXCEPT !.want_close = TRUE]

Invalidate(d) == [d EXCEPT !.shadow = NoText, !.rich = <<>>]
ResyncWindow(d) == [d EXCEPT !.sent_gen = 0, !.acked_gen = 0]

(* Control frames stay, and so does a leading frame that is partly sent.     *)
Kept(tx, leading) ==
  LET kept[i \in 0 .. Len(tx)] ==
        IF i = 0 THEN <<>>
        ELSE IF i <= leading \/ Control(tx[i]) THEN Append(kept[i - 1], tx[i])
        ELSE kept[i - 1]
  IN  kept[Len(tx)]
DropCutsHead(d) == [d EXCEPT !.tx = Kept(@, 0)]
DropTerminalFrames(d) == [d EXCEPT !.tx = Kept(@, IF d.sent > 0 THEN 1 ELSE 0)]

RecoverSkips(d) == ResyncWindow(DropTerminalFrames(d))
RecoverKeepsSession(d) ==
  LET dropped == DropTerminalFrames(d)
  IN  ResyncWindow(Invalidate(IF d.session THEN Enqueue(dropped, Plain("VTSINK_RESET"))
                                           ELSE dropped))
Recover(d) ==
  LET dropped == DropTerminalFrames(d)
  IN  ResyncWindow(Invalidate(
        IF d.session
        THEN Enqueue([dropped EXCEPT !.session = FALSE], Plain("VTSINK_RESET"))
        ELSE dropped))

Strike(d) ==
  LET next == IF d.drained THEN 0 ELSE d.strikes + 1
  IN  [d EXCEPT !.strikes = next, !.drained = FALSE,
                !.want_close = @ \/ next >= RECOVER_LIMIT]

PushModes(d) ==
  IF d.modes = <<pane.modes>> THEN d
  ELSE LET pushed == Enqueue(d, Modes(pane.modes))
       IN  IF pushed.tx = d.tx THEN pushed ELSE [pushed EXCEPT !.modes = <<pane.modes>>]

(* A frame of the client.                                                    *)
Publish(d) ==
  IF d.session THEN Enqueue(d, Plain("REFUSE"))
               ELSE ResyncWindow(Invalidate([d EXCEPT !.session = TRUE]))

ResyncKeepsWindow(d) == Invalidate(d)
Resync(d) == ResyncWindow(Invalidate(d))

DaemonReceive ==
  /\ daemon.open
  /\ up # <<>>
  /\ up' = Tail(up)
  /\ \/ /\ Head(up).type = "ACK"
        /\ daemon' = [daemon EXCEPT !.acked_gen = Head(up).gen]
     \/ /\ Head(up).type = "VTSINK_PUBLISH"
        /\ daemon' = Publish(daemon)
     \/ /\ Head(up).type = "RESYNC"
        /\ daemon' = Resync(daemon)
  /\ UNCHANGED <<pane, down, bridge, host, faults>>

(* A connection marked for closing goes at its next receive step.            *)
DaemonClose ==
  /\ daemon.open
  /\ daemon.want_close
  /\ daemon' = [daemon EXCEPT !.open = FALSE]
  /\ UNCHANGED <<pane, down, up, bridge, host, faults>>

(* A projection step begins with the pane's modes.  A backlog is dropped, a  *)
(* closed window skips the step, otherwise figures and then text are pushed. *)
Projecting == daemon.open /\ ~daemon.want_close
Backlogged(d) == Unsent(d) > HIGH_WATER
WindowClosed(d) == d.sent_gen > d.acked_gen + MAX_UNACKED

ProjectBacklogged ==
  /\ Projecting
  /\ \E d \in {PushModes(daemon)} :
       /\ Backlogged(d)
       /\ daemon' = Strike(Recover(d))
  /\ UNCHANGED <<pane, down, up, bridge, host, faults>>

ProjectNothing ==
  /\ Projecting
  /\ \E d \in {PushModes(daemon)} :
       /\ ~Backlogged(d) /\ WindowClosed(d)
       /\ daemon' = d
  /\ UNCHANGED <<pane, down, up, bridge, host, faults>>

KeepsUp(d) == [d EXCEPT !.strikes = 0, !.drained = FALSE]

(* Figures: a complete body after a change, positions after a scroll.        *)
FiguresChanged(d) == d.rich = <<>> \/ Head(d.rich).figure # pane.figure
FiguresMoved(d) == pane.figure > 0 /\ Head(d.rich).top # pane.top
RichDue(d) == FiguresChanged(d) \/ FiguresMoved(d)
RichBody(d) == Rich(FiguresChanged(d), pane.figure, pane.top)
RichShadow(d) == [d EXCEPT !.rich = <<[figure |-> pane.figure, top |-> pane.top]>>]
RichFits(d) == RichDue(d) => CanFit(d, RichBody(d))
PushRich(d) == IF RichDue(d) THEN Enqueue(RichShadow(d), RichBody(d)) ELSE d

(* Text: the projection is committed before the frame is queued.             *)
TextDue(d) == d.session /\ d.shadow # pane.text
NextFeed(d) == Feed(d.minted + 1, d.shadow, pane.text)
TextShadow(d) == [d EXCEPT !.shadow = pane.text]
PushText(d) ==
  [Enqueue(TextShadow(d), NextFeed(d)) EXCEPT !.minted = @ + 1,
                                              !.sent_gen = d.minted + 1]

FeedFailedForgets(d) == [TextShadow(d) EXCEPT !.minted = @ + 1]
FeedFailed(d) == Recover([TextShadow(d) EXCEPT !.minted = @ + 1])

ProjectContent ==
  /\ Projecting
  /\ \E d \in {KeepsUp(PushModes(daemon))} : \E r \in {PushRich(d)} :
       /\ ~Backlogged(d) /\ ~WindowClosed(d)
       /\ \/ /\ ~RichFits(d)
             /\ daemon' = Recover(RichShadow(d))
             /\ UNCHANGED faults
          \/ /\ RichFits(d) /\ ~TextDue(r)
             /\ daemon' = r
             /\ UNCHANGED faults
          \/ /\ RichFits(d) /\ TextDue(r) /\ ~CanFit(r, NextFeed(r))
             /\ daemon' = Recover(TextShadow(r))
             /\ UNCHANGED faults
          \/ /\ RichFits(d) /\ TextDue(r) /\ CanFit(r, NextFeed(r))
             /\ r.minted < MaxGen
             /\ daemon' = PushText(r)
             /\ UNCHANGED faults
          \/ /\ RichFits(d) /\ TextDue(r) /\ CanFit(r, NextFeed(r))
             /\ r.minted < MaxGen /\ faults < MaxFaults
             /\ daemon' = FeedFailed(r)
             /\ faults' = faults + 1
  /\ UNCHANGED <<pane, down, up, bridge, host>>

(* The socket takes one unit; a frame sent to its end leaves the queue.      *)
DaemonSend ==
  LET frame == Head(daemon.tx)
  IN  /\ daemon.open
      /\ daemon.tx # <<>>
      /\ \/ /\ daemon.sent + 1 < Size(frame)
            /\ daemon' = [daemon EXCEPT !.sent = @ + 1, !.drained = TRUE]
            /\ UNCHANGED down
         \/ /\ daemon.sent + 1 = Size(frame)
            /\ Len(down) < SOCKET
            /\ daemon' = [daemon EXCEPT !.tx = Tail(@), !.sent = 0, !.drained = TRUE]
            /\ down' = Append(down, frame)
      /\ UNCHANGED <<pane, up, bridge, host, faults>>

-----------------------------------------------------------------------------
(* The client library and the attach bridge run in one loop.  An iteration   *)
(* polls and reads the pane wire (Wake), steps the client if the poll saw    *)
(* daemon data (ClientStep), and settles.  What happens between stepping and *)
(* settling does not concern the bridge, so each is one step with settling.  *)
(* r holds what an iteration works on: the bridge, what it sends up, the     *)
(* host's end of the pipeline.                                               *)

(* Request a new grid, or take note that the requested one is there.         *)
ResetReceiver(b) ==
  CASE b.done -> [b EXCEPT !.done = FALSE, !.requested = FALSE]
    [] ~b.done /\ ~b.requested ->
         [b EXCEPT !.requested = TRUE, !.pending = <<>>, !.desynced = TRUE]
    [] OTHER -> b

(* Completions that have arrived are taken in order.  A failed call cancels  *)
(* what is covered but not yet reported.                                     *)
Pump(b) ==
  LET failed == \E i \in DOMAIN b.arrived : ~b.arrived[i]
      n == Len(b.arrived)
      count(entry) == [entry EXCEPT !.left = IF @ > n THEN @ - n ELSE 0]
  IN  [b EXCEPT !.arrived = <<>>,
                !.ring = [i \in DOMAIN @ |-> count(@[i])],
                !.desynced = @ \/ failed,
                !.covered = IF failed THEN b.reported ELSE @]

Republish(r) == [r EXCEPT !.b.acked = 0, !.b.retry = FALSE,
                          !.up = Append(@, Plain("VTSINK_PUBLISH"))]

ResetFromDaemon(r) ==
  LET reset == [r EXCEPT !.b = ResetReceiver(@)]
  IN  IF r.b.done THEN Republish(reset) ELSE [reset EXCEPT !.b.retry = TRUE]

RetryReset(r) == IF r.b.retry THEN ResetFromDaemon(r) ELSE r

(* A feed whose bytes cannot be kept desyncs the stream; a figure body that  *)
(* cannot be resolved is dropped for a redraw.                               *)
TakeFrame(r, frame, lost) ==
  CASE frame.type = "VTSINK_RPC" ->
         IF lost THEN [r EXCEPT !.b.desynced = TRUE, !.b.applied = frame.gen]
                 ELSE [r EXCEPT !.b.pending = Append(@, frame), !.b.applied = frame.gen]
    [] frame.type = "TRANSACTION" ->
         IF lost THEN [r EXCEPT !.up = Append(@, Plain("RESYNC"))]
                 ELSE [r EXCEPT !.b.body = <<frame>>]
    [] frame.type = "VTSINK_RESET" -> ResetFromDaemon(r)
    [] frame.type = "PANE_MODES" -> [r EXCEPT !.b.modes = frame.modes]
    [] OTHER -> r

TakeFrames(r, frames, lost) ==
  LET taken[i \in 0 .. Len(frames)] ==
        IF i = 0 THEN r ELSE TakeFrame(taken[i - 1], frames[i], i = lost)
  IN  taken[Len(frames)]

(* Everything one library step brought is published in one scene call, and   *)
(* its generation entered in the ledger with the number of completions that  *)
(* must come first.  A full ledger folds into its newest entry.              *)
Enter(ring, entry) == IF Len(ring) < RING THEN Append(ring, entry)
                                          ELSE [ring EXCEPT ![RING] = entry]

InPipeline(h) == Len(h.calls) + Len(h.replies)

FlushContent(r) ==
  LET pumped == Pump(r.b)
      entry == [left |-> InPipeline(r.h) + 1, gen |-> r.b.applied]
      ledgered == r.b.pending # <<>> /\ ~pumped.desynced
  IN  IF r.b.pending = <<>> /\ r.b.body = <<>> THEN r
      ELSE [r EXCEPT !.b = [pumped EXCEPT !.pending = <<>>, !.body = <<>>,
                              !.ring = IF ledgered THEN Enter(@, entry) ELSE @],
                     !.h.calls = Append(@, [feeds |-> r.b.pending, rich |-> r.b.body])]

(* Acknowledge the newest write whose completion has come.                   *)
Completed(b) == {i \in DOMAIN b.ring : \A j \in 1 .. i : b.ring[j].left = 0}
PopCompleted(b) ==
  LET n == Cardinality(Completed(b))
  IN  IF n = 0 THEN b
      ELSE [b EXCEPT !.covered = b.ring[n].gen, !.ring = SubSeq(@, n + 1, Len(@))]

Acknowledge(r, gen) ==
  IF gen > r.b.acked THEN [r EXCEPT !.b.acked = gen, !.up = Append(@, Ack(gen))] ELSE r

ReportApplied(r) ==
  LET popped == [r EXCEPT !.b = PopCompleted(Pump(@))]
      gen == popped.b.covered
  IN  IF r.b.desynced THEN r
      ELSE IF gen <= popped.b.reported THEN popped
      ELSE [Acknowledge(popped, gen) EXCEPT !.b.reported = gen]

(* The grid is recreated once nothing is left in the pipeline.               *)
NewGrid(b) == [b EXCEPT !.desynced = FALSE, !.covered = 0, !.reported = 0,
                        !.ring = <<>>, !.done = TRUE]

PerformReset(r) ==
  IF ~r.b.requested \/ r.b.done THEN r
  ELSE IF InPipeline(r.h) > 0 THEN [r EXCEPT !.b = Pump(@)]
  ELSE [r EXCEPT !.b = NewGrid(Pump(@)), !.h.text = NoText]

Settle(r) == PerformReset(ReportApplied(r))

EndIteration(result, phase) ==
  \E r \in {result} :
    /\ Len(r.up) <= UPLINK
    /\ up' = r.up
    /\ bridge' = [r.b EXCEPT !.phase = phase]
    /\ host' = r.h

(* A desynced stream asks for a complete redraw in every iteration.          *)
RequestResync(r) ==
  IF r.b.desynced
  THEN [r EXCEPT !.b = ResetReceiver(@), !.up = Append(@, Plain("RESYNC"))]
  ELSE r

ReadPaneWire(r) == [r EXCEPT !.b.arrived = @ \o r.h.replies, !.h.replies = <<>>]

Wake ==
  LET r == ReadPaneWire(RequestResync([b |-> bridge, up |-> up, h |-> host]))
  IN  /\ daemon.open
      /\ bridge.phase = "poll"
      /\ \/ down # <<>> /\ InPipeline(r.h) < PIPELINE /\ EndIteration(r, "step")
         \/ down = <<>> /\ EndIteration(Settle(r), "poll")
      /\ UNCHANGED <<pane, daemon, down, faults>>

ClientStep ==
  LET r == RetryReset([b |-> bridge, up |-> up, h |-> host])
      mayLose == {i \in DOMAIN down : Terminal(down[i]) /\ faults < MaxFaults}
  IN  /\ daemon.open
      /\ bridge.phase = "step"
      /\ down' = <<>>
      /\ \E lost \in {0} \cup mayLose :
           /\ \E taken \in {TakeFrames(r, down, lost)} :
                EndIteration(Settle(FlushContent(taken)), "poll")
           /\ faults' = IF lost = 0 THEN faults ELSE faults + 1
      /\ UNCHANGED <<pane, daemon>>

-----------------------------------------------------------------------------
(* The terminal applies one scene call: figures first, and when they fail,   *)
(* as positions for figures it does not have do, nothing of the call.        *)
Show(shown, feed) == IF Full(feed) \/ feed.base = shown THEN feed.text ELSE NoText
Shown(text, feeds) ==
  LET shown[i \in 0 .. Len(feeds)] ==
        IF i = 0 THEN text ELSE Show(shown[i - 1], feeds[i])
  IN  shown[Len(feeds)]

Rejected(call) == call.rich # <<>> /\ ~Head(call.rich).full /\ host.figure = 0

Applied(call) ==
  LET moved == [host EXCEPT !.text = Shown(@, call.feeds)]
  IN  IF call.rich = <<>> THEN moved
      ELSE LET body == Head(call.rich)
           IN  [moved EXCEPT !.top = body.top,
                             !.figure = IF body.full THEN body.figure ELSE @]

Answered(h, ok) == [h EXCEPT !.calls = Tail(@), !.replies = Append(@, ok)]
HostServe ==
  LET call == Head(host.calls)
  IN  /\ host.calls # <<>>
      /\ \/ /\ ~Rejected(call)
            /\ host' = Answered(Applied(call), TRUE)
            /\ UNCHANGED faults
         \/ /\ Rejected(call)
            /\ host' = Answered(host, FALSE)
            /\ UNCHANGED faults
         \/ /\ ~Rejected(call)
            /\ faults < MaxFaults
            /\ host' = Answered(host, FALSE)
            /\ faults' = faults + 1
      /\ UNCHANGED <<pane, daemon, down, up, bridge>>

-----------------------------------------------------------------------------
Application == ShowText \/ ScrollLine \/ DrawFigure \/ ChangeModes
Project == ProjectBacklogged \/ ProjectNothing \/ ProjectContent
Bridge == Wake \/ ClientStep

Next ==
  \/ Application
  \/ DaemonReceive \/ DaemonClose \/ Project \/ DaemonSend
  \/ Bridge \/ HostServe

Spec == Init /\ [][Next]_vars

(* The three loops keep running: each looks at its inputs again and again.   *)
Running ==
  /\ WF_vars(DaemonReceive) /\ WF_vars(DaemonClose)
  /\ WF_vars(Project) /\ WF_vars(DaemonSend)
  /\ WF_vars(Bridge) /\ WF_vars(HostServe)

FairSpec == Spec /\ Running

-----------------------------------------------------------------------------

(* A VTSINK_PUBLISH reaches only a daemon that holds no sink: the bridge     *)
(* publishes once for each session the daemon destroys, and the daemon never *)
(* refuses the PUBLISH that answers its own VTSINK_RESET.                    *)
Publishing == {i \in DOMAIN up : up[i].type = "VTSINK_PUBLISH"}
PublishIsAwaited ==
  /\ Cardinality(Publishing) <= 1
  /\ Publishing # {} => ~daemon.session

(* The daemon skips projections while more than MAX_UNACKED generations are  *)
(* unacknowledged.  Such a closed window will open again: the generation it  *)
(* waits for is still queued, shipped, in the bridge's ledger or on its way  *)
(* back as an ACK, or a RESYNC, which reopens it, has been or will be sent.  *)
UnderWay(gen) ==
  \/ \E s \in {daemon.tx, down, bridge.pending} :
       \E i \in DOMAIN s : s[i].type = "VTSINK_RPC" /\ s[i].gen = gen
  \/ \E i \in DOMAIN bridge.ring : bridge.ring[i].gen = gen
  \/ \E i \in DOMAIN up : up[i] \in {Ack(gen), Plain("RESYNC")}
  \/ bridge.desynced
  \/ \E i \in DOMAIN bridge.arrived : ~bridge.arrived[i]

WindowReopens == WindowClosed(daemon) => UnderWay(daemon.sent_gen)

(* When nothing is under way between an attached daemon and the terminal,    *)
(* the grid shows the pane's screen and the client knows the pane's modes:   *)
(* no drop, reset, lost frame or failed write leaves a stale picture behind. *)
AtRest ==
  /\ daemon.open /\ daemon.session
  /\ daemon.shadow = pane.text /\ daemon.modes = <<pane.modes>>
  /\ daemon.tx = <<>> /\ down = <<>> /\ up = <<>>
  /\ bridge.pending = <<>> /\ bridge.arrived = <<>> /\ ~bridge.desynced
  /\ host.calls = <<>> /\ host.replies = <<>>

RestsCurrent ==
  AtRest => host.text = pane.text /\ bridge.modes = pane.modes

(* A frame whose first bytes the socket has taken is sent to its end: what   *)
(* recovery drops from the transmit queue never cuts a frame on the wire.    *)
FramesStayWhole ==
  [][daemon.sent > 0 /\ daemon'.tx # daemon.tx
       => \/ daemon'.tx # <<>> /\ Head(daemon'.tx) = Head(daemon.tx)
          \/ down' = Append(down, Head(daemon.tx))]_vars

(* The grid catches up with the pane whenever the application pauses, unless *)
(* the connection closes, the stream desyncs again and again, or the bound   *)
(* on generations is met.                                                    *)
CatchesUp ==
  [](daemon.minted < MaxGen) /\ <>[]~bridge.desynced
    => <>[](~daemon.open \/ host.text = pane.text)

=============================================================================
