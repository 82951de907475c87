----------------------------- MODULE YmuxSession -----------------------------
(***************************************************************************)
(* The ymux daemon's sessions: attachments, the controller that owns the   *)
(* canonical geometry, and the figure channels a pane's application opens, *)
(* which the daemon relays to the controller's bridge and the bridge to    *)
(* yetty (session.c, daemon.c and the bridge in tools/ymux/main.c).        *)
(*                                                                         *)
(* The daemon is one thread that pumps: frames of every connection, then   *)
(* the PTY of every pane, then the send queues.  A frame, a pane's check   *)
(* and a pane's input are one action each; what is in a queue when the     *)
(* pump comes by is up to the other processes.                             *)
(*                                                                         *)
(* A session has one pane, created with it and closed with it, so the pane *)
(* is part of the session.  Frames that change neither the session nor the *)
(* relays (WELCOME, REFUSE, output, input) are left out.                   *)
(***************************************************************************)
EXTENDS Naturals, Sequences, FiniteSets, SequencesExt

CONSTANTS
  Clients,            \* connection slots and the bridges that use them
  Sessions,           \* session names
  Sizes,              \* view geometries
  Terminal,           \* Terminal[c]: geometry of the terminal bridge c starts in
  NewSize,            \* geometry a session is created with
  Channels,           \* ywire channel ids, which every program in a pane uses again
  MAX_ATTACHMENTS,    \* YMUX_SESSION_MAX_ATTACHMENTS
  PANE_RPC_CHANNELS,  \* YMUX_DAEMON_PANE_RPC_CHANNELS
  MAX_RPC_CHANNELS,   \* ATTACH_MAX_RPC_CHANNELS
  PTY,                \* requests an application's PTY holds unread
  Bounds              \* how many starts, orders, faults, calls and closes are explored

ASSUME SizesAssumption == Terminal \in [Clients -> Sizes] /\ NewSize \in Sizes
ASSUME ChannelsAssumption == IsFiniteSet(Channels) /\ Channels \subseteq Nat
ASSUME BoundsAssumption ==
  Bounds \in [starts: Nat, orders: Nat, faults: Nat, calls: Nat, closes: Nat]

NoSession == "no session"
ASSUME NoSessionAssumption == NoSession \notin Sessions

VARIABLES
  sess,      \* sess[s]: struct yetty_ymux_session of the entry named s
  conn,      \* conn[c]: the daemon's connection slot, and the bridge's end of it
  toDaemon,  \* toDaemon[c]: frames on their way from bridge c
  toClient,  \* toClient[c]: frames on their way to bridge c
  relay,     \* relay[s]: rpc_channels and rpc_controller of the pane
  app,       \* app[s][ch]: the running program's end of its channel
  pane,      \* pane[s]: channel messages on the PTY, not read by the daemon
  up,        \* up[c]: the bridge's rpc_channels, pane channel -> entry
  due,       \* due[c]: channels with a request yetty has still to answer
  cut,       \* cut[s]: channels that lost a message at a bridge or the daemon, are not
             \* tracked, or that a bridge asked to close (history)
  left       \* what is left of Bounds

sessVars   == <<sess, conn>>
relayVars  == <<relay, app, pane, cut>>
bridgeVars == <<up, due>>
vars == <<sess, conn, toDaemon, toClient, relay, app, pane, cut, up, due, left>>

(***************************************************************************)
(* The session object.                                                     *)
(***************************************************************************)

\* view: geometry of each attachment; resize: who holds PERMISSION_RESIZE.
\* Slots are interchangeable, so the attachment table is keyed by id.
NewSession(size) ==
  [live |-> TRUE, next |-> 1, ctl |-> 0, view |-> <<>>, resize |-> {},
   geo |-> size, pty |-> size]
NoPane == [live |-> FALSE, next |-> 1, ctl |-> 0, view |-> <<>>, resize |-> {},
           geo |-> 0, pty |-> 0]

Ids(S) == DOMAIN S.view

AttachedInControl(S, size) ==
  LET a == S.next
  IN  [S EXCEPT !.next = a + 1, !.ctl = a, !.resize = {a}, !.geo = size,
                !.view = [i \in Ids(S) \cup {a} |-> IF i = a THEN size ELSE S.view[i]]]

\* The next free slot. With no controller both branches of the token test claim
\* control, so the token decides nothing and is left out.
Attached(S, size) ==
  LET a == S.next
      V == [i \in Ids(S) \cup {a} |-> IF i = a THEN size ELSE S.view[i]]
  IN  [S EXCEPT !.next = a + 1, !.view = V,
                !.ctl = IF S.ctl = 0 THEN a ELSE S.ctl,
                !.resize = IF S.ctl = 0 THEN S.resize \cup {a} ELSE S.resize,
                !.geo = IF S.ctl = 0 THEN size ELSE S.geo]

\* The attachments of A leave, one after the other.
Detached(S, A) ==
  [S EXCEPT !.view = [i \in Ids(S) \ A |-> S.view[i]],
            !.resize = S.resize \ A,
            !.ctl = IF S.ctl \in A THEN 0 ELSE S.ctl]

TakenOverShared(S, a) ==
  [S EXCEPT !.resize = S.resize \cup {a}, !.ctl = a, !.geo = S.view[a]]

TakenOver(S, a) ==
  [S EXCEPT !.resize = (S.resize \ {S.ctl}) \cup {a}, !.ctl = a, !.geo = S.view[a]]

ResizedByAnyone(S, a, size) ==
  [S EXCEPT !.view = [i \in Ids(S) |-> IF i = a THEN size ELSE S.view[i]],
            !.geo = size]

Resized(S, a, size) ==
  [S EXCEPT !.view = [i \in Ids(S) |-> IF i = a THEN size ELSE S.view[i]],
            !.geo = IF a \in S.resize THEN size ELSE S.geo]

\* daemon_sync_pty_size
Synced(S) == [S EXCEPT !.pty = S.geo]

(***************************************************************************)
(* Connections and the pane's channels.                                    *)
(***************************************************************************)

\* link: "none" the slot is free, "open", "eof" the bridge is gone and the daemon
\* has not noticed, "dropped" the daemon closed and the bridge has not noticed.
Served(c) == conn[c].link \in {"open", "eof"}
Views(c, s) == Served(c) /\ conn[c].att # 0 /\ conn[c].s = s
Unattached(K) == [K EXCEPT !.s = NoSession, !.att = 0]
FreeSlot == [link |-> "none", s |-> NoSession, att |-> 0]

Relay(ch) == [t |-> "relay", ch |-> ch]
Close(ch) == [t |-> "close", ch |-> ch]
PaneExit  == [t |-> "exit"]
Closes(S) == SetToSeq({Close(ch) : ch \in S})

ToldAll(s, a, frames) ==
  [c \in Clients |-> IF a # 0 /\ Views(c, s) THEN toClient[c] \o frames ELSE toClient[c]]

\* Enqueue `frames` on the connection attached to s as a, if there is one.
Told(s, a, frames) ==
  [c \in Clients |-> IF a # 0 /\ Views(c, s) /\ conn[c].att = a
                     THEN toClient[c] \o frames ELSE toClient[c]]

\* A CLOSE the daemon has not read ends what it has under that id. Another program
\* may have taken the id up behind it.
SameChannel(s, ch) ==
  Cardinality({i \in DOMAIN pane[s] : pane[s][i] = Close(ch)}) =
    IF app[s][ch] = "closing" THEN 1 ELSE 0

\* yetty_ywire_channel_close toward the application, for each channel of S: it
\* sees its channel closed and answers CLOSE behind what it had already sent. A
\* channel that is closing on either side is not closed again.
AppsClosed(s, S) ==
  [app EXCEPT ![s] = [ch \in Channels |-> IF ch \in S /\ SameChannel(s, ch)
                                          THEN "closed" ELSE @[ch]]]
AnswersTo(s, S) ==
  Closes({ch \in S : SameChannel(s, ch) /\ app[s][ch] \in {"waiting", "idle"}})

\* What is sent for the channel ch of the session c views goes nowhere.
Lost(c, ch) == IF conn[c].att = 0 THEN cut ELSE [cut EXCEPT ![conn[c].s] = @ \cup {ch}]

\* rpc_controller says nothing while no channel is relayed, and the next one sets it.
RelayOf(owner, chans) == [owner |-> IF chans = {} THEN 0 ELSE owner, chans |-> chans]

\* daemon_pane_close_all_rpc_channels
CloseAll(s) ==
  /\ app' = AppsClosed(s, relay[s].chans)
  /\ pane' = [pane EXCEPT ![s] = @ \o AnswersTo(s, relay[s].chans)]
  /\ relay' = [relay EXCEPT ![s] = RelayOf(0, {})]
  /\ UNCHANGED cut

\* daemon_release_connection_relays: the channels a connection's attachment owns.
Owns(c) == /\ conn[c].att # 0
           /\ relay[conn[c].s].chans # {}
           /\ relay[conn[c].s].owner = conn[c].att

(***************************************************************************)
(* Bridges.                                                                *)
(***************************************************************************)
Spend(what) == left[what] > 0 /\ left' = [left EXCEPT ![what] = @ - 1]

\* Connect and attach to the session of that name.
Start(c) ==
  /\ conn[c].link = "none" /\ Spend("starts")
  /\ conn' = [conn EXCEPT ![c].link = "open"]
  /\ \E s \in Sessions :
       toDaemon' = [toDaemon EXCEPT ![c] = <<[t |-> "attach", s |-> s, v |-> Terminal[c]]>>]
  /\ UNCHANGED <<sess, toClient, relayVars, bridgeVars>>

Order(c) ==
  /\ conn[c].link = "open" /\ Spend("orders")
  /\ \E f \in {[t |-> "takeover"]} \cup {[t |-> "resize", v |-> v] : v \in Sizes} :
       toDaemon' = [toDaemon EXCEPT ![c] = Append(@, f)]
  /\ UNCHANGED <<sessVars, toClient, relayVars, bridgeVars>>

\* The bridge's process is over: its connection to yetty goes with it.
BridgeGone(c, frames) ==
  /\ conn' = [conn EXCEPT ![c].link = IF @ = "dropped" THEN "none" ELSE "eof"]
  /\ toDaemon' = [toDaemon EXCEPT ![c] = IF conn[c].link = "dropped" THEN <<>> ELSE @ \o frames]
  /\ up' = [up EXCEPT ![c] = <<>>]
  /\ due' = [due EXCEPT ![c] = {}]
  /\ UNCHANGED <<sess, relayVars>>

\* attach_cleanup: every upstream channel is closed, the daemon is told of those
\* it did not close itself, then DETACH, and all of it is drained.
Serving(c) == {ch \in Channels : ch \in DOMAIN up[c] /\ up[c][ch] = "open"}
Farewell(c) == Closes(Serving(c)) \o <<[t |-> "detach"]>>

Quit(c) ==
  /\ conn[c].link = "open" /\ Spend("orders")
  /\ BridgeGone(c, Farewell(c))
  /\ UNCHANGED toClient

ReadExit(c) ==
  /\ conn[c].link \in {"open", "dropped"}
  /\ toClient[c] # <<>> /\ Head(toClient[c]).t = "exit"
  /\ BridgeGone(c, Farewell(c))
  /\ toClient' = [toClient EXCEPT ![c] = IF conn[c].link = "dropped" THEN <<>> ELSE Tail(@)]
  /\ UNCHANGED left

SeesEnd(c) ==
  /\ conn[c].link = "dropped" /\ toClient[c] = <<>>
  /\ BridgeGone(c, <<>>)
  /\ UNCHANGED <<toClient, left>>

\* Killed: nothing more is sent.
Crash(c) ==
  /\ conn[c].link = "open" /\ Spend("faults")
  /\ BridgeGone(c, <<>>)
  /\ UNCHANGED toClient

\* attach_rpc_relay: find the channel's entry, or open a fresh upstream channel in a
\* free one. A closing channel takes no bytes, a full table drops them, an open may fail.
Piped(c, ch) ==
  /\ \/ ch \in DOMAIN up[c] /\ up[c][ch] = "open"
     \/ ch \notin DOMAIN up[c] /\ Cardinality(DOMAIN up[c]) < MAX_RPC_CHANNELS
  /\ up' = [up EXCEPT ![c] = [x \in DOMAIN @ \cup {ch} |-> IF x = ch THEN "open" ELSE @[x]]]
  /\ due' = [due EXCEPT ![c] = @ \cup {ch}]
  /\ UNCHANGED <<cut, left>>
Dropped(c, ch) ==
  /\ \/ ch \in DOMAIN up[c] /\ up[c][ch] = "closing" /\ UNCHANGED left
     \/ ch \notin DOMAIN up[c] /\ Cardinality(DOMAIN up[c]) >= MAX_RPC_CHANNELS /\ UNCHANGED left
     \/ ch \notin DOMAIN up[c] /\ Cardinality(DOMAIN up[c]) < MAX_RPC_CHANNELS /\ Spend("faults")
  /\ cut' = Lost(c, ch)
  /\ UNCHANGED bridgeVars
ReadRelay(c) ==
  /\ conn[c].link \in {"open", "dropped"}
  /\ toClient[c] # <<>> /\ Head(toClient[c]).t = "relay"
  /\ \E ch \in {Head(toClient[c]).ch} : Piped(c, ch) \/ Dropped(c, ch)
  /\ toClient' = [toClient EXCEPT ![c] = Tail(@)]
  /\ UNCHANGED <<sessVars, toDaemon, relay, app, pane>>

\* attach_rpc_relay_close
ReadClose(c) ==
  /\ conn[c].link \in {"open", "dropped"}
  /\ toClient[c] # <<>> /\ Head(toClient[c]).t = "close"
  /\ \E ch \in {Head(toClient[c]).ch} :
       up' = [up EXCEPT ![c] = [x \in DOMAIN @ |-> IF x = ch THEN "closing" ELSE @[x]]]
  /\ toClient' = [toClient EXCEPT ![c] = Tail(@)]
  /\ UNCHANGED <<sessVars, toDaemon, relayVars, due, left>>

\* attach_yetty_rpc_response: yetty's reply travels back.
YettyAnswers(c) ==
  /\ conn[c].link \in {"open", "dropped"}
  /\ \E ch \in due[c] :
       /\ due' = [due EXCEPT ![c] = @ \ {ch}]
       /\ toDaemon' = [toDaemon EXCEPT ![c] = Append(@, Relay(ch))]
  /\ UNCHANGED <<sessVars, toClient, relayVars, up, left>>

\* attach_yetty_rpc_event, the CLOSED event: the answer to our CLOSE, or yetty's own.
Without(f, x) == [y \in DOMAIN f \ {x} |-> f[y]]
YettyConfirms(c) ==
  /\ \E ch \in DOMAIN up[c] :
       /\ up[c][ch] = "closing"
       /\ up' = [up EXCEPT ![c] = Without(@, ch)]
       /\ due' = [due EXCEPT ![c] = @ \ {ch}]
  /\ UNCHANGED <<sessVars, toDaemon, toClient, relayVars, left>>
YettyCloses(c) ==
  /\ conn[c].link \in {"open", "dropped"} /\ Spend("faults")
  /\ \E ch \in DOMAIN up[c] :
       /\ up[c][ch] = "open"
       /\ up' = [up EXCEPT ![c] = Without(@, ch)]
       /\ due' = [due EXCEPT ![c] = @ \ {ch}]
       /\ toDaemon' = [toDaemon EXCEPT ![c] = Append(@, Close(ch))]
  /\ UNCHANGED <<sessVars, toClient, relayVars>>

(***************************************************************************)
(* Applications in the panes.                                              *)
(***************************************************************************)

\* A request on a channel. Its first one opens it, and ids are given out upwards.
AppCalls(s) ==
  /\ sess[s].live /\ Len(pane[s]) < PTY /\ Spend("calls")
  /\ \E ch \in Channels :
       /\ \/ app[s][ch] = "idle"
          \/ /\ app[s][ch] = "unused"
             /\ \A lower \in Channels : lower < ch => app[s][lower] # "unused"
       /\ app' = [app EXCEPT ![s][ch] = "waiting"]
       /\ pane' = [pane EXCEPT ![s] = Append(@, Relay(ch))]
  /\ UNCHANGED <<sessVars, toDaemon, toClient, relay, cut, bridgeVars>>

\* With or without calls outstanding.
AppCloses(s) ==
  /\ sess[s].live /\ Spend("closes")
  /\ \E ch \in Channels :
       /\ app[s][ch] \in {"idle", "waiting"}
       /\ app' = [app EXCEPT ![s][ch] = "closing"]
       /\ pane' = [pane EXCEPT ![s] = Append(@, Close(ch))]
  /\ UNCHANGED <<sessVars, toDaemon, toClient, relay, cut, bridgeVars>>

\* A program ends when each channel it opened has been closed on both sides; it
\* waits for the answers to its CLOSEs. The next one numbers its channels from
\* DYNAMIC_BASE again. A lost message of a channel that has left no trace is
\* forgotten with it.
Traces(s, ch) ==
  \/ ch \in relay[s].chans
  \/ \E i \in DOMAIN pane[s] : pane[s][i] \in {Relay(ch), Close(ch)}
  \/ \E c \in Clients :
       \/ ch \in DOMAIN up[c]
       \/ \E i \in DOMAIN toClient[c] : toClient[c][i] \in {Relay(ch), Close(ch)}
       \/ \E i \in DOMAIN toDaemon[c] : toDaemon[c][i] \in {Relay(ch), Close(ch)}

NextProgram(s) ==
  /\ sess[s].live
  /\ \A ch \in Channels : app[s][ch] \in {"unused", "closed"}
  /\ \E ch \in Channels : app[s][ch] = "closed"
  /\ app' = [app EXCEPT ![s] = [ch \in Channels |-> "unused"]]
  /\ cut' = [cut EXCEPT ![s] = {ch \in @ : Traces(s, ch)}]
  /\ UNCHANGED <<sessVars, toDaemon, toClient, relay, pane, bridgeVars, left>>

(***************************************************************************)
(* The daemon: frames.                                                     *)
(***************************************************************************)
Frame(c, t) == Served(c) /\ toDaemon[c] # <<>> /\ Head(toDaemon[c]).t = t
Took(c) == toDaemon' = [toDaemon EXCEPT ![c] = Tail(@)]

\* An attach on a live connection detaches its old view first.
HandleAttach(c) ==
  /\ Frame(c, "attach") /\ Took(c)
  /\ \E f \in {Head(toDaemon[c])}, K \in {conn[c]} :
     \E base \in {IF K.att = 0 THEN sess ELSE [sess EXCEPT ![K.s] = Detached(@, {K.att})]} :
       IF ~sess[f.s].live THEN UNCHANGED sessVars
       ELSE IF Cardinality(Ids(base[f.s])) >= MAX_ATTACHMENTS
       THEN /\ sess' = base
            /\ conn' = [conn EXCEPT ![c] = Unattached(@)]
       ELSE /\ sess' = [base EXCEPT ![f.s] = Synced(Attached(@, f.v))]
            /\ conn' = [conn EXCEPT ![c].s = f.s, ![c].att = base[f.s].next]
  /\ UNCHANGED <<toClient, relayVars, bridgeVars, left>>

HandleOrder(c) ==
  /\ \/ Frame(c, "takeover")
     \/ Frame(c, "resize")
  /\ Took(c)
  /\ \E f \in {Head(toDaemon[c])}, K \in {conn[c]} :
       sess' = IF K.att = 0 THEN sess
               ELSE [sess EXCEPT ![K.s] =
                       Synced(IF f.t = "takeover" THEN TakenOver(@, K.att)
                              ELSE Resized(@, K.att, f.v))]
  /\ UNCHANGED <<conn, toClient, relayVars, bridgeVars, left>>

\* The relays go before the identity does.
HandleDetach(c) ==
  /\ Frame(c, "detach") /\ Took(c)
  /\ \E K \in {conn[c]} :
       /\ IF Owns(c)
          THEN /\ CloseAll(K.s)
               /\ toClient' = Told(K.s, K.att, Closes(relay[K.s].chans))
          ELSE UNCHANGED <<toClient, relayVars>>
       /\ sess' = IF K.att = 0 THEN sess ELSE [sess EXCEPT ![K.s] = Detached(@, {K.att})]
       /\ conn' = [conn EXCEPT ![c] = Unattached(@)]
  /\ UNCHANGED <<bridgeVars, left>>

\* daemon_relay_authorized: only the controller may speak on a pane's channel.
Authorized(c) == conn[c].att # 0 /\ sess[conn[c].s].ctl = conn[c].att

HandleRelay(c) ==
  /\ Frame(c, "relay") /\ Took(c)
  /\ \E ch \in {Head(toDaemon[c]).ch}, s \in {conn[c].s} :
       IF conn[c].att = 0 \/ ch \notin relay[s].chans THEN UNCHANGED <<app, cut>>
       ELSE IF Authorized(c)
       THEN /\ app' = [app EXCEPT ![s][ch] = IF @ = "waiting" /\ SameChannel(s, ch)
                                           THEN "idle" ELSE @]
            /\ UNCHANGED cut
       ELSE /\ cut' = Lost(c, ch)
            /\ UNCHANGED app
  /\ UNCHANGED <<sessVars, toClient, relay, pane, bridgeVars, left>>

\* The mapping goes first, so that the channel's own event finds none.
HandleRelayClose(c) ==
  /\ Frame(c, "close") /\ Took(c)
  /\ \E ch \in {Head(toDaemon[c]).ch}, s \in {conn[c].s} :
       /\ IF Authorized(c) /\ ch \in relay[s].chans
          THEN /\ relay' = [relay EXCEPT ![s] = RelayOf(@.owner, @.chans \ {ch})]
               /\ app' = AppsClosed(s, {ch})
               /\ pane' = [pane EXCEPT ![s] = @ \o AnswersTo(s, {ch})]
          ELSE UNCHANGED <<relay, app, pane>>
       /\ cut' = IF conn[c].att # 0 /\ ch \in relay[s].chans THEN Lost(c, ch) ELSE cut
  /\ UNCHANGED <<sessVars, toClient, bridgeVars, left>>

ResetSlotOnly(c, link) ==
  /\ conn' = [conn EXCEPT ![c] = [FreeSlot EXCEPT !.link = link]]
  /\ UNCHANGED <<sess, relayVars, bridgeVars>>

\* The slot is reset; the attachment goes, its relays are left to the pane's check.
Reset(c, link) ==
  /\ sess' = IF conn[c].att = 0 THEN sess
             ELSE [sess EXCEPT ![conn[c].s] = Detached(@, {conn[c].att})]
  /\ conn' = [conn EXCEPT ![c] = [FreeSlot EXCEPT !.link = link]]
  /\ UNCHANGED <<relayVars, bridgeVars>>

\* Readable with zero bytes, once every frame before it is handled.
RxEnd(c) ==
  /\ conn[c].link = "eof" /\ toDaemon[c] = <<>>
  /\ Reset(c, "none")
  /\ toClient' = [toClient EXCEPT ![c] = <<>>]
  /\ UNCHANGED <<toDaemon, left>>

\* A send to a bridge that is gone fails: its unread frames are lost.
TxFails(c) ==
  /\ conn[c].link = "eof" /\ toClient[c] # <<>>
  /\ Reset(c, "none")
  /\ toClient' = [toClient EXCEPT ![c] = <<>>]
  /\ toDaemon' = [toDaemon EXCEPT ![c] = <<>>]
  /\ UNCHANGED left

\* want_close after a send queue overflow: what was not sent yet is lost.
DropSlow(c) ==
  /\ conn[c].link = "open" /\ toDaemon[c] = <<>> /\ Spend("faults")
  /\ Reset(c, "dropped")
  /\ \E n \in 0 .. Len(toClient[c]) :
       toClient' = [toClient EXCEPT ![c] = SubSeq(@, 1, n)]
  /\ UNCHANGED toDaemon

(***************************************************************************)
(* The daemon: session commands, sent by connections that attach nowhere.  *)
(***************************************************************************)
SessionNew(s) ==
  /\ ~sess[s].live /\ Spend("orders")
  /\ sess' = [sess EXCEPT ![s] = NewSession(NewSize)]
  /\ app' = [app EXCEPT ![s] = [ch \in Channels |-> "unused"]]
  /\ UNCHANGED <<conn, toDaemon, toClient, relay, pane, cut, bridgeVars>>

\* Every client of the session sees its relays close, then PANE_EXIT.
Exits(s) ==
  [c \in Clients |->
     IF Views(c, s)
     THEN toClient[c] \o (IF Owns(c) THEN Closes(relay[s].chans) ELSE <<>>) \o <<PaneExit>>
     ELSE toClient[c]]
AllLeave(s) ==
  /\ toClient' = Exits(s)
  /\ conn' = [c \in Clients |-> IF Views(c, s) THEN Unattached(conn[c]) ELSE conn[c]]

SessionDetach(s) ==
  /\ sess[s].live /\ Spend("orders")
  /\ IF \E c \in Clients : Views(c, s) /\ Owns(c)
     THEN CloseAll(s) ELSE UNCHANGED relayVars
  /\ sess' = [sess EXCEPT ![s] = Detached(@, {conn[c].att : c \in {d \in Clients : Views(d, s)}})]
  /\ AllLeave(s)
  /\ UNCHANGED <<toDaemon, bridgeVars>>

\* kill-session, or the pane's child exits: the PTY and its channels are destroyed.
SessionEnd(s) ==
  /\ sess[s].live /\ Spend("orders")
  /\ sess' = [sess EXCEPT ![s] = NoPane]
  /\ relay' = [relay EXCEPT ![s] = RelayOf(0, {})]
  /\ app' = [app EXCEPT ![s] = [ch \in Channels |-> "unused"]]
  /\ pane' = [pane EXCEPT ![s] = <<>>] /\ cut' = [cut EXCEPT ![s] = {}]
  /\ AllLeave(s)
  /\ UNCHANGED <<toDaemon, bridgeVars>>

(***************************************************************************)
(* The daemon: a pane's part of the pump.                                  *)
(***************************************************************************)
StaleWhenReplaced(s) ==
  relay[s].chans # {} /\ sess[s].ctl # 0 /\ relay[s].owner # sess[s].ctl

Stale(s) == relay[s].chans # {} /\ relay[s].owner # sess[s].ctl

\* daemon_pane_rpc_check_controller, before any input of the pane is read.
PaneCheck(s) ==
  /\ Stale(s)
  /\ CloseAll(s)
  /\ toClient' = Told(s, relay[s].owner, Closes(relay[s].chans))
  /\ UNCHANGED <<sessVars, toDaemon, bridgeVars, left>>

\* daemon_pane_rpc_forward: without a controller the channel is refused.
Forward(s) ==
  /\ sess[s].live /\ ~Stale(s) /\ pane[s] # <<>> /\ Head(pane[s]).t = "relay"
  /\ \E ch \in {Head(pane[s]).ch}, a \in {sess[s].ctl} :
       IF a = 0
       THEN /\ app' = AppsClosed(s, {ch})
            /\ pane' = [pane EXCEPT ![s] = Tail(@) \o AnswersTo(s, {ch})]
            /\ UNCHANGED <<relay, toClient, cut>>
       ELSE /\ \E S \in {relay[s].chans} :
               \E T \in {IF Cardinality(S) < PANE_RPC_CHANNELS THEN S \cup {ch} ELSE S} :
                 /\ relay' = [relay EXCEPT ![s] = RelayOf(a, T)]
                 /\ cut' = [cut EXCEPT ![s] = IF ch \in T THEN @ ELSE @ \cup {ch}]
            /\ toClient' = Told(s, a, <<Relay(ch)>>)
            /\ pane' = [pane EXCEPT ![s] = Tail(@)]
            /\ UNCHANGED app
  /\ UNCHANGED <<sessVars, toDaemon, bridgeVars, left>>

\* daemon_pane_rpc_close: the controller hears of it only if the channel was mapped.
\* The daemon has answered the CLOSE before.
PaneClose(s) ==
  /\ sess[s].live /\ ~Stale(s) /\ pane[s] # <<>> /\ Head(pane[s]).t = "close"
  /\ \E ch \in {Head(pane[s]).ch} :
       /\ relay' = [relay EXCEPT ![s] = RelayOf(@.owner, @.chans \ {ch})]
       /\ toClient' = IF ch \in relay[s].chans THEN Told(s, sess[s].ctl, <<Close(ch)>>)
                      ELSE toClient
       /\ app' = [app EXCEPT ![s][ch] = IF @ = "closing" /\ SameChannel(s, ch)
                                      THEN "closed" ELSE @]
  /\ pane' = [pane EXCEPT ![s] = Tail(@)]
  /\ UNCHANGED <<sessVars, toDaemon, cut, bridgeVars, left>>

(***************************************************************************)
(* The specification.                                                      *)
(***************************************************************************)
Init ==
  /\ sess = [s \in Sessions |-> NoPane]
  /\ conn = [c \in Clients |-> FreeSlot]
  /\ toDaemon = [c \in Clients |-> <<>>] /\ toClient = [c \in Clients |-> <<>>]
  /\ relay = [s \in Sessions |-> RelayOf(0, {})]
  /\ app = [s \in Sessions |-> [ch \in Channels |-> "unused"]]
  /\ pane = [s \in Sessions |-> <<>>]
  /\ up = [c \in Clients |-> <<>>] /\ due = [c \in Clients |-> {}]
  /\ cut = [s \in Sessions |-> {}]
  /\ left = Bounds

BridgeStep(c) == \/ ReadExit(c) \/ SeesEnd(c) \/ ReadRelay(c) \/ ReadClose(c)
                 \/ YettyAnswers(c) \/ YettyConfirms(c)
BridgeWill(c) == Start(c) \/ Order(c) \/ Quit(c) \/ Crash(c) \/ YettyCloses(c)
RxStep(c) == \/ HandleAttach(c) \/ HandleOrder(c) \/ HandleDetach(c)
             \/ HandleRelay(c) \/ HandleRelayClose(c) \/ RxEnd(c)
Command(s) == SessionNew(s) \/ SessionDetach(s) \/ SessionEnd(s)
PaneStep(s) == PaneCheck(s) \/ Forward(s) \/ PaneClose(s)

Next ==
  \/ \E c \in Clients : BridgeStep(c) \/ BridgeWill(c) \/ RxStep(c) \/ TxFails(c) \/ DropSlow(c)
  \/ \E s \in Sessions : Command(s) \/ PaneStep(s) \/ AppCalls(s) \/ AppCloses(s)
                         \/ NextProgram(s)

Spec == Init /\ [][Next]_vars

\* The daemon's pump comes by every connection and pane, a bridge polls both of
\* its connections, and yetty answers. Nobody has to start, call, quit or fail.
FairSpec ==
  /\ Spec
  /\ \A c \in Clients : /\ WF_vars(RxStep(c))
                        /\ WF_vars(ReadExit(c) \/ SeesEnd(c) \/ ReadRelay(c) \/ ReadClose(c))
                        /\ WF_vars(YettyAnswers(c)) /\ WF_vars(YettyConfirms(c))
  /\ \A s \in Sessions : WF_vars(PaneStep(s))

(***************************************************************************)
(* Properties.                                                             *)
(***************************************************************************)

\* The daemon's two tables agree: every attachment of a session is the view of
\* exactly one connection, and a connection's attachment exists. Attach, detach,
\* reset, detach-client and kill each change both tables (daemon.c 953-994, 1076-1092,
\* 1462-1500, 2150-2161, 2735-2745), and ids start over in a session of the same name.
ViewsMatch ==
  \A s \in Sessions :
    /\ \A a \in Ids(sess[s]) : \E c \in Clients : Views(c, s) /\ conn[c].att = a
    /\ \A c \in Clients : Views(c, s) => conn[c].att \in Ids(sess[s])
    /\ \A c, d \in Clients : (Views(c, s) /\ Views(d, s) /\ conn[c].att = conn[d].att) => c = d

\* One attachment at most may resize the pane: the controller, which is attached,
\* whatever the order of takeovers, detaches and attaches (session.c 296-318, 386-393).
ControllerAlone ==
  \A s \in Sessions : sess[s].resize = IF sess[s].ctl = 0 THEN {} ELSE {sess[s].ctl}

\* The pane and its PTY have the geometry of the controller's view, and keep the
\* last one when there is no controller (session.c 310-317, 391-402, 421-430).
CanonicalGeometry ==
  \A s \in Sessions :
    /\ sess[s].ctl # 0 => sess[s].geo = sess[s].view[sess[s].ctl]
    /\ sess[s].pty = sess[s].geo

\* A controller that is still attached loses control only to its own successor's
\* TAKEOVER: no attach, resize, detach or reset of another client takes it.
ControlIsNotStolen ==
  [][\A s \in Sessions :
       (sess[s].ctl # 0 /\ sess'[s].ctl # sess[s].ctl /\ sess[s].ctl \in Ids(sess'[s])) =>
         \E c \in Clients : /\ Frame(c, "takeover") /\ Took(c)
                            /\ conn[c].s = s /\ conn[c].att = sess'[s].ctl]_vars

\* At rest the bridges' upstream channels are the pane's relayed channels: every
\* relayed channel has an open upstream end at its owner, and no bridge keeps one
\* whose pane channel is gone. Left out is a channel whose upstream side the code
\* does lose: a request on it met the id's last upstream channel still closing, a full
\* table or an open that failed (main.c 2209-2252), the daemon had no room to track it
\* (daemon.c 536), or a bridge asked to close it, or spoke on it without control, while
\* the pane relayed it (daemon.c 648-663, 666-700, 934-951, 2299-2316).
Rest == /\ \A c \in Clients : toDaemon[c] = <<>> /\ toClient[c] = <<>>
        /\ \A s \in Sessions : pane[s] = <<>> /\ ~Stale(s)
RelayedTo(c) == IF Owns(c) THEN relay[conn[c].s].chans ELSE {}
RelaysPairAtRest ==
  Rest => \A c \in Clients : conn[c].link = "open" =>
            \A s \in Sessions : Views(c, s) =>
              Serving(c) \ cut[s] = RelayedTo(c) \ cut[s]

\* An application that waits for a reply sees one or sees its channel closed, whoever
\* takes over, detaches, crashes or is dropped, and whatever channels of the same id
\* the programs before it left behind, unless a message of its channel was dropped: see
\* RelaysPairAtRest. The reply may be a late one to an earlier program (main.c 2129-2140).
AppIsReleased ==
  \A s \in Sessions : \A ch \in Channels :
    (app[s][ch] = "waiting" /\ ch \notin cut[s]) ~>
       (app[s][ch] # "waiting" \/ ch \in cut[s])
=============================================================================
