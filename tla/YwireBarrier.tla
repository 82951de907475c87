---------------------------- MODULE YwireBarrier ----------------------------
(* The exit-window input barrier of a terminal pane.  A pane has one PTY:    *)
(* input carries the user's keys, CLOSE frames and HOLD-ACKs to whoever      *)
(* reads the terminal, output carries the frames of the client program to    *)
(* the host.  While a client tears its channels down it reads the PTY with   *)
(* nobody left to act on a key, so it first asks the host to HOLD the keys.  *)
(* The host keeps them until the client is gone or a deadline passes.        *)
(*                                                                          *)
(* Clients run one after the other in the pane, between them the shell reads *)
(* the PTY.  "rpc" clients (yguiapp) hold dynamic channels, "dcs" clients    *)
(* (yguiapp2) only a pane-input subscription.  Time is counted in ticks; a   *)
(* deadline is the number of ticks left until it.                            *)
EXTENDS Naturals, Sequences, FiniteSets

CONSTANTS
  NChannels,    \* dynamic channels a client may open
  Kinds,        \* kinds of clients, a subset of {"rpc", "dcs"}
  DEADLINE,     \* INPUT_BARRIER_DEADLINE_MS, how long the host holds keys
  ACK_WAIT,     \* how long a client waits for the HOLD-ACK
  LEASE,        \* how old an ACK may be when the close drain starts
  DRAIN_WAIT,   \* how long the close drain may last
  Kills,        \* may a client be killed?
  MaxClients,   \* bound: clients started in the pane
  MaxKeys,      \* bound: keys typed
  MaxResets     \* bound: RIS/DECSTR sequences printed by the shell

ASSUME BarrierAssumption ==
  /\ NChannels \in Nat
  /\ Kinds \subseteq {"rpc", "dcs"}
  /\ {DEADLINE, ACK_WAIT, LEASE, DRAIN_WAIT} \subseteq Nat \ {0}
  /\ ACK_WAIT + LEASE + DRAIN_WAIT <= DEADLINE
  /\ Kills \in BOOLEAN
  /\ {MaxClients, MaxKeys, MaxResets} \subseteq Nat

VARIABLES
  host,     \* the pane's terminal: barrier, timer, channels it accepted
  client,   \* the program that owns the PTY, if any (misled is history: it took
            \* an ACK meant for an earlier client)
  output,   \* pane -> host, in order
  input,    \* host -> pane, in order
  typed,    \* history: keys the user typed
  taken,    \* history: keys taken off the PTY, in order, and by whom
  killed,   \* history: was a client killed?
  resets    \* history: resets printed

vars == <<host, client, output, input, typed, taken, killed, resets>>

Channel == 1 .. NChannels
Stopped == DEADLINE + 1   \* a timer that is not running

Msg(kind, n) == [msg |-> kind, n |-> n]
Keys(s) == [i \in 1 .. Len(s) |-> Msg("KEY", s[i])]

NoClient == [phase |-> "none", kind |-> "rpc", n |-> 0, opened |-> 0, open |-> {},
             pending |-> {}, ack_seen |-> FALSE, ack_age |-> 0, left |-> 0,
             misled |-> FALSE]

Init ==
  /\ host = [armed |-> FALSE, left |-> 0, held |-> <<>>, client_present |-> FALSE,
             open |-> {}, timer |-> Stopped, feeding |-> FALSE]
  /\ client = NoClient
  /\ output = <<>>
  /\ input = <<>>
  /\ typed = 0
  /\ taken = <<>>
  /\ killed = FALSE
  /\ resets = 0

-----------------------------------------------------------------------------
(* The barrier operations of the host's connection.                         *)

DeadlinePassed(h) == h.left = 0
ClientGone(h) == h.open = {} /\ ~h.client_present

(* Disarm and hand back what was held; the callers stop the timer only when *)
(* there was something to write to the pane.                                *)
Take(h) == [h EXCEPT !.armed = FALSE, !.held = <<>>,
                     !.timer = IF h.held = <<>> THEN @ ELSE Stopped]

ReleaseDueOnDeadlineOnly(h) == h.armed /\ DeadlinePassed(h)
ReleaseDue(h) == h.armed /\ (ClientGone(h) \/ DeadlinePassed(h))

ArmWithoutTimer(h) == [h EXCEPT !.armed = TRUE, !.left = DEADLINE]
Arm(h) == [h EXCEPT !.armed = TRUE, !.left = DEADLINE, !.timer = DEADLINE]

-----------------------------------------------------------------------------
(* A key of the user: held, or written to the pane after any backlog.       *)

Holds(h) == h.armed /\ ~DeadlinePassed(h)
AfterBacklogSwapped(h, key) == <<Msg("KEY", key)>> \o Keys(h.held)
AfterBacklog(h, key) == Keys(h.held) \o <<Msg("KEY", key)>>

Type ==
  LET key == typed + 1
  IN  /\ ~host.feeding
      /\ typed < MaxKeys
      /\ typed' = key
      /\ \/ /\ Holds(host)
            /\ host' = [host EXCEPT !.held = Append(@, key)]
            /\ UNCHANGED input
         \/ /\ ~Holds(host)
            /\ ReleaseDue(host)
            /\ host' = Take(host)
            /\ input' = input \o AfterBacklog(host, key)
         \/ /\ ~Holds(host)
            /\ ~ReleaseDue(host)
            /\ input' = Append(input, Msg("KEY", key))
            /\ UNCHANGED host
      /\ UNCHANGED <<client, output, taken, killed, resets>>

(* One chunk read from the pane is a run of messages, each handled in turn,  *)
(* and then one look at the barrier.  Nothing else runs on the host's loop   *)
(* in between.                                                              *)
Feed(kind) ==
  /\ output # <<>>
  /\ Head(output).msg = kind
  /\ output' = Tail(output)
  /\ UNCHANGED <<client, typed, taken, killed, resets>>

FeedOpen ==
  LET id == Head(output).n
  IN  /\ Feed("OPEN")
      /\ \/ /\ id \in host.open       \* duplicate id: refuse
            /\ host' = [host EXCEPT !.feeding = TRUE]
            /\ input' = Append(input, Msg("CLOSE", id))
         \/ /\ id \notin host.open
            /\ host' = [host EXCEPT !.feeding = TRUE, !.open = @ \cup {id}]
            /\ UNCHANGED input

FeedClose ==
  LET id == Head(output).n
  IN  /\ Feed("CLOSE")
      /\ \/ /\ id \in host.open
            /\ host' = [host EXCEPT !.feeding = TRUE, !.open = @ \ {id}]
            /\ input' = Append(input, Msg("CLOSE", id))
         \/ /\ id \notin host.open    \* unknown id: ignored
            /\ host' = [host EXCEPT !.feeding = TRUE]
            /\ UNCHANGED input

FeedSub ==
  /\ \/ Feed("SUB") /\ host' = [host EXCEPT !.feeding = TRUE, !.client_present = TRUE]
     \/ Feed("UNSUB") /\ host' = [host EXCEPT !.feeding = TRUE, !.client_present = FALSE]
     \/ Feed("RESET") /\ host' = [host EXCEPT !.feeding = TRUE, !.client_present = FALSE]
  /\ UNCHANGED input

(* Arm first, then ACK, then start the expiry timer. *)
FeedHold ==
  /\ Feed("HOLD")
  /\ host' = [Arm(host) EXCEPT !.feeding = TRUE]
  /\ input' = Append(input, Msg("ACK", Head(output).n))

FeedEnd ==
  /\ host.feeding
  /\ \/ /\ ReleaseDue(host)
        /\ host' = [Take(host) EXCEPT !.feeding = FALSE]
        /\ input' = input \o Keys(host.held)
     \/ /\ ~ReleaseDue(host)
        /\ host' = [host EXCEPT !.feeding = FALSE]
        /\ UNCHANGED input
  /\ UNCHANGED <<client, output, typed, taken, killed, resets>>

(* The expiry timer: forced release, then stop. *)
Expire ==
  /\ ~host.feeding
  /\ host.timer = 0
  /\ \/ /\ host.armed
        /\ host' = [Take(host) EXCEPT !.timer = Stopped]
        /\ input' = input \o Keys(host.held)
     \/ /\ ~host.armed
        /\ host' = [host EXCEPT !.timer = Stopped]
        /\ UNCHANGED input
  /\ UNCHANGED <<client, output, typed, taken, killed, resets>>

-----------------------------------------------------------------------------
(* A client program.                                                        *)

Alive == client.phase # "none"
Emit(msgs) == output' = output \o msgs

Start(kind) ==
  /\ ~Alive
  /\ client.n < MaxClients
  /\ client' = [NoClient EXCEPT !.phase = "running", !.kind = kind, !.n = client.n + 1]
  /\ Emit(IF kind = "dcs" THEN <<Msg("SUB", 0)>> ELSE <<>>)
  /\ UNCHANGED <<host, input, typed, taken, killed, resets>>

(* A new connection numbers its channels from the same first id. *)
OpenChannel ==
  /\ client.phase = "running"
  /\ client.kind = "rpc"
  /\ client.opened < NChannels
  /\ client' = [client EXCEPT !.opened = @ + 1, !.open = @ \cup {client.opened + 1}]
  /\ Emit(<<Msg("OPEN", client.opened + 1)>>)
  /\ UNCHANGED <<host, input, typed, taken, killed, resets>>

(* The parser is alive on every path below; only the sinks differ. *)
Take1(kind) ==
  /\ input # <<>>
  /\ Head(input).msg = kind
  /\ input' = Tail(input)
  /\ UNCHANGED <<host, typed, killed, resets>>

TakeKey(who) ==
  /\ Take1("KEY")
  /\ taken' = Append(taken, [key |-> Head(input).n, by |-> who])
  /\ UNCHANGED <<client, output>>

TakeAck ==
  /\ Take1("ACK")
  /\ client' = [client EXCEPT !.ack_seen = TRUE, !.ack_age = 0,
                              !.misled = @ \/ Head(input).n # client.n]
  /\ UNCHANGED <<output, taken>>

(* CLOSE of a channel the client has: an answer when it closed it itself,   *)
(* else the channel dies and is answered; any other id is ignored.          *)
TakeClose ==
  LET id == Head(input).n
  IN  /\ Take1("CLOSE")
      /\ \/ /\ id \in client.pending
            /\ client' = [client EXCEPT !.pending = @ \ {id}]
            /\ UNCHANGED output
         \/ /\ id \in client.open
            /\ client' = [client EXCEPT !.open = @ \ {id}]
            /\ Emit(<<Msg("CLOSE", id)>>)
         \/ /\ id \notin client.pending \cup client.open
            /\ UNCHANGED <<client, output>>
      /\ UNCHANGED taken

(* The loop waiting for the ACK ends when it is seen or the time is up.  A   *)
(* dcs client reads in chunks and so may read on behind the ACK.             *)
AckWaitOver == client.ack_seen \/ client.left = 0

Reading ==
  \/ client.phase = "running"
  \/ client.phase = "wait" /\ client.left > 0 /\ (client.ack_seen => client.kind = "dcs")

ClientRead == Reading /\ (TakeKey("client") \/ TakeAck \/ TakeClose)

(* Teardown starts: HOLD is on the wire before the wait begins.  Only dcs    *)
(* clients forget an ACK they saw before.                                   *)
SendHold ==
  /\ client.phase = "running"
  /\ client' = [client EXCEPT !.phase = "wait", !.left = ACK_WAIT,
                              !.ack_seen = @ /\ client.kind = "rpc"]
  /\ Emit(<<Msg("HOLD", client.n)>>)
  /\ UNCHANGED <<host, input, typed, taken, killed, resets>>

Leave == client' = [NoClient EXCEPT !.n = client.n]

(* A dcs client unsubscribes and is gone; an rpc client detaches its sinks. *)
EndAckWait ==
  /\ client.phase = "wait"
  /\ AckWaitOver
  /\ \/ client.kind = "dcs" /\ Leave /\ Emit(<<Msg("UNSUB", 0)>>)
     \/ /\ client.kind = "rpc"
        /\ client' = [client EXCEPT !.phase = "teardown"]
        /\ UNCHANGED output
  /\ UNCHANGED <<host, input, typed, taken, killed, resets>>

CloseChannel(id) ==
  /\ client.phase = "teardown"
  /\ id \in client.open
  /\ client' = [client EXCEPT !.open = @ \ {id}, !.pending = @ \cup {id}]
  /\ Emit(<<Msg("CLOSE", id)>>)
  /\ UNCHANGED <<host, input, typed, taken, killed, resets>>

(* The close drain needs a fresh ACK and something to wait for. *)
LeaseIgnored == TRUE
LeaseValid == client.ack_age <= LEASE
DrainAllowed == client.ack_seen /\ LeaseValid

EndTeardown ==
  /\ client.phase = "teardown"
  /\ client.open = {}
  /\ \/ /\ DrainAllowed
        /\ client' = [client EXCEPT !.phase = "drain", !.left = DRAIN_WAIT]
     \/ ~DrainAllowed /\ Leave
  /\ UNCHANGED <<host, output, input, typed, taken, killed, resets>>

(* The drain reads byte by byte, so it stops exactly behind the last CLOSE. *)
DrainReadsOn == client.left > 0 /\ client.pending # {}

Drain ==
  /\ client.phase = "drain"
  /\ DrainReadsOn
  /\ TakeKey(IF client.misled THEN "misled drain" ELSE "drain") \/ TakeAck \/ TakeClose

EndDrain ==
  /\ client.phase = "drain"
  /\ ~DrainReadsOn
  /\ Leave
  /\ UNCHANGED <<host, output, input, typed, taken, killed, resets>>

Kill ==
  /\ Kills
  /\ Alive
  /\ Leave
  /\ killed' = TRUE
  /\ UNCHANGED <<host, output, input, typed, taken, resets>>

-----------------------------------------------------------------------------
(* The shell reads the PTY between clients; frames mean nothing to it.      *)

ShellRead ==
  /\ ~Alive
  /\ \/ TakeKey("shell")
     \/ (Take1("ACK") \/ Take1("CLOSE")) /\ UNCHANGED <<client, output, taken>>

ShellReset ==
  /\ ~Alive
  /\ resets < MaxResets
  /\ resets' = resets + 1
  /\ Emit(<<Msg("RESET", 0)>>)
  /\ UNCHANGED <<host, client, input, typed, taken, killed>>

-----------------------------------------------------------------------------
(* Time.  One turn of a loop takes no time, between two turns any may pass. *)
Down(t) == IF t > 0 THEN t - 1 ELSE 0

Tick ==
  /\ ~host.feeding
  /\ host' = [host EXCEPT !.left = Down(@),
                          !.timer = IF @ = Stopped THEN @ ELSE Down(@)]
  /\ client' = [client EXCEPT !.left = Down(@),
                              !.ack_age = IF client.ack_seen /\ @ <= LEASE THEN @ + 1 ELSE @]
  /\ UNCHANGED <<output, input, typed, taken, killed, resets>>

Host == FeedOpen \/ FeedClose \/ FeedSub \/ FeedHold \/ FeedEnd \/ Expire
Client ==
  \/ \E kind \in Kinds : Start(kind)
  \/ OpenChannel \/ ClientRead \/ SendHold \/ EndAckWait
  \/ \E id \in Channel : CloseChannel(id)
  \/ EndTeardown \/ Drain \/ EndDrain \/ Kill
Shell == ShellRead \/ ShellReset

Next == Type \/ Host \/ Client \/ Shell \/ Tick

Spec == Init /\ [][Next]_vars

(* The host's loop and its timer run, time passes, and whoever owns the PTY  *)
(* goes on: it reads, and a client that began its teardown carries it out.   *)
Owner ==
  \/ ClientRead \/ EndAckWait
  \/ \E id \in Channel : CloseChannel(id)
  \/ EndTeardown \/ Drain \/ EndDrain
  \/ ShellRead

Fairness == WF_vars(Host) /\ WF_vars(Tick) /\ WF_vars(Owner)

FairSpec == Spec /\ Fairness

-----------------------------------------------------------------------------

(* Every key the user typed is in exactly one place, and in the order it was *)
(* typed: taken off the PTY, on its way to the pane, or held by the barrier. *)
KeysInOrder ==
  LET unread == {i \in 1 .. Len(input) : input[i].msg = "KEY"}
      passed == typed - Len(host.held)
  IN  /\ \A i \in 1 .. Len(taken) : taken[i].key = i
      /\ Len(taken) <= passed
      /\ {input[i].n : i \in unread} = (Len(taken) + 1) .. passed
      /\ \A i, j \in unread : i < j => input[i].n < input[j].n
      /\ \A i \in 1 .. Len(host.held) : host.held[i] = passed + i

(* The reason for the barrier: the close drain, which reads with its sinks  *)
(* detached, never takes a key, whatever the timing of the hold, its ACK,    *)
(* the deadline and the channel CLOSEs.  The one way out is an ACK that was   *)
(* meant for an earlier client.                                             *)
DrainTakesNoKey == \A i \in 1 .. Len(taken) : taken[i].by # "drain"

(* The host holds no longer than it must: once every program of the pane has *)
(* left in order and the host has seen their last word, nothing is held.     *)
(* Only a program that was killed makes the user wait for the deadline.      *)
ReleasedWhenGone ==
  (~killed /\ ~Alive /\ output = <<>> /\ ~host.feeding) => ~host.armed

(* Every key reaches a reader, even when the client that armed the barrier   *)
(* died with its channels open and no other event looks at the barrier.      *)
EveryKeyTaken ==
  (Len(taken) < typed) ~> (Len(taken) = typed)
=============================================================================
