------------------------- MODULE YwireBarrierProofs -------------------------
(***************************************************************************)
(* Theorems about YwireBarrier, for any number of channels, clients and    *)
(* keys and any times that satisfy BarrierAssumption.  The first follows   *)
(* the timing: from the moment the host answers a HOLD until the close     *)
(* drain of the client that sent it is over, the host's deadline is        *)
(* further away than the client's own limits, so that the host holds the   *)
(* keys until it has answered every CLOSE the drain waits for.  The second *)
(* follows the channels: what the host has open, once it has read all that *)
(* is on its way, is what a client has open.  The third follows the keys:  *)
(* those nobody has read are in the stream and then among the held ones.   *)
(***************************************************************************)
EXTENDS YwireBarrier, SequenceTheorems, TLAPS

Message == [msg : {"KEY", "ACK", "CLOSE", "OPEN", "SUB", "UNSUB", "RESET", "HOLD"}, n : Nat]

Hosts == [armed : BOOLEAN, left : 0 .. DEADLINE, held : Seq(Nat), client_present : BOOLEAN,
          open : SUBSET Nat, timer : Nat, feeding : BOOLEAN]

Clients == [phase : {"none", "running", "wait", "teardown", "drain"}, kind : {"rpc", "dcs"},
            n : Nat, opened : Nat, open : SUBSET Nat, pending : SUBSET Nat,
            ack_seen : BOOLEAN, ack_age : Nat, left : Nat, misled : BOOLEAN]

Readers == {"client", "shell", "drain", "misled drain"}

TypeInv ==
  /\ host \in Hosts
  /\ client \in Clients
  /\ output \in Seq(Message)
  /\ input \in Seq(Message)
  /\ typed \in Nat
  /\ taken \in Seq([key : Nat, by : Readers])
  /\ killed \in BOOLEAN
  /\ resets \in Nat

-----------------------------------------------------------------------------
(* The parts of the inductive invariant.                                    *)

\* The host's timer runs with the deadline of the barrier that is armed.
TimerInv == host.armed => host.timer = host.left

\* What each phase of a client has done already.
PhaseInv ==
  /\ client.phase = "none" => client.open = {} /\ client.pending = {}
  /\ client.phase \in {"running", "wait"} => client.pending = {}
  /\ client.phase = "wait" => client.left <= ACK_WAIT
  /\ client.phase = "drain" => client.open = {} /\ client.ack_seen
  /\ client.kind = "dcs" => client.open = {} /\ client.phase \notin {"teardown", "drain"}
  /\ client.phase = "running" /\ client.ack_seen => client.misled

\* HOLDs and ACKs bear the number of a client that sent a HOLD.
Below(s, kind, b) == \A i \in 1 .. Len(s) : s[i].msg = kind => s[i].n < b
Limit == IF client.phase = "running" THEN client.n ELSE client.n + 1
NumberInv == Below(output, "HOLD", Limit) /\ Below(input, "ACK", Limit)

\* A client opens no channel after its HOLD.
HoldAfter(s, n) ==
  \A i, j \in 1 .. Len(s) : s[i].msg = "HOLD" /\ s[i].n = n /\ s[j].msg = "OPEN" => j < i
HoldInv == client.phase # "none" => HoldAfter(output, client.n)

NoneOf(s, kind) == \A i \in 1 .. Len(s) : s[i].msg # kind

\* The messages of s behind place i say nothing more of the kind about id.
NoneLater(s, i, kind, id) == \A j \in (i + 1) .. Len(s) : ~(s[j].msg = kind /\ s[j].n = id)

\* The channel id is open at a host that has the channels in O open, once it has read
\* the messages s: the last word about it is an OPEN.
WillBeOpen(O, s, id) ==
  \/ id \in O /\ NoneLater(s, 0, "CLOSE", id)
  \/ \E i \in 1 .. Len(s) : /\ s[i].msg = "OPEN" /\ s[i].n = id
                            /\ NoneLater(s, i, "CLOSE", id)

\* An open channel of the client is open at the host, or will be.
OpenInv == \A id \in client.open : WillBeOpen(host.open, output, id)

\* While the answer to the client's HOLD is on its way, the host is as far from its
\* deadline as the client is from the end of its wait, and lets no key follow the ACK.
AckInv ==
  client.phase = "wait" =>
    \A i \in 1 .. Len(input) :
      input[i].msg = "ACK" /\ input[i].n = client.n =>
        /\ NoneOf(output, "OPEN")
        /\ client.left > 0 =>
             /\ host.left + ACK_WAIT >= DEADLINE + client.left
             /\ client.open # {} =>
                  /\ host.armed
                  /\ \A j \in 1 .. Len(input) : input[j].msg = "KEY" => j < i

\* The client has its ACK and either can still start the close drain or is in it.
Covered ==
  /\ client.kind = "rpc" /\ client.ack_seen /\ ~client.misled
  /\ \/ client.phase \in {"wait", "teardown"} /\ client.ack_age <= LEASE
     \/ client.phase = "drain" /\ client.left > 0

\* The CLOSE of the channel id is in s, and no key before it.
Answers(s, id) ==
  \E j \in 1 .. Len(s) : /\ s[j].msg = "CLOSE" /\ s[j].n = id
                          /\ \A i \in 1 .. Len(s) : s[i].msg = "KEY" => j < i

\* Until then the host's deadline is further away than the client's limits; as long
\* as the host has one of its channels open it is armed and no key is on its way;
\* and the CLOSE of each channel the drain waits for comes before any key.
DeadlineBehind ==
  /\ client.phase # "drain" => host.left + ACK_WAIT + client.ack_age >= DEADLINE
  /\ client.phase = "drain" => host.left >= client.left
ArmedWhileOpen ==
  (client.open \cup client.pending) \cap host.open # {} => host.armed /\ NoneOf(input, "KEY")
AnsweredFirst == \A id \in client.pending : id \in host.open \/ Answers(input, id)

CoverInv ==
  Covered => NoneOf(output, "OPEN") /\ DeadlineBehind /\ ArmedWhileOpen /\ AnsweredFirst

\* A host that rests has no reason left to let go.
RestInv == host.armed /\ ~host.feeding => ~ClientGone(host)

Subscribed == client.phase # "none" /\ client.kind = "dcs"

\* The messages of s behind place i end no subscription.
NoReset(s, i) == \A j \in (i + 1) .. Len(s) : s[j].msg \notin {"UNSUB", "RESET"}

\* The host has, or will have, a subscriber once it has read the messages s.
WillBePresent(present, s) ==
  \/ present /\ NoReset(s, 0)
  \/ \E i \in 1 .. Len(s) : s[i].msg = "SUB" /\ NoReset(s, i)

\* As long as nobody was killed: what the host will have open is open at the client,
\* and it will have a subscriber only while a dcs client runs.
GoneInv ==
  ~killed =>
    /\ \A id \in Nat : WillBeOpen(host.open, output, id) => id \in client.open
    /\ WillBePresent(host.client_present, output) => Subscribed

BarrierInv ==
  /\ TimerInv /\ PhaseInv /\ NumberInv /\ HoldInv /\ OpenInv /\ AckInv /\ CoverInv
  /\ DrainTakesNoKey

LeaveInv == RestInv /\ GoneInv

-----------------------------------------------------------------------------
(* Wires.                                                                   *)

(* What is written one message at a time is appended. *)
LEMMA OneMore ==
  ASSUME NEW s \in Seq(Message), NEW m \in Message
  PROVE  s \o <<m>> = Append(s, m)
BY AppendIsConcat

(* Messages of the host and its clients are messages. *)
LEMMA MsgType ==
  ASSUME NEW kind \in {"KEY", "ACK", "CLOSE", "OPEN", "SUB", "UNSUB", "RESET", "HOLD"},
         NEW n \in Nat
  PROVE  Msg(kind, n) \in Message /\ Msg(kind, n).msg = kind /\ Msg(kind, n).n = n
BY DEF Msg, Message

\* r is q with keys behind it.
KeysFollow(q, r) ==
  /\ r \in Seq(Message) /\ Len(q) <= Len(r)
  /\ \A i \in 1 .. Len(q) : r[i] = q[i]
  /\ \A i \in (Len(q) + 1) .. Len(r) : r[i].msg = "KEY"

(* Keys written behind what is on its way. *)
LEMMA KeysBehind ==
  ASSUME NEW q \in Seq(Message), NEW t \in Seq(Message),
         \A i \in 1 .. Len(t) : t[i].msg = "KEY"
  PROVE  KeysFollow(q, q \o t)
<1> PICK r : r = q \o t
  OBVIOUS
<1>1. r \in Seq(Message)
  OBVIOUS
<1>2. Len(r) = Len(q) + Len(t) /\ Len(q) \in Nat /\ Len(t) \in Nat
  BY ConcatProperties, LenProperties
<1>3. \A i \in 1 .. Len(r) : r[i] = IF i <= Len(q) THEN q[i] ELSE t[i - Len(q)]
  BY ConcatProperties
<1>4. KeysFollow(q, r)
  BY <1>1, <1>2, <1>3 DEF KeysFollow
<1> QED
  BY <1>4

(* What the barrier held is a run of keys. *)
LEMMA HeldKeys ==
  ASSUME NEW s \in Seq(Nat)
  PROVE  /\ Keys(s) \in Seq(Message) /\ Len(Keys(s)) = Len(s)
         /\ \A i \in 1 .. Len(s) : Keys(s)[i] = Msg("KEY", s[i])
<1>1. Len(s) \in Nat /\ \A i \in 1 .. Len(s) : s[i] \in Nat
  BY LenProperties, ElementOfSeq
<1>2. \A i \in 1 .. Len(s) : Msg("KEY", s[i]) \in Message
  BY <1>1, MsgType
<1>3. Keys(s) \in Seq(Message)
  BY <1>1, <1>2, IsASeq DEF Keys
<1>4. Len(Keys(s)) = Len(s)
  BY <1>1, <1>3, LenProperties DEF Keys
<1> QED
  BY <1>1, <1>3, <1>4 DEF Keys

(* A release, or a key behind its backlog, writes only keys. *)
LEMMA ReleaseWrites ==
  ASSUME NEW q \in Seq(Message), NEW h \in Hosts, NEW key \in Nat
  PROVE  /\ KeysFollow(q, q \o Keys(h.held))
         /\ KeysFollow(q, q \o AfterBacklog(h, key))
         /\ KeysFollow(q, Append(q, Msg("KEY", key)))
<1>1. h.held \in Seq(Nat)
  BY DEF Hosts
<1>2. /\ Keys(h.held) \in Seq(Message) /\ Len(Keys(h.held)) \in Nat
      /\ \A i \in 1 .. Len(Keys(h.held)) : Keys(h.held)[i].msg = "KEY"
  <2>1. Keys(h.held) \in Seq(Message) /\ Len(Keys(h.held)) = Len(h.held)
        /\ \A i \in 1 .. Len(h.held) : Keys(h.held)[i] = Msg("KEY", h.held[i])
    BY <1>1, HeldKeys
  <2>2. Len(h.held) \in Nat /\ \A i \in 1 .. Len(h.held) : h.held[i] \in Nat
    BY <1>1, LenProperties, ElementOfSeq
  <2>3. \A i \in 1 .. Len(h.held) : Msg("KEY", h.held[i]).msg = "KEY"
    BY <2>2, MsgType
  <2> QED
    BY <2>1, <2>2, <2>3
<1>3. Msg("KEY", key) \in Message /\ Msg("KEY", key).msg = "KEY"
  BY MsgType
<1> PICK m : m = Msg("KEY", key)
  OBVIOUS
<1> PICK K : K = Keys(h.held)
  OBVIOUS
<1>4. AfterBacklog(h, key) = Append(K, m)
  BY <1>2, <1>3, OneMore DEF AfterBacklog
<1>5. Append(K, m) \in Seq(Message) /\ \A i \in 1 .. Len(Append(K, m)) : Append(K, m)[i].msg = "KEY"
  BY <1>2, <1>3
<1>6. KeysFollow(q, q \o K)
  BY <1>2, KeysBehind
<1>7. KeysFollow(q, q \o AfterBacklog(h, key))
  BY <1>4, <1>5, KeysBehind
<1>8. KeysFollow(q, Append(q, m))
  BY <1>3, AppendProperties, LenProperties DEF KeysFollow
<1> QED
  BY <1>6, <1>7, <1>8

-----------------------------------------------------------------------------
(* What the actions do to the parts of the state.                           *)

(* A message a client or the shell sends is appended to its output. *)
LEMMA EmitOne ==
  ASSUME TypeInv, NEW m \in Message, Emit(<<m>>)
  PROVE  output' = Append(output, m)
BY OneMore DEF TypeInv, Emit

LEMMA EmitNothing ==
  ASSUME TypeInv, Emit(<<>>)
  PROVE  output' = output
BY ConcatEmptySeq DEF TypeInv, Emit

\* A look at the barrier, a key or the timer: what is written to the pane are keys,
\* and only when the barrier is not armed, its deadline has passed or its client is gone.
KeyStep ==
  /\ host' \in Hosts /\ input' \in Seq(Message)
  /\ UNCHANGED <<client, output, taken, killed, resets>>
  /\ host'.left = host.left /\ host'.open = host.open
  /\ host'.client_present = host.client_present /\ ~host'.feeding
  /\ host'.armed => host.armed /\ host'.timer = host.timer
  /\ host.feeding /\ host'.armed => ~ClientGone(host)
  /\ \/ input' = input /\ host'.armed = host.armed
     \/ KeysFollow(input, input') /\ (host.armed => host.left = 0 \/ ClientGone(host))

(* Take keeps what it does not hand back. *)
LEMMA TakeFields ==
  ASSUME NEW h \in Hosts
  PROVE  /\ Take(h) \in Hosts /\ ~Take(h).armed /\ Take(h).left = h.left
         /\ Take(h).open = h.open /\ Take(h).client_present = h.client_present
         /\ Take(h).feeding = h.feeding
<1>1. <<>> \in Seq(Nat) /\ Stopped \in Nat
  BY BarrierAssumption DEF Stopped
<1> QED
  BY <1>1 DEF Take, Hosts

LEMMA TypeIsKeyStep ==
  ASSUME TypeInv, Type
  PROVE  KeyStep /\ typed' \in Nat
<1>1. /\ typed' = typed + 1 /\ typed \in Nat /\ host \in Hosts /\ input \in Seq(Message)
      /\ UNCHANGED <<client, output, taken, killed, resets>> /\ ~host.feeding
  BY DEF Type, TypeInv
<1>2. CASE Holds(host) /\ host' = [host EXCEPT !.held = Append(@, typed + 1)] /\ UNCHANGED input
  <2>1. Append(host.held, typed + 1) \in Seq(Nat)
    BY <1>1 DEF Hosts
  <2>2. host' \in Hosts
    BY <1>1, <1>2, <2>1 DEF Hosts
  <2>3. /\ host'.left = host.left /\ host'.open = host.open /\ host'.feeding = host.feeding
        /\ host'.client_present = host.client_present /\ host'.armed = host.armed
        /\ host'.timer = host.timer
    BY <1>1, <1>2 DEF Hosts
  <2> QED
    BY <1>1, <1>2, <2>2, <2>3 DEF KeyStep
<1>3. CASE ~Holds(host) /\ host' = Take(host) /\ input' = input \o AfterBacklog(host, typed + 1)
  <2>1. KeysFollow(input, input')
    BY <1>1, <1>3, ReleaseWrites
  <2> QED
    BY <1>1, <1>3, <2>1, TakeFields DEF KeyStep, Holds, DeadlinePassed, KeysFollow
<1>4. CASE ~Holds(host) /\ input' = Append(input, Msg("KEY", typed + 1)) /\ UNCHANGED host
  <2>1. KeysFollow(input, input')
    BY <1>1, <1>4, ReleaseWrites
  <2> QED
    BY <1>1, <1>4, <2>1 DEF KeyStep, Holds, DeadlinePassed, KeysFollow
<1> QED
  BY <1>1, <1>2, <1>3, <1>4 DEF Type

LEMMA FeedEndIsKeyStep ==
  ASSUME TypeInv, FeedEnd
  PROVE  KeyStep /\ UNCHANGED typed
<1>1. /\ UNCHANGED <<client, output, typed, taken, killed, resets>>
      /\ host \in Hosts /\ input \in Seq(Message) /\ host.feeding
  BY DEF FeedEnd, TypeInv
<1>2. CASE /\ ReleaseDue(host) /\ host' = [Take(host) EXCEPT !.feeding = FALSE]
           /\ input' = input \o Keys(host.held)
  <2>1. KeysFollow(input, input')
    BY <1>1, <1>2, ReleaseWrites
  <2> QED
    BY ZenonT(40), <1>1, <1>2, <2>1, TakeFields
    DEF KeyStep, ReleaseDue, DeadlinePassed, KeysFollow, Hosts
<1>3. CASE /\ ~ReleaseDue(host) /\ host' = [host EXCEPT !.feeding = FALSE] /\ UNCHANGED input
  BY <1>1, <1>3 DEF KeyStep, ReleaseDue, Hosts
<1> QED
  BY <1>1, <1>2, <1>3 DEF FeedEnd

LEMMA ExpireIsKeyStep ==
  ASSUME TypeInv, TimerInv, Expire
  PROVE  KeyStep /\ UNCHANGED typed
<1>1. /\ UNCHANGED <<client, output, typed, taken, killed, resets>>
      /\ host \in Hosts /\ input \in Seq(Message) /\ ~host.feeding /\ host.timer = 0
      /\ Stopped \in Nat
  BY SMTT(40), BarrierAssumption DEF Expire, TypeInv, Stopped
<1>2. CASE /\ host.armed /\ host' = [Take(host) EXCEPT !.timer = Stopped]
           /\ input' = input \o Keys(host.held)
  <2>1. KeysFollow(input, input')
    BY <1>1, <1>2, ReleaseWrites
  <2>2. host.left = 0 /\ host' = [Take(host) EXCEPT !.timer = Stopped]
    BY <1>1, <1>2 DEF TimerInv
  <2>3. /\ host' \in Hosts /\ ~host'.armed /\ host'.left = host.left
        /\ host'.open = host.open /\ host'.client_present = host.client_present
        /\ ~host'.feeding
    BY ZenonT(40), <1>1, <2>2, TakeFields DEF Hosts
  <2> QED
    BY <1>1, <2>1, <2>2, <2>3 DEF KeyStep, KeysFollow
<1>3. CASE /\ ~host.armed /\ host' = [host EXCEPT !.timer = Stopped] /\ UNCHANGED input
  BY <1>1, <1>3 DEF KeyStep, Hosts
<1> QED
  BY <1>1, <1>2, <1>3 DEF Expire

\* The host has taken the first message of its input, and armed itself for the rest
\* of the chunk; it may have answered with a message.
Fed(kind) ==
  /\ Len(output) \in Nat \ {0} /\ output[1] \in Message /\ output[1].msg = kind
  /\ output' = Tail(output) /\ output' \in Seq(Message) /\ Len(output') = Len(output) - 1
  /\ \A i \in 1 .. Len(output') : output'[i] = output[i + 1]
  /\ host' \in Hosts /\ host'.feeding
  /\ UNCHANGED <<client, typed, taken, killed, resets>>

\* The barrier is as it was.
SameBarrier ==
  host'.armed = host.armed /\ host'.left = host.left /\ host'.timer = host.timer

LEMMA FirstIsMessage ==
  ASSUME TypeInv, NEW kind, Feed(kind)
  PROVE  Head(output).n \in Nat
<1>1. output \in Seq(Message) /\ output # <<>>
  BY DEF TypeInv, Feed
<1>2. Head(output) \in Message
  BY <1>1
<1> QED
  BY <1>2 DEF Message

LEMMA FeedFacts ==
  ASSUME TypeInv, NEW kind, Feed(kind), host' \in Hosts, host'.feeding
  PROVE  Fed(kind) /\ Head(output) = output[1] /\ output[1].n \in Nat
<1>1. output \in Seq(Message) /\ output # <<>> /\ Head(output).msg = kind /\ output' = Tail(output)
      /\ UNCHANGED <<client, typed, taken, killed, resets>>
  BY DEF Feed, TypeInv
<1>2. Len(output) \in Nat \ {0} /\ Head(output) = output[1] /\ output[1] \in Message
      /\ Tail(output) \in Seq(Message) /\ Len(Tail(output)) = Len(output) - 1
      /\ \A i \in 1 .. Len(Tail(output)) : Tail(output)[i] = output[i + 1]
  BY <1>1
<1> QED
  BY <1>1, <1>2 DEF Fed, Message

LEMMA FeedOpenFacts ==
  ASSUME TypeInv, FeedOpen
  PROVE  /\ Fed("OPEN") /\ SameBarrier /\ host'.client_present = host.client_present
         /\ host'.open = host.open \cup {output[1].n} /\ output[1].n \in Nat
         /\ \/ output[1].n \in host.open
               /\ input' = Append(input, Msg("CLOSE", output[1].n))
            \/ output[1].n \notin host.open /\ input' = input
<1>1. host \in Hosts /\ Feed("OPEN")
  BY DEF TypeInv, FeedOpen
<1>2. Head(output).n \in Nat
  BY <1>1, FirstIsMessage
<1>3. host' \in Hosts /\ host'.feeding /\ SameBarrier
      /\ host'.client_present = host.client_present
      /\ host'.open = host.open \cup {Head(output).n}
  BY ZenonT(40), <1>1, <1>2 DEF FeedOpen, Hosts, SameBarrier
<1>4. Fed("OPEN") /\ Head(output) = output[1] /\ output[1].n \in Nat
  BY <1>1, <1>3, FeedFacts
<1> QED
  BY <1>3, <1>4 DEF FeedOpen

LEMMA FeedCloseFacts ==
  ASSUME TypeInv, FeedClose
  PROVE  /\ Fed("CLOSE") /\ SameBarrier /\ host'.client_present = host.client_present
         /\ host'.open = host.open \ {output[1].n} /\ output[1].n \in Nat
         /\ \/ output[1].n \in host.open
               /\ input' = Append(input, Msg("CLOSE", output[1].n))
            \/ output[1].n \notin host.open /\ input' = input
<1>1. host \in Hosts /\ Feed("CLOSE")
  BY DEF TypeInv, FeedClose
<1>2. Head(output).n \in Nat
  BY <1>1, FirstIsMessage
<1>3. host' \in Hosts /\ host'.feeding /\ SameBarrier
      /\ host'.client_present = host.client_present
      /\ host'.open = host.open \ {Head(output).n}
  BY <1>1, <1>2 DEF FeedClose, Hosts, SameBarrier
<1>4. Fed("CLOSE") /\ Head(output) = output[1] /\ output[1].n \in Nat
  BY <1>1, <1>3, FeedFacts
<1> QED
  BY <1>3, <1>4 DEF FeedClose

LEMMA FeedSubFacts ==
  ASSUME TypeInv, FeedSub
  PROVE  /\ SameBarrier /\ host'.open = host.open /\ input' = input
         /\ \/ Fed("SUB") /\ host'.client_present
            \/ (Fed("UNSUB") \/ Fed("RESET")) /\ ~host'.client_present
<1>1. host \in Hosts /\ input' = input
  BY DEF TypeInv, FeedSub
<1>2. host' \in Hosts /\ host'.feeding /\ SameBarrier /\ host'.open = host.open
      /\ \/ Feed("SUB") /\ host'.client_present
         \/ (Feed("UNSUB") \/ Feed("RESET")) /\ ~host'.client_present
  BY <1>1 DEF FeedSub, Hosts, SameBarrier
<1> QED
  BY <1>1, <1>2, FeedFacts

LEMMA FeedHoldFacts ==
  ASSUME TypeInv, FeedHold
  PROVE  /\ Fed("HOLD") /\ output[1].n \in Nat
         /\ host'.open = host.open /\ host'.client_present = host.client_present
         /\ host'.armed /\ host'.left = DEADLINE /\ host'.timer = DEADLINE
         /\ input' = Append(input, Msg("ACK", output[1].n))
<1>1. host \in Hosts /\ Feed("HOLD")
  BY DEF TypeInv, FeedHold
<1>2. host' = [Arm(host) EXCEPT !.feeding = TRUE] /\ DEADLINE \in Nat
  BY BarrierAssumption DEF FeedHold
<1> PICK g : g = Arm(host)
  OBVIOUS
<1>6. DEADLINE \in Nat /\ DEADLINE \in 0 .. DEADLINE
  BY <1>2
<1>5. /\ g \in Hosts /\ g.open = host.open /\ g.client_present = host.client_present
      /\ g.armed /\ g.left = DEADLINE /\ g.timer = DEADLINE
  BY <1>1, <1>6 DEF Arm, Hosts
<1>3. host' \in Hosts /\ host'.feeding
      /\ host'.open = host.open /\ host'.client_present = host.client_present
      /\ host'.armed /\ host'.left = DEADLINE /\ host'.timer = DEADLINE
  BY <1>2, <1>5 DEF Hosts
<1>4. Fed("HOLD") /\ Head(output) = output[1] /\ output[1].n \in Nat
  BY <1>1, <1>3, FeedFacts
<1> QED
  BY <1>3, <1>4 DEF FeedHold

\* A reader of the pane has taken the first message of the input.
Took(kind) ==
  /\ Len(input) \in Nat \ {0} /\ input[1] \in Message /\ input[1].msg = kind
  /\ input' = Tail(input) /\ input' \in Seq(Message) /\ Len(input') = Len(input) - 1
  /\ \A i \in 1 .. Len(input') : input'[i] = input[i + 1]
  /\ UNCHANGED <<host, typed, killed, resets>>

LEMMA TookFacts ==
  ASSUME TypeInv, NEW kind, Take1(kind)
  PROVE  Took(kind) /\ Head(input) = input[1] /\ input[1].n \in Nat
<1>1. input \in Seq(Message) /\ input # <<>> /\ Head(input).msg = kind /\ input' = Tail(input)
      /\ UNCHANGED <<host, typed, killed, resets>>
  BY DEF Take1, TypeInv
<1>2. Len(input) \in Nat \ {0} /\ Head(input) = input[1] /\ input[1] \in Message
      /\ Tail(input) \in Seq(Message) /\ Len(Tail(input)) = Len(input) - 1
      /\ \A i \in 1 .. Len(Tail(input)) : Tail(input)[i] = input[i + 1]
  BY <1>1
<1> QED
  BY <1>1, <1>2 DEF Took, Message

LEMMA TakeKeyFacts ==
  ASSUME TypeInv, NEW who \in Readers, TakeKey(who)
  PROVE  /\ Took("KEY") /\ UNCHANGED <<client, output>>
         /\ taken' = Append(taken, [key |-> input[1].n, by |-> who])
         /\ taken' \in Seq([key : Nat, by : Readers])
<1>1. Took("KEY") /\ Head(input) = input[1] /\ input[1].n \in Nat
  BY TookFacts DEF TakeKey
<1>2. [key |-> input[1].n, by |-> who] \in [key : Nat, by : Readers]
  BY <1>1
<1> QED
  BY <1>1, <1>2 DEF TakeKey, TypeInv

LEMMA TakeAckFacts ==
  ASSUME TypeInv, TakeAck
  PROVE  /\ Took("ACK") /\ UNCHANGED <<output, taken>> /\ client' \in Clients
         /\ client'.ack_seen /\ client'.ack_age = 0
         /\ client'.misled = (client.misled \/ input[1].n # client.n)
         /\ client'.phase = client.phase /\ client'.kind = client.kind /\ client'.n = client.n
         /\ client'.open = client.open /\ client'.pending = client.pending
         /\ client'.left = client.left
<1>1. Took("ACK") /\ Head(input) = input[1]
  BY TookFacts DEF TakeAck
<1> PICK b \in BOOLEAN : b = (client.misled \/ input[1].n # client.n)
  OBVIOUS
<1>2. client \in Clients
      /\ client' = [client EXCEPT !.ack_seen = TRUE, !.ack_age = 0, !.misled = b]
  BY <1>1 DEF TakeAck, TypeInv
<1>3. /\ client' \in Clients /\ client'.ack_seen /\ client'.ack_age = 0 /\ client'.misled = b
      /\ client'.phase = client.phase /\ client'.kind = client.kind /\ client'.n = client.n
      /\ client'.open = client.open /\ client'.pending = client.pending
      /\ client'.left = client.left
  BY <1>2 DEF Clients
<1> QED
  BY <1>1, <1>3 DEF TakeAck

\* What a step of a client leaves of it: all but its channels.
SameButChannels ==
  /\ client' \in Clients
  /\ client'.phase = client.phase /\ client'.kind = client.kind /\ client'.n = client.n
  /\ client'.ack_seen = client.ack_seen /\ client'.ack_age = client.ack_age
  /\ client'.left = client.left /\ client'.misled = client.misled

LEMMA TakeCloseFacts ==
  ASSUME TypeInv, TakeClose
  PROVE  /\ Took("CLOSE") /\ UNCHANGED taken /\ input[1].n \in Nat /\ SameButChannels
         /\ \/ /\ client'.pending = client.pending \ {input[1].n}
               /\ client'.open = client.open /\ output' = output
            \/ /\ input[1].n \in client.open
               /\ client'.open = client.open \ {input[1].n}
               /\ client'.pending = client.pending
               /\ output' = Append(output, Msg("CLOSE", input[1].n))
            \/ /\ input[1].n \notin client.pending
               /\ UNCHANGED <<client, output>>
<1>1. Took("CLOSE") /\ Head(input) = input[1] /\ input[1].n \in Nat /\ client \in Clients
  BY TookFacts DEF TakeClose, TypeInv
<1> PICK id : id = input[1].n
  OBVIOUS
<1>2. CASE client' = [client EXCEPT !.pending = @ \ {id}] /\ UNCHANGED output
  BY <1>1, <1>2 DEF TakeClose, Clients, SameButChannels
<1>3. CASE id \in client.open /\ client' = [client EXCEPT !.open = @ \ {id}]
           /\ Emit(<<Msg("CLOSE", id)>>)
  <2>1. output' = Append(output, Msg("CLOSE", id))
    BY <1>1, <1>3, MsgType, EmitOne
  <2>2. SameButChannels /\ client'.open = client.open \ {id} /\ client'.pending = client.pending
    BY <1>1, <1>3 DEF Clients, SameButChannels
  <2> QED
    BY <1>1, <1>3, <2>1, <2>2 DEF TakeClose
<1>4. CASE id \notin client.pending /\ UNCHANGED <<client, output>>
  BY <1>1, <1>4 DEF TakeClose, Clients, SameButChannels
<1> QED
  BY <1>1, <1>2, <1>3, <1>4 DEF TakeClose

\* Nothing but the client and its output.
ClientOnly == UNCHANGED <<host, input, typed, taken, resets>>

LEMMA StartFacts ==
  ASSUME TypeInv, NEW kind \in Kinds, Start(kind)
  PROVE  /\ ClientOnly /\ killed' = killed /\ client.phase = "none" /\ client' \in Clients
         /\ client'.phase = "running" /\ client'.kind = kind /\ client'.n = client.n + 1
         /\ client'.open = {} /\ client'.pending = {} /\ ~client'.ack_seen
         /\ \/ kind # "dcs" /\ output' = output
            \/ kind = "dcs" /\ output' = Append(output, Msg("SUB", 0))
<1>1. client \in Clients /\ client.n \in Nat /\ kind \in {"rpc", "dcs"}
  BY BarrierAssumption DEF TypeInv, Clients
<1> PICK n \in Nat : n = client.n + 1
  BY <1>1
<1>2. client' = [NoClient EXCEPT !.phase = "running", !.kind = kind, !.n = n]
  BY DEF Start
<1>3. NoClient \in Clients /\ NoClient.open = {} /\ NoClient.pending = {} /\ ~NoClient.ack_seen
  BY DEF NoClient, Clients
<1>4. /\ client' \in Clients
      /\ client'.phase = "running" /\ client'.kind = kind /\ client'.n = n
      /\ client'.open = {} /\ client'.pending = {} /\ ~client'.ack_seen
  BY <1>1, <1>2, <1>3 DEF Clients
<1>5. CASE kind = "dcs"
  <2>1. Emit(<<Msg("SUB", 0)>>)
    BY <1>5 DEF Start
  <2>2. output' = Append(output, Msg("SUB", 0))
    BY <2>1, EmitOne, MsgType
  <2> QED
    BY <1>4, <1>5, <2>2 DEF Start, ClientOnly, Alive
<1>6. CASE kind # "dcs"
  <2>1. Emit(<<>>)
    BY <1>6 DEF Start
  <2>2. output' = output
    BY <2>1, EmitNothing
  <2> QED
    BY <1>4, <1>6, <2>2 DEF Start, ClientOnly, Alive
<1> QED
  BY <1>5, <1>6

LEMMA OpenChannelFacts ==
  ASSUME TypeInv, OpenChannel
  PROVE  /\ ClientOnly /\ killed' = killed /\ SameButChannels
         /\ client.phase = "running" /\ client.kind = "rpc"
         /\ client'.pending = client.pending
         /\ \E id \in Nat : /\ client'.open = client.open \cup {id}
                            /\ output' = Append(output, Msg("OPEN", id))
<1>1. client \in Clients
  BY DEF TypeInv
<1>2. PICK id \in Nat : id = client.opened + 1
  BY <1>1 DEF Clients
<1>3. client' = [client EXCEPT !.opened = id, !.open = @ \cup {id}] /\ Emit(<<Msg("OPEN", id)>>)
  BY <1>2 DEF OpenChannel
<1>4. output' = Append(output, Msg("OPEN", id))
  BY <1>3, EmitOne, MsgType
<1>5. SameButChannels /\ client'.pending = client.pending /\ client'.open = client.open \cup {id}
  BY <1>1, <1>3 DEF Clients, SameButChannels
<1> QED
  BY <1>4, <1>5 DEF OpenChannel, ClientOnly

LEMMA SendHoldFacts ==
  ASSUME TypeInv, SendHold
  PROVE  /\ ClientOnly /\ killed' = killed /\ client' \in Clients
         /\ client.phase = "running" /\ client'.phase = "wait" /\ client'.left = ACK_WAIT
         /\ client'.ack_seen => client.ack_seen /\ client.kind = "rpc"
         /\ client'.kind = client.kind /\ client'.n = client.n /\ client'.misled = client.misled
         /\ client'.open = client.open /\ client'.pending = client.pending
         /\ output' = Append(output, Msg("HOLD", client.n)) /\ client.n \in Nat
<1>1. client \in Clients /\ client.n \in Nat /\ ACK_WAIT \in Nat
  BY BarrierAssumption DEF TypeInv, Clients
<1> PICK b \in BOOLEAN : b = (client.ack_seen /\ client.kind = "rpc")
  OBVIOUS
<1>2. client' = [client EXCEPT !.phase = "wait", !.left = ACK_WAIT, !.ack_seen = b]
      /\ Emit(<<Msg("HOLD", client.n)>>)
  BY DEF SendHold
<1>3. output' = Append(output, Msg("HOLD", client.n))
  BY <1>1, <1>2, EmitOne, MsgType
<1>4. /\ client' \in Clients /\ client'.phase = "wait" /\ client'.left = ACK_WAIT
      /\ client'.ack_seen = b
      /\ client'.kind = client.kind /\ client'.n = client.n /\ client'.misled = client.misled
      /\ client'.open = client.open /\ client'.pending = client.pending
  BY <1>1, <1>2 DEF Clients
<1> QED
  BY <1>1, <1>3, <1>4 DEF SendHold, ClientOnly

\* The program has ended.
Left ==
  /\ client' \in Clients /\ client'.phase = "none" /\ client'.n = client.n
  /\ client'.open = {} /\ client'.pending = {} /\ ~client'.ack_seen /\ client'.kind = "rpc"

LEMMA LeaveFacts ==
  ASSUME TypeInv, Leave
  PROVE  Left
<1>1. client \in Clients /\ client.n \in Nat
  BY DEF TypeInv, Clients
<1>2. client' = [NoClient EXCEPT !.n = client.n]
  BY DEF Leave
<1> QED
  BY <1>1, <1>2 DEF NoClient, Clients, Left

\* The client has gone on to its next phase.
SameButPhase(phase) ==
  /\ client' \in Clients /\ client'.phase = phase
  /\ client'.kind = client.kind /\ client'.n = client.n
  /\ client'.open = client.open /\ client'.pending = client.pending
  /\ client'.ack_seen = client.ack_seen /\ client'.ack_age = client.ack_age
  /\ client'.misled = client.misled

LEMMA EndAckWaitFacts ==
  ASSUME TypeInv, EndAckWait
  PROVE  /\ ClientOnly /\ killed' = killed /\ client.phase = "wait"
         /\ \/ client.kind = "dcs" /\ Left /\ output' = Append(output, Msg("UNSUB", 0))
            \/ /\ client.kind = "rpc" /\ SameButPhase("teardown") /\ output' = output
               /\ client'.left = client.left
<1>1. client \in Clients /\ ClientOnly /\ killed' = killed /\ client.phase = "wait"
  BY DEF TypeInv, EndAckWait, ClientOnly
<1>2. CASE client.kind = "dcs" /\ Leave /\ Emit(<<Msg("UNSUB", 0)>>)
  BY <1>1, <1>2, EmitOne, MsgType, LeaveFacts
<1>3. CASE /\ client.kind = "rpc" /\ client' = [client EXCEPT !.phase = "teardown"]
           /\ UNCHANGED output
  BY <1>1, <1>3 DEF Clients, SameButPhase
<1> QED
  BY <1>2, <1>3 DEF EndAckWait

LEMMA CloseChannelFacts ==
  ASSUME TypeInv, NEW id \in Channel, CloseChannel(id)
  PROVE  /\ ClientOnly /\ killed' = killed /\ SameButChannels /\ id \in Nat
         /\ client.phase = "teardown" /\ id \in client.open
         /\ client'.open = client.open \ {id} /\ client'.pending = client.pending \cup {id}
         /\ output' = Append(output, Msg("CLOSE", id))
<1>1. client \in Clients /\ id \in Nat
  BY BarrierAssumption DEF TypeInv, Channel
<1>2. client' = [client EXCEPT !.open = @ \ {id}, !.pending = @ \cup {id}]
      /\ Emit(<<Msg("CLOSE", id)>>)
  BY DEF CloseChannel
<1>3. output' = Append(output, Msg("CLOSE", id))
  BY <1>1, <1>2, EmitOne, MsgType
<1>4. SameButChannels /\ client'.open = client.open \ {id}
      /\ client'.pending = client.pending \cup {id}
  BY <1>1, <1>2 DEF Clients, SameButChannels
<1> QED
  BY <1>1, <1>3, <1>4 DEF CloseChannel, ClientOnly

LEMMA EndTeardownFacts ==
  ASSUME TypeInv, EndTeardown
  PROVE  /\ ClientOnly /\ killed' = killed /\ output' = output
         /\ client.phase = "teardown" /\ client.open = {}
         /\ \/ /\ client.ack_seen /\ client.ack_age <= LEASE
               /\ SameButPhase("drain") /\ client'.left = DRAIN_WAIT
            \/ Left
<1>1. client \in Clients /\ ClientOnly /\ killed' = killed /\ output' = output
      /\ client.phase = "teardown" /\ client.open = {} /\ DRAIN_WAIT \in Nat
  BY BarrierAssumption DEF TypeInv, EndTeardown, ClientOnly
<1>2. CASE DrainAllowed /\ client' = [client EXCEPT !.phase = "drain", !.left = DRAIN_WAIT]
  <2>1. client.ack_seen /\ client.ack_age <= LEASE
    BY <1>2 DEF DrainAllowed, LeaseValid
  <2>2. SameButPhase("drain") /\ client'.left = DRAIN_WAIT
    BY <1>1, <1>2 DEF Clients, SameButPhase
  <2> QED
    BY <1>1, <2>1, <2>2
<1>3. CASE Leave
  BY <1>1, <1>3, LeaveFacts
<1> QED
  BY <1>2, <1>3 DEF EndTeardown

\* Time has passed, on the host and for the client.
LEMMA TickFacts ==
  ASSUME TypeInv, Tick
  PROVE  /\ UNCHANGED <<output, input, typed, taken, killed, resets>>
         /\ host' \in Hosts /\ ~host.feeding /\ host'.feeding = host.feeding
         /\ host'.armed = host.armed /\ host'.open = host.open
         /\ host'.client_present = host.client_present
         /\ host'.left = Down(host.left)
         /\ host'.timer = Down(host.timer) \/ (host.timer = Stopped /\ host'.timer = Stopped)
         /\ client' \in Clients /\ client'.phase = client.phase /\ client'.kind = client.kind
         /\ client'.n = client.n /\ client'.open = client.open
         /\ client'.pending = client.pending /\ client'.ack_seen = client.ack_seen
         /\ client'.misled = client.misled /\ client'.left = Down(client.left)
         /\ client.ack_seen =>
              \/ client'.ack_age = client.ack_age + 1
              \/ client.ack_age > LEASE /\ client'.ack_age = client.ack_age
<1>1. host \in Hosts /\ client \in Clients /\ LEASE \in Nat /\ Stopped \in Nat
  BY BarrierAssumption DEF TypeInv, Stopped
<1>0. Down(host.left) \in 0 .. DEADLINE /\ Down(host.timer) \in Nat /\ host.timer \in Nat
  <2>1. host.left \in 0 .. DEADLINE /\ host.timer \in Nat /\ DEADLINE \in Nat
    BY <1>1, BarrierAssumption DEF Hosts
  <2> QED
    BY <2>1 DEF Down
<1>2. PICK l \in 0 .. DEADLINE, t \in Nat :
        /\ l = Down(host.left)
        /\ t = IF host.timer = Stopped THEN host.timer ELSE Down(host.timer)
  BY <1>0
<1>3. PICK cl \in Nat, a \in Nat :
        /\ cl = Down(client.left)
        /\ a = IF client.ack_seen /\ client.ack_age <= LEASE THEN client.ack_age + 1
               ELSE client.ack_age
  BY <1>1 DEF Down, Clients
<1>4. host' = [host EXCEPT !.left = l, !.timer = t]
      /\ client' = [client EXCEPT !.left = cl, !.ack_age = a]
      /\ ~host.feeding /\ UNCHANGED <<output, input, typed, taken, killed, resets>>
  BY <1>2, <1>3 DEF Tick
<1>5. /\ host' \in Hosts /\ host'.feeding = host.feeding
      /\ host'.armed = host.armed /\ host'.open = host.open
      /\ host'.client_present = host.client_present /\ host'.left = l /\ host'.timer = t
  BY <1>1, <1>4 DEF Hosts
<1>6. /\ client' \in Clients /\ client'.phase = client.phase /\ client'.kind = client.kind
      /\ client'.n = client.n /\ client'.open = client.open
      /\ client'.pending = client.pending /\ client'.ack_seen = client.ack_seen
      /\ client'.misled = client.misled /\ client'.left = cl /\ client'.ack_age = a
  BY <1>1, <1>4 DEF Clients
<1>7. host'.timer = Down(host.timer) \/ (host.timer = Stopped /\ host'.timer = Stopped)
  BY Zenon, <1>2, <1>5
<1>8. client.ack_seen => \/ client'.ack_age = client.ack_age + 1
                         \/ client.ack_age > LEASE /\ client'.ack_age = client.ack_age
  BY <1>1, <1>3, <1>6 DEF Clients
<1> QED
  BY <1>2, <1>3, <1>4, <1>5, <1>6, <1>7, <1>8

-----------------------------------------------------------------------------
(* What is on its way to the host decides what it will have open.           *)

\* The host that had the channels in O has those in P when it has read m.
OpenedBy(m, O, P) ==
  \/ m.msg = "OPEN" /\ P = O \cup {m.n}
  \/ m.msg = "CLOSE" /\ P = O \ {m.n}
  \/ m.msg \notin {"OPEN", "CLOSE"} /\ P = O

(* Reading the first message changes the host, and not what it will have open. *)
LEMMA OpenWhenRead ==
  ASSUME NEW s \in Seq(Message), NEW t \in Seq(Message), s # <<>>, t = Tail(s),
         NEW O \in SUBSET Nat, NEW P \in SUBSET Nat, NEW id \in Nat,
         OpenedBy(s[1], O, P)
  PROVE  WillBeOpen(P, t, id) <=> WillBeOpen(O, s, id)
<1>1. Len(s) \in Nat \ {0} /\ Len(t) = Len(s) - 1 /\ \A i \in 1 .. Len(t) : t[i] = s[i + 1]
  OBVIOUS
<1>2. \A i \in 0 .. Len(t) : NoneLater(t, i, "CLOSE", id) <=> NoneLater(s, i + 1, "CLOSE", id)
  <2> TAKE i \in 0 .. Len(t)
  <2>1. ASSUME NoneLater(t, i, "CLOSE", id), NEW j \in (i + 2) .. Len(s)
        PROVE  ~(s[j].msg = "CLOSE" /\ s[j].n = id)
    <3>1. j - 1 \in (i + 1) .. Len(t) /\ t[j - 1] = s[j]
      BY <1>1
    <3> QED
      BY <2>1, <3>1 DEF NoneLater
  <2>2. ASSUME NoneLater(s, i + 1, "CLOSE", id), NEW j \in (i + 1) .. Len(t)
        PROVE  ~(t[j].msg = "CLOSE" /\ t[j].n = id)
    <3>1. j + 1 \in (i + 2) .. Len(s) /\ t[j] = s[j + 1]
      BY <1>1
    <3> QED
      BY <2>2, <3>1 DEF NoneLater
  <2> QED
    BY <1>1, <2>1, <2>2 DEF NoneLater
<1>3. NoneLater(s, 0, "CLOSE", id)
        <=> NoneLater(s, 1, "CLOSE", id) /\ ~(s[1].msg = "CLOSE" /\ s[1].n = id)
  BY <1>1 DEF NoneLater
<1>4. ASSUME WillBeOpen(P, t, id)
      PROVE  WillBeOpen(O, s, id)
  <2>1. CASE id \in P /\ NoneLater(t, 0, "CLOSE", id)
    BY <1>1, <1>2, <1>3, <2>1 DEF WillBeOpen, OpenedBy
  <2>2. CASE \E i \in 1 .. Len(t) : /\ t[i].msg = "OPEN" /\ t[i].n = id
                                    /\ NoneLater(t, i, "CLOSE", id)
    <3>1. PICK i \in 1 .. Len(t) : /\ t[i].msg = "OPEN" /\ t[i].n = id
                                   /\ NoneLater(t, i, "CLOSE", id)
      BY <2>2
    <3>2. i + 1 \in 1 .. Len(s) /\ s[i + 1] = t[i] /\ NoneLater(s, i + 1, "CLOSE", id)
      BY <1>1, <1>2, <3>1
    <3> QED
      BY <3>1, <3>2 DEF WillBeOpen
  <2> QED
    BY <1>4, <2>1, <2>2 DEF WillBeOpen
<1>5. ASSUME WillBeOpen(O, s, id)
      PROVE  WillBeOpen(P, t, id)
  <2>1. CASE id \in O /\ NoneLater(s, 0, "CLOSE", id)
    BY <1>1, <1>2, <1>3, <2>1 DEF WillBeOpen, OpenedBy
  <2>2. CASE \E i \in 1 .. Len(s) : /\ s[i].msg = "OPEN" /\ s[i].n = id
                                    /\ NoneLater(s, i, "CLOSE", id)
    <3>1. PICK i \in 1 .. Len(s) : /\ s[i].msg = "OPEN" /\ s[i].n = id
                                   /\ NoneLater(s, i, "CLOSE", id)
      BY <2>2
    <3>2. CASE i = 1
      BY <1>1, <1>2, <3>1, <3>2 DEF WillBeOpen, OpenedBy
    <3>3. CASE i # 1
      <4>1. i - 1 \in 1 .. Len(t) /\ t[i - 1] = s[i] /\ NoneLater(t, i - 1, "CLOSE", id)
        BY <1>1, <1>2, <3>1, <3>3
      <4> QED
        BY <3>1, <4>1 DEF WillBeOpen
    <3> QED
      BY <3>2, <3>3
  <2> QED
    BY <1>5, <2>1, <2>2 DEF WillBeOpen
<1> QED
  BY <1>4, <1>5

(* A message that is sent decides about the channel it names. *)
LEMMA OpenWhenSent ==
  ASSUME NEW s \in Seq(Message), NEW m \in Message, NEW O \in SUBSET Nat, NEW id \in Nat
  PROVE  WillBeOpen(O, Append(s, m), id)
           <=> \/ m.msg = "OPEN" /\ m.n = id
               \/ WillBeOpen(O, s, id) /\ ~(m.msg = "CLOSE" /\ m.n = id)
<1> PICK t : t = Append(s, m)
  OBVIOUS
<1>1. Len(s) \in Nat /\ Len(t) = Len(s) + 1 /\ t[Len(t)] = m /\ \A i \in 1 .. Len(s) : t[i] = s[i]
  OBVIOUS
<1>2. \A i \in 0 .. Len(s) : NoneLater(t, i, "CLOSE", id)
                               <=> NoneLater(s, i, "CLOSE", id) /\ ~(m.msg = "CLOSE" /\ m.n = id)
  BY <1>1 DEF NoneLater
<1>3. NoneLater(t, Len(t), "CLOSE", id)
  BY <1>1 DEF NoneLater
<1>4. (\E i \in 1 .. Len(t) : t[i].msg = "OPEN" /\ t[i].n = id /\ NoneLater(t, i, "CLOSE", id))
        <=> \/ m.msg = "OPEN" /\ m.n = id
            \/ \E i \in 1 .. Len(s) : t[i].msg = "OPEN" /\ t[i].n = id
                                      /\ NoneLater(t, i, "CLOSE", id)
  BY <1>1, <1>3
<1>5. (\E i \in 1 .. Len(s) : t[i].msg = "OPEN" /\ t[i].n = id /\ NoneLater(t, i, "CLOSE", id))
        <=> /\ ~(m.msg = "CLOSE" /\ m.n = id)
            /\ \E i \in 1 .. Len(s) : s[i].msg = "OPEN" /\ s[i].n = id
                                      /\ NoneLater(s, i, "CLOSE", id)
  BY <1>1, <1>2
<1>6. NoneLater(t, 0, "CLOSE", id)
        <=> NoneLater(s, 0, "CLOSE", id) /\ ~(m.msg = "CLOSE" /\ m.n = id)
  BY <1>1, <1>2
<1>7. WillBeOpen(O, t, id)
        <=> \/ m.msg = "OPEN" /\ m.n = id
            \/ WillBeOpen(O, s, id) /\ ~(m.msg = "CLOSE" /\ m.n = id)
  BY <1>4, <1>5, <1>6 DEF WillBeOpen
<1> QED
  BY <1>7

\* The same for a subscription: it was p and is q.
SubscribedBy(m, p, q) ==
  \/ m.msg = "SUB" /\ q
  \/ m.msg \in {"UNSUB", "RESET"} /\ ~q
  \/ m.msg \notin {"SUB", "UNSUB", "RESET"} /\ q = p

LEMMA PresentWhenRead ==
  ASSUME NEW s \in Seq(Message), NEW t \in Seq(Message), s # <<>>, t = Tail(s),
         NEW p \in BOOLEAN, NEW q \in BOOLEAN, SubscribedBy(s[1], p, q)
  PROVE  WillBePresent(q, t) <=> WillBePresent(p, s)
<1>1. Len(s) \in Nat \ {0} /\ Len(t) = Len(s) - 1 /\ \A i \in 1 .. Len(t) : t[i] = s[i + 1]
  OBVIOUS
<1>2. \A i \in 0 .. Len(t) : NoReset(t, i) <=> NoReset(s, i + 1)
  <2> TAKE i \in 0 .. Len(t)
  <2>1. ASSUME NoReset(t, i), NEW j \in ((i + 1) + 1) .. Len(s)
        PROVE  s[j].msg \notin {"UNSUB", "RESET"}
    <3>1. j - 1 \in (i + 1) .. Len(t) /\ t[j - 1] = s[j]
      BY <1>1
    <3> QED
      BY <2>1, <3>1 DEF NoReset
  <2>2. ASSUME NoReset(s, i + 1), NEW j \in (i + 1) .. Len(t)
        PROVE  t[j].msg \notin {"UNSUB", "RESET"}
    <3>1. j + 1 \in (i + 2) .. Len(s) /\ t[j] = s[j + 1]
      BY <1>1
    <3> QED
      BY <2>2, <3>1 DEF NoReset
  <2> QED
    BY Zenon, <2>1, <2>2 DEF NoReset
<1>3. NoReset(s, 0) <=> NoReset(s, 1) /\ s[1].msg \notin {"UNSUB", "RESET"}
  BY <1>1 DEF NoReset
<1>4. ASSUME WillBePresent(q, t)
      PROVE  WillBePresent(p, s)
  <2>1. CASE q /\ NoReset(t, 0)
    <3>1. NoReset(s, 1) /\ 1 \in 1 .. Len(s)
      BY <1>1, <1>2, <2>1
    <3>2. CASE s[1].msg = "SUB"
      BY <3>1, <3>2 DEF WillBePresent
    <3>3. CASE s[1].msg # "SUB"
      BY <1>3, <2>1, <3>1, <3>3 DEF WillBePresent, SubscribedBy
    <3> QED
      BY <3>2, <3>3
  <2>2. CASE \E i \in 1 .. Len(t) : t[i].msg = "SUB" /\ NoReset(t, i)
    <3>1. PICK i \in 1 .. Len(t) : t[i].msg = "SUB" /\ NoReset(t, i)
      BY <2>2
    <3>2. i + 1 \in 1 .. Len(s) /\ s[i + 1] = t[i] /\ NoReset(s, i + 1)
      BY <1>1, <1>2, <3>1
    <3> QED
      BY <3>1, <3>2 DEF WillBePresent
  <2> QED
    BY <1>4, <2>1, <2>2 DEF WillBePresent
<1>5. ASSUME WillBePresent(p, s)
      PROVE  WillBePresent(q, t)
  <2>1. CASE p /\ NoReset(s, 0)
    <3>1. NoReset(s, 1) /\ s[1].msg \notin {"UNSUB", "RESET"}
      BY <1>3, <2>1
    <3>2. NoReset(t, 0)
      BY <1>1, <1>2, <3>1
    <3>3. q
      BY <2>1, <3>1 DEF SubscribedBy
    <3> QED
      BY <3>2, <3>3 DEF WillBePresent
  <2>2. CASE \E i \in 1 .. Len(s) : s[i].msg = "SUB" /\ NoReset(s, i)
    <3>1. PICK i \in 1 .. Len(s) : s[i].msg = "SUB" /\ NoReset(s, i)
      BY <2>2
    <3>2. CASE i = 1
      BY <1>1, <1>2, <3>1, <3>2 DEF WillBePresent, SubscribedBy
    <3>3. CASE i # 1
      <4>1. i - 1 \in 1 .. Len(t) /\ t[i - 1] = s[i] /\ NoReset(t, i - 1)
        BY <1>1, <1>2, <3>1, <3>3
      <4> QED
        BY <3>1, <4>1 DEF WillBePresent
    <3> QED
      BY <3>2, <3>3
  <2> QED
    BY <1>5, <2>1, <2>2 DEF WillBePresent
<1> QED
  BY <1>4, <1>5

LEMMA PresentWhenSent ==
  ASSUME NEW s \in Seq(Message), NEW m \in Message, NEW p \in BOOLEAN
  PROVE  WillBePresent(p, Append(s, m))
           <=> \/ m.msg = "SUB"
               \/ WillBePresent(p, s) /\ m.msg \notin {"UNSUB", "RESET"}
<1> PICK t : t = Append(s, m)
  OBVIOUS
<1>1. Len(s) \in Nat /\ Len(t) = Len(s) + 1 /\ t[Len(t)] = m /\ \A i \in 1 .. Len(s) : t[i] = s[i]
  OBVIOUS
<1>2. \A i \in 0 .. Len(s) : NoReset(t, i) <=> NoReset(s, i) /\ m.msg \notin {"UNSUB", "RESET"}
  BY <1>1 DEF NoReset
<1>3. NoReset(t, Len(t))
  BY <1>1 DEF NoReset
<1>4. (\E i \in 1 .. Len(t) : t[i].msg = "SUB" /\ NoReset(t, i))
        <=> \/ m.msg = "SUB"
            \/ \E i \in 1 .. Len(s) : t[i].msg = "SUB" /\ NoReset(t, i)
  BY <1>1, <1>3
<1>5. (\E i \in 1 .. Len(s) : t[i].msg = "SUB" /\ NoReset(t, i))
        <=> /\ m.msg \notin {"UNSUB", "RESET"}
            /\ \E i \in 1 .. Len(s) : s[i].msg = "SUB" /\ NoReset(s, i)
  BY <1>1, <1>2
<1>6. NoReset(t, 0) <=> NoReset(s, 0) /\ m.msg \notin {"UNSUB", "RESET"}
  BY <1>1, <1>2
<1>7. WillBePresent(p, t) <=> \/ m.msg = "SUB"
                              \/ WillBePresent(p, s) /\ m.msg \notin {"UNSUB", "RESET"}
  BY <1>4, <1>5, <1>6 DEF WillBePresent
<1> QED
  BY <1>7

-----------------------------------------------------------------------------
(* The steps, as the proofs below take them one by one.                     *)

\* A program of the pane reads: a client, outside its teardown and for as long as it
\* has time, or nobody.
MayRead ==
  \/ client.phase = "running"
  \/ client.phase = "wait" /\ client.left > 0 /\ (client.ack_seen => client.kind = "dcs")
  \/ client.phase = "drain" /\ client.left > 0

KeyTaken ==
  \E who \in Readers :
    /\ TakeKey(who)
    /\ who = "drain" => client.phase = "drain" /\ DrainReadsOn /\ ~client.misled

AckTaken == TakeAck /\ MayRead
CloseTaken == TakeClose /\ MayRead

\* The shell skips a message that means nothing to it.
Skipped ==
  /\ Took("ACK") \/ Took("CLOSE")
  /\ client.phase = "none" /\ UNCHANGED <<client, output, taken>>

\* A client ends after its drain, or is killed.
Ended ==
  /\ Left /\ UNCHANGED <<host, output, input, typed, taken, resets>>
  /\ killed' \in BOOLEAN
  /\ ~killed' => ~killed /\ client.phase = "drain"

ResetSent ==
  /\ output' = Append(output, Msg("RESET", 0))
  /\ client.phase = "none" /\ UNCHANGED <<host, client, input, typed, taken, killed>>
  /\ resets' \in Nat

LEMMA AnyoneTakes ==
  ASSUME NEW who \in Readers, TakeKey(who), who # "drain"
  PROVE  KeyTaken
BY DEF KeyTaken

(* Every step is one of these. *)
LEMMA NextCases ==
  ASSUME TypeInv, TimerInv, Next
  PROVE  \/ KeyStep /\ typed' \in Nat
         \/ FeedOpen \/ FeedClose \/ FeedSub \/ FeedHold
         \/ \E kind \in Kinds : Start(kind)
         \/ OpenChannel \/ SendHold \/ EndAckWait \/ EndTeardown
         \/ \E id \in Channel : CloseChannel(id)
         \/ KeyTaken \/ AckTaken \/ CloseTaken \/ Skipped \/ Ended \/ ResetSent \/ Tick
<1>1. typed \in Nat /\ resets \in Nat /\ killed \in BOOLEAN
  BY DEF TypeInv
<1>2. CASE Type
  BY <1>2, TypeIsKeyStep
<1>3. CASE FeedEnd
  BY <1>1, <1>3, FeedEndIsKeyStep
<1>4. CASE Expire
  BY <1>1, <1>4, ExpireIsKeyStep
<1>5. CASE ClientRead
  <2>1. MayRead
    BY <1>5 DEF ClientRead, Reading, MayRead
  <2>2. CASE TakeKey("client")
    BY <2>2, AnyoneTakes DEF Readers
  <2>3. CASE TakeAck
    BY <2>1, <2>3 DEF AckTaken
  <2>4. CASE TakeClose
    BY <2>1, <2>4 DEF CloseTaken
  <2> QED
    BY <1>5, <2>2, <2>3, <2>4 DEF ClientRead
<1>6. CASE Drain
  <2>1. MayRead /\ client.phase = "drain" /\ DrainReadsOn
    BY Zenon, <1>6 DEF Drain, DrainReadsOn, MayRead
  <2>2. CASE TakeKey(IF client.misled THEN "misled drain" ELSE "drain")
    <3>1. CASE client.misled
      <4>1. TakeKey("misled drain")
        BY Zenon, <2>2, <3>1
      <4>2. KeyTaken
        BY Zenon, <4>1 DEF KeyTaken, Readers
      <4> QED
        BY <4>2
    <3>2. CASE ~client.misled
      <4>1. TakeKey("drain")
        BY Zenon, <2>2, <3>2
      <4>2. KeyTaken
        BY Zenon, <2>1, <3>2, <4>1 DEF KeyTaken, Readers
      <4> QED
        BY <4>2
    <3> QED
      BY <3>1, <3>2
  <2>3. CASE TakeAck
    BY <2>1, <2>3 DEF AckTaken
  <2>4. CASE TakeClose
    BY <2>1, <2>4 DEF CloseTaken
  <2> QED
    BY Zenon, <1>6, <2>2, <2>3, <2>4 DEF Drain
<1>7. CASE EndDrain
  <2>1. Left
    BY <1>7, LeaveFacts DEF EndDrain
  <2> QED
    BY <1>1, <1>7, <2>1 DEF EndDrain, Ended
<1>8. CASE Kill
  <2>1. Left
    BY <1>8, LeaveFacts DEF Kill
  <2> QED
    BY <1>8, <2>1 DEF Kill, Ended
<1>9. CASE ShellRead
  <2>1. CASE TakeKey("shell")
    BY <2>1, AnyoneTakes DEF Readers
  <2>2. CASE (Take1("ACK") \/ Take1("CLOSE")) /\ UNCHANGED <<client, output, taken>>
    BY <1>9, <2>2, TookFacts DEF ShellRead, Alive, Skipped
  <2> QED
    BY <1>9, <2>1, <2>2 DEF ShellRead
<1>10. CASE ShellReset
  <2>1. Emit(<<Msg("RESET", 0)>>)
    BY <1>10 DEF ShellReset
  <2>2. output' = Append(output, Msg("RESET", 0))
    BY <2>1, EmitOne, MsgType
  <2>3. resets' \in Nat
    BY <1>1, <1>10 DEF ShellReset
  <2> QED
    BY <1>10, <2>2, <2>3 DEF ShellReset, Alive, ResetSent
<1> QED
  BY <1>2, <1>3, <1>4, <1>5, <1>6, <1>7, <1>8, <1>9, <1>10 DEF Next, Host, Client, Shell

(* A message a step appends or takes off leaves a sequence of messages. *)
LEMMA TypeStep ==
  ASSUME TypeInv, TimerInv, Next
  PROVE  TypeInv'
<1>1. /\ host \in Hosts /\ client \in Clients /\ output \in Seq(Message) /\ input \in Seq(Message)
      /\ typed \in Nat /\ taken \in Seq([key : Nat, by : Readers]) /\ killed \in BOOLEAN
      /\ resets \in Nat
  BY DEF TypeInv
<1>2. \A kind \in {"ACK", "CLOSE", "OPEN", "SUB", "UNSUB", "RESET", "HOLD"}, n \in Nat :
        /\ Append(output, Msg(kind, n)) \in Seq(Message)
        /\ Append(input, Msg(kind, n)) \in Seq(Message)
  BY <1>1, MsgType
<1>3. CASE KeyStep /\ typed' \in Nat
  BY <1>1, <1>3 DEF TypeInv, KeyStep
<1>4. CASE FeedOpen
  BY <1>1, <1>2, <1>4, FeedOpenFacts DEF TypeInv, Fed
<1>5. CASE FeedClose
  BY <1>1, <1>2, <1>5, FeedCloseFacts DEF TypeInv, Fed
<1>6. CASE FeedSub
  BY <1>1, <1>6, FeedSubFacts DEF TypeInv, Fed
<1>7. CASE FeedHold
  BY <1>1, <1>2, <1>7, FeedHoldFacts DEF TypeInv, Fed
<1>8. CASE \E kind \in Kinds : Start(kind)
  BY <1>1, <1>2, <1>8, StartFacts DEF TypeInv, ClientOnly
<1>9. CASE OpenChannel
  BY <1>1, <1>2, <1>9, OpenChannelFacts DEF TypeInv, ClientOnly, SameButChannels
<1>10. CASE SendHold
  BY <1>1, <1>2, <1>10, SendHoldFacts DEF TypeInv, ClientOnly
<1>11. CASE EndAckWait
  BY <1>1, <1>2, <1>11, EndAckWaitFacts DEF TypeInv, ClientOnly, Left, SameButPhase
<1>12. CASE EndTeardown
  BY <1>1, <1>12, EndTeardownFacts DEF TypeInv, ClientOnly, Left, SameButPhase
<1>13. CASE \E id \in Channel : CloseChannel(id)
  <2>1. PICK id \in Channel : CloseChannel(id)
    BY <1>13
  <2>2. ClientOnly /\ killed' = killed /\ client' \in Clients /\ id \in Nat
        /\ output' = Append(output, Msg("CLOSE", id))
    BY <2>1, CloseChannelFacts DEF SameButChannels
  <2> QED
    BY <1>1, <1>2, <2>2 DEF TypeInv, ClientOnly
<1>14. CASE KeyTaken
  <2>1. PICK who \in Readers : TakeKey(who)
    BY <1>14 DEF KeyTaken
  <2>2. /\ Took("KEY") /\ UNCHANGED <<client, output>>
        /\ taken' \in Seq([key : Nat, by : Readers])
    BY <2>1, TakeKeyFacts
  <2> QED
    BY <1>1, <2>2 DEF TypeInv, Took
<1>15. CASE AckTaken
  BY <1>1, <1>15, TakeAckFacts DEF TypeInv, AckTaken, Took
<1>16. CASE CloseTaken
  BY <1>1, <1>2, <1>16, TakeCloseFacts DEF TypeInv, CloseTaken, Took, SameButChannels
<1>17. CASE Skipped
  BY <1>1, <1>17 DEF TypeInv, Skipped, Took
<1>18. CASE Ended
  BY <1>1, <1>18 DEF TypeInv, Ended, Left
<1>19. CASE ResetSent
  BY <1>1, <1>2, <1>19 DEF TypeInv, ResetSent
<1>20. CASE Tick
  BY <1>1, <1>20, TickFacts DEF TypeInv
<1> QED
  BY <1>3, <1>4, <1>5, <1>6, <1>7, <1>8, <1>9, <1>10, <1>11, <1>12, <1>13, <1>14, <1>15,
     <1>16, <1>17, <1>18, <1>19, <1>20, NextCases

-----------------------------------------------------------------------------
(* The phases of a client, and the host's timer.                            *)

(* The steps that leave the host, or the client, as it is. *)
LEMMA HostUntouched ==
  ASSUME TypeInv, TimerInv, Next
  PROVE  \/ UNCHANGED host
         \/ KeyStep \/ FeedOpen \/ FeedClose \/ FeedSub \/ FeedHold \/ Tick
<1>1. CASE \E kind \in Kinds : Start(kind)
  BY <1>1, StartFacts DEF ClientOnly
<1>2. CASE OpenChannel \/ SendHold \/ EndAckWait \/ EndTeardown
  BY <1>2, OpenChannelFacts, SendHoldFacts, EndAckWaitFacts, EndTeardownFacts DEF ClientOnly
<1>3. CASE \E id \in Channel : CloseChannel(id)
  <2>1. PICK id \in Channel : CloseChannel(id)
    BY <1>3
  <2> QED
    BY <2>1, CloseChannelFacts DEF ClientOnly
<1>4. CASE KeyTaken
  <2>1. PICK who \in Readers : TakeKey(who)
    BY <1>4 DEF KeyTaken
  <2> QED
    BY <2>1, TakeKeyFacts DEF Took
<1>5. CASE AckTaken \/ CloseTaken
  BY <1>5, TakeAckFacts, TakeCloseFacts DEF AckTaken, CloseTaken, Took
<1>6. CASE Skipped \/ Ended \/ ResetSent
  BY <1>6 DEF Skipped, Ended, ResetSent, Took
<1> QED
  BY <1>1, <1>2, <1>3, <1>4, <1>5, <1>6, NextCases

LEMMA ClientUntouched ==
  ASSUME TypeInv, TimerInv, Next
  PROVE  \/ UNCHANGED client
         \/ \E kind \in Kinds : Start(kind)
         \/ OpenChannel \/ SendHold \/ EndAckWait \/ EndTeardown
         \/ \E id \in Channel : CloseChannel(id)
         \/ AckTaken \/ CloseTaken \/ Ended \/ Tick
<1>1. CASE KeyStep
  BY <1>1 DEF KeyStep
<1>2. CASE FeedOpen \/ FeedClose \/ FeedSub \/ FeedHold
  BY <1>2, FeedOpenFacts, FeedCloseFacts, FeedSubFacts, FeedHoldFacts DEF Fed
<1>3. CASE KeyTaken
  <2>1. PICK who \in Readers : TakeKey(who)
    BY <1>3 DEF KeyTaken
  <2> QED
    BY <2>1, TakeKeyFacts
<1>4. CASE Skipped \/ ResetSent
  BY <1>4 DEF Skipped, ResetSent
<1> QED
  BY <1>1, <1>2, <1>3, <1>4, NextCases

LEMMA TimerStep ==
  ASSUME TypeInv, TimerInv, Next
  PROVE  TimerInv'
<1>1. CASE KeyStep
  BY <1>1 DEF TimerInv, KeyStep
<1>2. CASE FeedOpen
  BY <1>2, FeedOpenFacts DEF TimerInv, SameBarrier
<1>3. CASE FeedClose
  BY <1>3, FeedCloseFacts DEF TimerInv, SameBarrier
<1>4. CASE FeedSub
  BY <1>4, FeedSubFacts DEF TimerInv, SameBarrier
<1>5. CASE FeedHold
  BY <1>5, FeedHoldFacts DEF TimerInv
<1>6. CASE Tick
  <2>1. host.left \in 0 .. DEADLINE /\ Stopped = DEADLINE + 1 /\ DEADLINE \in Nat
    BY BarrierAssumption DEF TypeInv, Hosts, Stopped
  <2>2. host.armed => host.timer = host.left /\ host.timer # Stopped
    BY <2>1 DEF TimerInv
  <2> QED
    BY <1>6, <2>2, TickFacts DEF TimerInv
<1>7. CASE UNCHANGED host
  BY <1>7 DEF TimerInv
<1> QED
  BY <1>1, <1>2, <1>3, <1>4, <1>5, <1>6, <1>7, NextCases, HostUntouched

LEMMA PhaseStep ==
  ASSUME TypeInv, TimerInv, PhaseInv, NumberInv, Next
  PROVE  PhaseInv'
<1>0. client \in Clients
  BY DEF TypeInv
<1>1. CASE UNCHANGED client
  BY <1>1 DEF PhaseInv
<1>2. CASE \E kind \in Kinds : Start(kind)
  BY <1>2, StartFacts DEF PhaseInv
<1>3. CASE OpenChannel
  BY <1>3, OpenChannelFacts DEF PhaseInv, SameButChannels
<1>4. CASE SendHold
  <2>1. client'.left = ACK_WAIT /\ ACK_WAIT \in Nat
    BY <1>4, SendHoldFacts, BarrierAssumption
  <2> QED
    BY <1>4, <2>1, SendHoldFacts DEF PhaseInv
<1>5. CASE EndAckWait
  BY <1>5, EndAckWaitFacts DEF PhaseInv, Left, SameButPhase
<1>6. CASE EndTeardown
  BY <1>6, EndTeardownFacts DEF PhaseInv, Left, SameButPhase
<1>7. CASE \E id \in Channel : CloseChannel(id)
  <2>1. PICK id \in Channel : CloseChannel(id)
    BY <1>7
  <2> QED
    BY <2>1, CloseChannelFacts DEF PhaseInv, SameButChannels
<1>8. CASE AckTaken
  <2>1. client.phase = "running" => client'.misled
    <3>1. input[1].msg = "ACK" /\ 1 \in 1 .. Len(input)
      BY <1>8, TakeAckFacts DEF AckTaken, Took
    <3>2. client.phase = "running" => input[1].n # client.n
      <4>1. input[1] \in Message /\ client.n \in Nat
        BY <1>0, <1>8, TakeAckFacts DEF AckTaken, Took, Clients
      <4> QED
        BY <3>1, <4>1 DEF NumberInv, Below, Limit, Message
    <3> QED
      BY <1>8, <3>2, TakeAckFacts DEF AckTaken
  <2>2. /\ client'.phase = client.phase /\ client'.kind = client.kind
        /\ client'.open = client.open /\ client'.pending = client.pending
        /\ client'.left = client.left /\ client'.ack_seen
    BY <1>8, TakeAckFacts DEF AckTaken
  <2> QED
    BY <2>1, <2>2 DEF PhaseInv
<1>9. CASE CloseTaken
  BY <1>9, TakeCloseFacts DEF PhaseInv, SameButChannels, CloseTaken
<1>10. CASE Ended
  BY <1>10 DEF PhaseInv, Ended, Left
<1>11. CASE Tick
  <2>1. /\ client'.phase = client.phase /\ client'.kind = client.kind
        /\ client'.open = client.open /\ client'.pending = client.pending
        /\ client'.ack_seen = client.ack_seen /\ client'.misled = client.misled
    BY <1>11, TickFacts
  <2>2. client.left \in Nat /\ ACK_WAIT \in Nat /\ client'.left = Down(client.left)
    BY <1>0, <1>11, TickFacts, BarrierAssumption DEF Clients
  <2>3. client.left <= ACK_WAIT => client'.left <= ACK_WAIT
    BY <2>2 DEF Down
  <2> QED
    BY <2>1, <2>3 DEF PhaseInv
<1> QED
  BY <1>1, <1>2, <1>3, <1>4, <1>5, <1>6, <1>7, <1>8, <1>9, <1>10, <1>11,
     NextCases, ClientUntouched

-----------------------------------------------------------------------------
(* What the host will have open is what the client has open.                *)

\* What the host will have is what it was going to have.
SamePlans ==
  /\ \A id \in Nat : WillBeOpen(host.open, output, id)' <=> WillBeOpen(host.open, output, id)
  /\ WillBePresent(host.client_present, output)' <=> WillBePresent(host.client_present, output)

\* Sending m changes the plans for the channel, or the subscription, that it names.
PlansSent(m) ==
  /\ \A id \in Nat :
       WillBeOpen(host.open, output, id)'
         <=> \/ m.msg = "OPEN" /\ m.n = id
             \/ WillBeOpen(host.open, output, id) /\ ~(m.msg = "CLOSE" /\ m.n = id)
  /\ WillBePresent(host.client_present, output)'
       <=> \/ m.msg = "SUB"
           \/ WillBePresent(host.client_present, output) /\ m.msg \notin {"UNSUB", "RESET"}

LEMMA SendPlans ==
  ASSUME TypeInv, NEW m \in Message, output' = Append(output, m),
         host'.open = host.open, host'.client_present = host.client_present
  PROVE  PlansSent(m)
<1> PICK O \in SUBSET Nat : O = host.open
  BY DEF TypeInv, Hosts
<1> PICK p \in BOOLEAN : p = host.client_present
  BY DEF TypeInv, Hosts
<1>1. output \in Seq(Message)
  BY DEF TypeInv
<1>2. \A id \in Nat :
        WillBeOpen(O, Append(output, m), id)
          <=> \/ m.msg = "OPEN" /\ m.n = id
              \/ WillBeOpen(O, output, id) /\ ~(m.msg = "CLOSE" /\ m.n = id)
  BY <1>1, OpenWhenSent
<1>3. WillBePresent(p, Append(output, m))
        <=> \/ m.msg = "SUB"
            \/ WillBePresent(p, output) /\ m.msg \notin {"UNSUB", "RESET"}
  BY <1>1, PresentWhenSent
<1>4. host'.open = O /\ host'.client_present = p
  OBVIOUS
<1> QED
  BY Zenon, <1>2, <1>3, <1>4 DEF PlansSent

LEMMA QuietPlans ==
  ASSUME output' = output, host'.open = host.open, host'.client_present = host.client_present
  PROVE  SamePlans
BY Zenon DEF SamePlans

LEMMA ReadPlans ==
  ASSUME TypeInv, FeedOpen \/ FeedClose \/ FeedSub \/ FeedHold
  PROVE  SamePlans
<1> PICK s \in Seq(Message) : s = output
  BY DEF TypeInv
<1> PICK O \in SUBSET Nat : O = host.open
  BY DEF TypeInv, Hosts
<1>7. PICK p \in BOOLEAN : p = host.client_present
  BY DEF TypeInv, Hosts
<1>1. PICK kind \in {"OPEN", "CLOSE", "SUB", "UNSUB", "RESET", "HOLD"} : Fed(kind)
  BY FeedOpenFacts, FeedCloseFacts, FeedSubFacts, FeedHoldFacts
<1> PICK t \in Seq(Message) : t = output'
  BY <1>1 DEF Fed
<1> PICK P \in SUBSET Nat : P = host'.open
  BY <1>1 DEF Fed, Hosts
<1>8. PICK q \in BOOLEAN : q = host'.client_present
  BY <1>1 DEF Fed, Hosts
<1>2. s # <<>> /\ t = Tail(s) /\ s[1].msg = kind
  BY <1>1 DEF Fed
<1>3. /\ \/ s[1].msg = "OPEN" /\ P = O \cup {s[1].n}
         \/ s[1].msg = "CLOSE" /\ P = O \ {s[1].n}
         \/ s[1].msg \notin {"OPEN", "CLOSE"} /\ P = O
      /\ \/ s[1].msg = "SUB" /\ q
         \/ s[1].msg \in {"UNSUB", "RESET"} /\ ~q
         \/ s[1].msg \notin {"SUB", "UNSUB", "RESET"} /\ q = p
  <2>1. CASE FeedOpen
    BY <2>1, <1>7, <1>8, FeedOpenFacts DEF Fed
  <2>2. CASE FeedClose
    BY <2>2, <1>7, <1>8, FeedCloseFacts DEF Fed
  <2>3. CASE FeedSub
    BY <2>3, <1>7, <1>8, FeedSubFacts DEF Fed
  <2>4. CASE FeedHold
    BY <2>4, <1>7, <1>8, FeedHoldFacts DEF Fed
  <2> QED
    BY <2>1, <2>2, <2>3, <2>4
<1>4. \A id \in Nat : WillBeOpen(P, t, id) <=> WillBeOpen(O, s, id)
  <2> TAKE id \in Nat
  <2>1. s # <<>> /\ t = Tail(s)
    BY <1>2
  <2>2. OpenedBy(s[1], O, P)
    BY <1>3 DEF OpenedBy
  <2> QED
    BY <2>1, <2>2, OpenWhenRead
<1>5. WillBePresent(q, t) <=> WillBePresent(p, s)
  <2>1. s # <<>> /\ t = Tail(s)
    BY <1>2
  <2>2. SubscribedBy(s[1], p, q)
    BY <1>3 DEF SubscribedBy
  <2> QED
    BY ZenonT(120), <2>1, <2>2, PresentWhenRead
<1> QED
  BY Zenon, <1>4, <1>5, <1>7, <1>8 DEF SamePlans

(* A host never rests with a barrier it has no reason to keep. *)
LEMMA RestStep ==
  ASSUME TypeInv, TimerInv, RestInv, Next
  PROVE  RestInv'
<1>1. CASE KeyStep
  BY <1>1 DEF RestInv, KeyStep, ClientGone
<1>2. CASE FeedOpen \/ FeedClose \/ FeedSub \/ FeedHold
  <2>1. host'.feeding
    BY <1>2, FeedOpenFacts, FeedCloseFacts, FeedSubFacts, FeedHoldFacts DEF Fed
  <2> QED
    BY <2>1 DEF RestInv
<1>3. CASE Tick
  BY <1>3, TickFacts DEF RestInv, ClientGone
<1>4. CASE UNCHANGED host
  BY <1>4 DEF RestInv, ClientGone
<1> QED
  BY <1>1, <1>2, <1>3, <1>4, HostUntouched

(* Whoever leaves in order has closed its channels and ended its subscription. *)
LEMMA GoneStep ==
  ASSUME TypeInv, TimerInv, PhaseInv, GoneInv, Next
  PROVE  GoneInv'
<1>1. /\ client \in Clients /\ client' \in Clients /\ killed \in BOOLEAN
      /\ client.open \in SUBSET Nat
  BY TypeStep DEF TypeInv, Clients
<1>2. CASE SamePlans /\ killed' = killed /\ client'.open = client.open
           /\ client'.phase = client.phase /\ client'.kind = client.kind
  BY <1>2 DEF SamePlans, GoneInv, Subscribed
<1>3. CASE KeyStep
  <2>1. SamePlans
    BY <1>3, QuietPlans DEF KeyStep
  <2> QED
    BY <1>2, <1>3, <2>1 DEF KeyStep
<1>4. CASE FeedOpen \/ FeedClose \/ FeedSub \/ FeedHold
  <2>1. SamePlans
    BY <1>4, ReadPlans
  <2>2. UNCHANGED <<client, killed>>
    BY <1>4, FeedOpenFacts, FeedCloseFacts, FeedSubFacts, FeedHoldFacts DEF Fed
  <2> QED
    BY <1>2, <2>1, <2>2
<1>5. CASE \E kind \in Kinds : Start(kind)
  <2>1. PICK kind \in Kinds : Start(kind)
    BY <1>5
  <2>2. /\ killed' = killed /\ UNCHANGED host /\ client.open = {} /\ client'.open = {}
        /\ client.phase = "none" /\ client'.phase = "running" /\ client'.kind = kind
    BY <2>1, StartFacts DEF PhaseInv, ClientOnly
  <2>3. CASE kind # "dcs" /\ output' = output
    <3>1. SamePlans
      BY <2>2, <2>3, QuietPlans
    <3> QED
      BY <2>2, <3>1 DEF SamePlans, GoneInv, Subscribed
  <2>4. CASE kind = "dcs" /\ output' = Append(output, Msg("SUB", 0))
    <3>1. PlansSent(Msg("SUB", 0)) /\ Msg("SUB", 0).msg = "SUB"
      BY <2>2, <2>4, SendPlans, MsgType
    <3>2. ~killed' => \A id \in Nat : ~WillBeOpen(host.open, output, id)'
      BY <2>2, <3>1 DEF PlansSent, GoneInv
    <3> QED
      BY <2>2, <2>4, <3>2 DEF GoneInv, Subscribed
  <2> QED
    BY <2>1, <2>3, <2>4, StartFacts
<1>6. CASE OpenChannel
  <2>1. PICK id \in Nat : /\ client'.open = client.open \cup {id}
                          /\ output' = Append(output, Msg("OPEN", id))
    BY <1>6, OpenChannelFacts
  <2>2. UNCHANGED host /\ killed' = killed /\ client'.phase = client.phase
        /\ client'.kind = client.kind
    BY <1>6, OpenChannelFacts DEF ClientOnly, SameButChannels
  <2>3. PlansSent(Msg("OPEN", id)) /\ Msg("OPEN", id).msg = "OPEN" /\ Msg("OPEN", id).n = id
    BY <2>1, <2>2, SendPlans, MsgType
  <2> QED
    BY <2>1, <2>2, <2>3 DEF PlansSent, GoneInv, Subscribed
<1>7. CASE SendHold
  <2>1. PlansSent(Msg("HOLD", client.n)) /\ Msg("HOLD", client.n).msg = "HOLD"
    BY <1>7, SendHoldFacts, SendPlans, MsgType DEF ClientOnly
  <2>2. killed' = killed /\ client'.phase # "none" /\ client.phase # "none"
        /\ client'.kind = client.kind /\ client'.open = client.open
    BY <1>7, SendHoldFacts
  <2> QED
    BY <2>1, <2>2 DEF PlansSent, GoneInv, Subscribed
<1>8. CASE EndAckWait
  <2>1. killed' = killed /\ UNCHANGED host
    BY <1>8, EndAckWaitFacts DEF ClientOnly
  <2>2. CASE client.kind = "dcs" /\ Left /\ output' = Append(output, Msg("UNSUB", 0))
    <3>1. PlansSent(Msg("UNSUB", 0)) /\ Msg("UNSUB", 0).msg = "UNSUB"
      BY <2>1, <2>2, SendPlans, MsgType
    <3>2. client.open = {} /\ client'.open = {}
      BY <2>2 DEF PhaseInv, Left
    <3> QED
      BY <2>1, <3>1, <3>2 DEF PlansSent, GoneInv
  <2>3. CASE client.kind = "rpc" /\ SameButPhase("teardown") /\ output' = output
    <3>1. SamePlans
      BY <2>1, <2>3, QuietPlans
    <3> QED
      BY <2>1, <2>3, <3>1 DEF SamePlans, GoneInv, Subscribed, SameButPhase
  <2> QED
    BY <1>8, <2>2, <2>3, EndAckWaitFacts
<1>9. CASE Left /\ killed' \in BOOLEAN /\ (~killed' => ~killed) /\ UNCHANGED <<host, output>>
           /\ (~killed' => client.phase \in {"teardown", "drain"} /\ client.open = {})
  <2>1. SamePlans
    BY <1>9, QuietPlans
  <2>2. ~killed' => client'.open = client.open /\ ~Subscribed
    BY <1>9 DEF PhaseInv, Subscribed, Left
  <2>3. ~killed' => ~killed /\ ~WillBePresent(host.client_present, output)
    BY <1>9, <2>2 DEF GoneInv
  <2> QED
    BY <2>1, <2>2, <2>3 DEF SamePlans, GoneInv
<1>10. CASE EndTeardown
  <2>1. killed' = killed /\ UNCHANGED <<host, output>> /\ client.open = {}
        /\ client.phase = "teardown"
    BY <1>10, EndTeardownFacts DEF ClientOnly
  <2>2. CASE SameButPhase("drain")
    <3>1. SamePlans
      BY <2>1, QuietPlans
    <3> QED
      BY <2>1, <2>2, <3>1 DEF SamePlans, GoneInv, Subscribed, SameButPhase
  <2> QED
    BY <1>1, <1>9, <1>10, <2>1, <2>2, EndTeardownFacts
<1>11. CASE \E id \in Channel : CloseChannel(id)
  <2>1. PICK id \in Channel : CloseChannel(id)
    BY <1>11
  <2>2. /\ UNCHANGED host /\ killed' = killed /\ client'.phase = client.phase
        /\ client'.kind = client.kind /\ id \in Nat
        /\ client'.open = client.open \ {id} /\ output' = Append(output, Msg("CLOSE", id))
    BY <2>1, CloseChannelFacts DEF ClientOnly, SameButChannels
  <2>3. PlansSent(Msg("CLOSE", id)) /\ Msg("CLOSE", id).msg = "CLOSE" /\ Msg("CLOSE", id).n = id
    BY <2>2, SendPlans, MsgType
  <2> QED
    BY <2>2, <2>3 DEF PlansSent, GoneInv, Subscribed
<1>12. CASE KeyTaken
  <2>1. PICK who \in Readers : TakeKey(who)
    BY <1>12 DEF KeyTaken
  <2>2. UNCHANGED <<host, client, output, killed>>
    BY <2>1, TakeKeyFacts DEF Took
  <2> QED
    BY <1>2, <2>2, QuietPlans
<1>13. CASE AckTaken
  <2>1. UNCHANGED <<host, output, killed>> /\ client'.open = client.open
        /\ client'.phase = client.phase /\ client'.kind = client.kind
    BY <1>13, TakeAckFacts DEF AckTaken, Took
  <2> QED
    BY <1>2, <2>1, QuietPlans
<1>14. CASE CloseTaken
  <2>1. UNCHANGED <<host, killed>> /\ client'.phase = client.phase /\ client'.kind = client.kind
        /\ input[1].n \in Nat
    BY <1>14, TakeCloseFacts DEF CloseTaken, Took, SameButChannels
  <2>2. CASE client'.open = client.open /\ output' = output
    BY <1>2, <2>1, <2>2, QuietPlans
  <2>3. CASE /\ client'.open = client.open \ {input[1].n}
             /\ output' = Append(output, Msg("CLOSE", input[1].n))
    <3> PICK id \in Nat : id = input[1].n
      BY <2>1
    <3>1. PlansSent(Msg("CLOSE", id)) /\ Msg("CLOSE", id).msg = "CLOSE"
          /\ Msg("CLOSE", id).n = id
      BY <2>1, <2>3, SendPlans, MsgType
    <3> QED
      BY <2>1, <2>3, <3>1 DEF PlansSent, GoneInv, Subscribed
  <2> QED
    BY <1>14, <2>2, <2>3, TakeCloseFacts DEF CloseTaken
<1>15. CASE Skipped
  BY <1>2, <1>15, QuietPlans DEF Skipped, Took
<1>16. CASE Ended
  BY <1>9, <1>16 DEF Ended, PhaseInv
<1>17. CASE ResetSent
  <2>1. PlansSent(Msg("RESET", 0)) /\ Msg("RESET", 0).msg = "RESET"
    BY <1>17, SendPlans, MsgType DEF ResetSent
  <2> QED
    BY <1>17, <2>1 DEF PlansSent, GoneInv, ResetSent, Subscribed
<1>18. CASE Tick
  <2>1. UNCHANGED <<output, killed>> /\ client'.open = client.open
        /\ client'.phase = client.phase /\ client'.kind = client.kind
        /\ host'.open = host.open /\ host'.client_present = host.client_present
    BY <1>18, TickFacts
  <2> QED
    BY <1>2, <2>1, QuietPlans
<1> QED
  BY <1>3, <1>4, <1>5, <1>6, <1>7, <1>8, <1>10, <1>11, <1>12, <1>13, <1>14, <1>15, <1>16,
     <1>17, <1>18, NextCases

-----------------------------------------------------------------------------
(* Who sent the HOLDs, and what the host will have open.                    *)

LEMMA MessageAt ==
  ASSUME NEW s \in Seq(Message), NEW i \in 1 .. Len(s)
  PROVE  s[i] \in Message /\ s[i].n \in Nat
<1>1. s[i] \in Message
  BY ElementOfSeq
<1> QED
  BY <1>1 DEF Message

LEMMA BelowKept ==
  ASSUME NEW s \in Seq(Message), NEW kind, NEW b \in Nat, NEW c \in Nat, b <= c,
         Below(s, kind, b)
  PROVE  /\ Below(s, kind, c)
         /\ s # <<>> => Below(Tail(s), kind, c)
         /\ \A m \in Message : m.msg # kind \/ m.n < c => Below(Append(s, m), kind, c)
<1>1. \A i \in 1 .. Len(s) : s[i] \in Message /\ s[i].n \in Nat
  BY MessageAt
<1>2. Below(s, kind, c)
  BY <1>1 DEF Below
<1>3. ASSUME s # <<>>
      PROVE  Below(Tail(s), kind, c)
  <2>1. Len(s) \in Nat \ {0} /\ Len(Tail(s)) = Len(s) - 1
        /\ \A i \in 1 .. Len(Tail(s)) : Tail(s)[i] = s[i + 1]
    BY <1>3
  <2> QED
    BY <1>2, <2>1 DEF Below
<1>4. ASSUME NEW m \in Message, m.msg # kind \/ m.n < c
      PROVE  Below(Append(s, m), kind, c)
  <2>1. Len(s) \in Nat /\ Len(Append(s, m)) = Len(s) + 1 /\ Append(s, m)[Len(s) + 1] = m
        /\ \A i \in 1 .. Len(s) : Append(s, m)[i] = s[i]
    OBVIOUS
  <2> QED
    BY <1>2, <1>4, <2>1 DEF Below
<1> QED
  BY <1>2, <1>3, <1>4

LEMMA KeysAreNoAcks ==
  ASSUME NEW s \in Seq(Message), NEW t, KeysFollow(s, t), NEW b, Below(s, "ACK", b)
  PROVE  Below(t, "ACK", b)
<1>1. Len(s) \in Nat /\ Len(t) \in Nat
  BY LenProperties DEF KeysFollow
<1> QED
  BY <1>1 DEF KeysFollow, Below

LEMMA LimitGrows ==
  ASSUME TypeInv, TimerInv, Next
  PROVE  Limit \in Nat /\ Limit' \in Nat /\ Limit <= Limit'
<1>0. client.n \in Nat
  BY DEF TypeInv, Clients
<1>1. CASE \E kind \in Kinds : Start(kind)
  BY <1>0, <1>1, StartFacts DEF Limit
<1>2. CASE SendHold
  BY <1>0, <1>2, SendHoldFacts DEF Limit
<1>3. CASE client'.n = client.n /\ (client'.phase = client.phase \/ client'.phase # "running")
  BY <1>0, <1>3 DEF Limit
<1>4. CASE OpenChannel \/ EndAckWait \/ EndTeardown \/ AckTaken \/ CloseTaken \/ Ended \/ Tick
  <2>1. client'.n = client.n /\ (client'.phase = client.phase \/ client'.phase # "running")
    BY <1>4, OpenChannelFacts, EndAckWaitFacts, EndTeardownFacts, TakeAckFacts, TakeCloseFacts,
       TickFacts
    DEF SameButChannels, SameButPhase, Left, AckTaken, CloseTaken, Ended
  <2> QED
    BY <1>3, <2>1
<1>5. CASE \E id \in Channel : CloseChannel(id)
  <2>1. PICK id \in Channel : CloseChannel(id)
    BY <1>5
  <2> QED
    BY <1>3, <2>1, CloseChannelFacts DEF SameButChannels
<1>6. CASE UNCHANGED client
  BY <1>3, <1>6
<1> QED
  BY <1>1, <1>2, <1>4, <1>5, <1>6, ClientUntouched

\* What a step may do to the wires, as far as HOLDs, ACKs and OPENs go.
OutputStep ==
  \/ output' = output
  \/ output # <<>> /\ output' = Tail(output)
  \/ \E m \in Message :
       /\ output' = Append(output, m)
       /\ m.msg = "HOLD" => SendHold /\ m.n = client.n
       /\ m.msg = "OPEN" => client.phase = "running" /\ client'.n = client.n

InputStep ==
  \/ input' = input
  \/ input # <<>> /\ input' = Tail(input)
  \/ KeysFollow(input, input')
  \/ \E m \in Message :
       /\ input' = Append(input, m)
       /\ m.msg = "ACK" => output # <<>> /\ output[1].msg = "HOLD" /\ output[1].n = m.n

LEMMA OutputSteps ==
  ASSUME TypeInv, TimerInv, Next
  PROVE  OutputStep
<1>0. client.n \in Nat
  BY DEF TypeInv, Clients
<1>1. CASE output' = output
  BY <1>1 DEF OutputStep
<1>2. CASE FeedOpen \/ FeedClose \/ FeedSub \/ FeedHold
  <2>1. Len(output) # 0 /\ output' = Tail(output)
    BY <1>2, FeedOpenFacts, FeedCloseFacts, FeedSubFacts, FeedHoldFacts DEF Fed
  <2> QED
    BY <2>1 DEF OutputStep
<1>3. ASSUME NEW kind \in {"SUB", "UNSUB", "RESET", "CLOSE"}, NEW n \in Nat,
             output' = Append(output, Msg(kind, n))
      PROVE  OutputStep
  <2>1. Msg(kind, n) \in Message /\ Msg(kind, n).msg = kind
    BY MsgType
  <2> QED
    BY <1>3, <2>1 DEF OutputStep
<1>4. CASE \E kind \in Kinds : Start(kind)
  BY <1>1, <1>3, <1>4, StartFacts
<1>5. CASE OpenChannel
  <2>1. PICK id \in Nat : output' = Append(output, Msg("OPEN", id))
    BY <1>5, OpenChannelFacts
  <2>2. Msg("OPEN", id) \in Message /\ Msg("OPEN", id).msg = "OPEN"
    BY MsgType
  <2>3. client.phase = "running" /\ client'.n = client.n
    BY <1>5, OpenChannelFacts DEF SameButChannels
  <2> QED
    BY <2>1, <2>2, <2>3 DEF OutputStep
<1>6. CASE SendHold
  <2>1. Msg("HOLD", client.n) \in Message /\ Msg("HOLD", client.n).msg = "HOLD"
        /\ Msg("HOLD", client.n).n = client.n
    BY <1>0, MsgType
  <2> QED
    BY <1>6, <2>1, SendHoldFacts DEF OutputStep
<1>7. CASE EndAckWait
  BY <1>1, <1>3, <1>7, EndAckWaitFacts
<1>8. CASE EndTeardown
  BY <1>1, <1>8, EndTeardownFacts
<1>9. CASE \E id \in Channel : CloseChannel(id)
  <2>1. PICK id \in Channel : CloseChannel(id)
    BY <1>9
  <2> QED
    BY <1>3, <2>1, CloseChannelFacts
<1>10. CASE KeyTaken
  <2>1. PICK who \in Readers : TakeKey(who)
    BY <1>10 DEF KeyTaken
  <2> QED
    BY <1>1, <2>1, TakeKeyFacts
<1>11. CASE AckTaken
  BY <1>1, <1>11, TakeAckFacts DEF AckTaken
<1>12. CASE CloseTaken
  BY <1>1, <1>3, <1>12, TakeCloseFacts DEF CloseTaken
<1>13. CASE KeyStep \/ Skipped \/ Ended
  BY <1>1, <1>13 DEF KeyStep, Skipped, Ended
<1>14. CASE ResetSent
  BY <1>3, <1>14 DEF ResetSent
<1>15. CASE Tick
  BY <1>1, <1>15, TickFacts
<1> QED
  BY <1>2, <1>4, <1>5, <1>6, <1>7, <1>8, <1>9, <1>10, <1>11, <1>12, <1>13, <1>14, <1>15,
     NextCases

LEMMA InputSteps ==
  ASSUME TypeInv, TimerInv, Next
  PROVE  InputStep
<1>1. CASE input' = input
  BY <1>1 DEF InputStep
<1>2. CASE KeyStep
  BY <1>2 DEF KeyStep, InputStep
<1>3. ASSUME NEW n \in Nat, input' = Append(input, Msg("CLOSE", n))
      PROVE  InputStep
  <2>1. Msg("CLOSE", n) \in Message /\ Msg("CLOSE", n).msg = "CLOSE"
    BY MsgType
  <2> QED
    BY <1>3, <2>1 DEF InputStep
<1>4. CASE FeedOpen
  BY <1>1, <1>3, <1>4, FeedOpenFacts
<1>5. CASE FeedClose
  BY <1>1, <1>3, <1>5, FeedCloseFacts
<1>6. CASE FeedSub
  BY <1>1, <1>6, FeedSubFacts
<1>7. CASE FeedHold
  <2>1. /\ output[1].n \in Nat /\ output # <<>> /\ output[1].msg = "HOLD"
        /\ input' = Append(input, Msg("ACK", output[1].n))
    BY <1>7, FeedHoldFacts DEF Fed
  <2>2. Msg("ACK", output[1].n) \in Message /\ Msg("ACK", output[1].n).n = output[1].n
    BY <2>1, MsgType
  <2> QED
    BY <2>1, <2>2 DEF InputStep
<1>8. ASSUME NEW kind, Took(kind)
      PROVE  InputStep
  <2>1. Len(input) # 0 /\ input' = Tail(input)
    BY <1>8 DEF Took
  <2> QED
    BY <2>1 DEF InputStep
<1>9. CASE KeyTaken
  <2>1. PICK who \in Readers : TakeKey(who)
    BY <1>9 DEF KeyTaken
  <2> QED
    BY <1>8, <2>1, TakeKeyFacts
<1>10. CASE AckTaken \/ CloseTaken
  BY <1>8, <1>10, TakeAckFacts, TakeCloseFacts DEF AckTaken, CloseTaken
<1>11. CASE Skipped
  BY <1>8, <1>11 DEF Skipped
<1>12. CASE \E kind \in Kinds : Start(kind)
  BY <1>1, <1>12, StartFacts DEF ClientOnly
<1>13. CASE OpenChannel \/ SendHold \/ EndAckWait \/ EndTeardown
  BY <1>1, <1>13, OpenChannelFacts, SendHoldFacts, EndAckWaitFacts, EndTeardownFacts
  DEF ClientOnly
<1>14. CASE \E id \in Channel : CloseChannel(id)
  <2>1. PICK id \in Channel : CloseChannel(id)
    BY <1>14
  <2> QED
    BY <1>1, <2>1, CloseChannelFacts DEF ClientOnly
<1>15. CASE Ended \/ ResetSent \/ Tick
  BY <1>1, <1>15, TickFacts DEF Ended, ResetSent
<1> QED
  BY <1>2, <1>4, <1>5, <1>6, <1>7, <1>9, <1>10, <1>11, <1>12, <1>13, <1>14, <1>15, NextCases

LEMMA NumberStep ==
  ASSUME TypeInv, TimerInv, NumberInv, Next
  PROVE  NumberInv'
<1>1. Limit \in Nat /\ Limit' \in Nat /\ Limit <= Limit'
  BY LimitGrows
<1>2. output \in Seq(Message) /\ input \in Seq(Message) /\ client.n \in Nat
  BY DEF TypeInv, Clients
<1>3. Below(output', "HOLD", Limit')
  <2>1. CASE output' = output \/ (output # <<>> /\ output' = Tail(output))
    BY <1>1, <1>2, <2>1, BelowKept DEF NumberInv
  <2>2. ASSUME NEW m \in Message, output' = Append(output, m),
               m.msg = "HOLD" => SendHold /\ m.n = client.n
        PROVE  Below(output', "HOLD", Limit')
    <3>1. m.msg = "HOLD" => m.n < Limit'
      BY <1>2, <2>2, SendHoldFacts DEF Limit
    <3> QED
      BY <1>1, <1>2, <2>2, <3>1, BelowKept DEF NumberInv
  <2> QED
    BY <2>1, <2>2, OutputSteps DEF OutputStep
<1>4. Below(input', "ACK", Limit')
  <2>1. CASE input' = input \/ (input # <<>> /\ input' = Tail(input))
    BY <1>1, <1>2, <2>1, BelowKept DEF NumberInv
  <2>2. CASE KeysFollow(input, input')
    BY <1>1, <1>2, <2>2, BelowKept, KeysAreNoAcks DEF NumberInv
  <2>3. ASSUME NEW m \in Message, input' = Append(input, m),
               m.msg = "ACK" => output # <<>> /\ output[1].msg = "HOLD" /\ output[1].n = m.n
        PROVE  Below(input', "ACK", Limit')
    <3>1. m.msg = "ACK" => m.n < Limit
      BY <1>2, <2>3 DEF NumberInv, Below
    <3>2. m.n \in Nat
      BY DEF Message
    <3> QED
      BY <1>1, <1>2, <2>3, <3>1, <3>2, BelowKept DEF NumberInv
  <2> QED
    BY <2>1, <2>2, <2>3, InputSteps DEF InputStep
<1> QED
  BY <1>3, <1>4 DEF NumberInv

LEMMA HoldStep ==
  ASSUME TypeInv, TimerInv, NumberInv, HoldInv, Next
  PROVE  HoldInv'
<1>1. output \in Seq(Message) /\ client.n \in Nat
  BY DEF TypeInv, Clients
<1>2. ASSUME client'.phase # "none"
      PROVE  /\ client'.n = client.n \/ (client.phase = "none" /\ client'.n = client.n + 1)
             /\ HoldAfter(output, client'.n)
  <2>1. CASE \E kind \in Kinds : Start(kind)
    <3>1. client.phase = "none" /\ client'.n = client.n + 1
      BY <2>1, StartFacts
    <3>2. \A i \in 1 .. Len(output) : output[i].msg = "HOLD" => output[i].n # client.n + 1
      <4>1. \A i \in 1 .. Len(output) : output[i].n \in Nat
        BY <1>1, MessageAt
      <4>2. \A i \in 1 .. Len(output) : output[i].msg = "HOLD" => output[i].n < client.n + 1
        BY <3>1 DEF NumberInv, Below, Limit
      <4> QED
        BY <1>1, <4>1, <4>2
    <3> QED
      BY <3>1, <3>2 DEF HoldAfter
  <2>2. CASE client'.n = client.n /\ client.phase # "none"
    BY <2>2 DEF HoldInv
  <2>3. CASE UNCHANGED client
    BY <1>2, <2>2, <2>3
  <2>4. CASE OpenChannel \/ SendHold \/ EndAckWait \/ EndTeardown
    BY <1>2, <2>2, <2>4, OpenChannelFacts, SendHoldFacts, EndAckWaitFacts, EndTeardownFacts
    DEF SameButChannels, SameButPhase, Left
  <2>5. CASE \E id \in Channel : CloseChannel(id)
    <3>1. PICK id \in Channel : CloseChannel(id)
      BY <2>5
    <3> QED
      BY <2>2, <3>1, CloseChannelFacts DEF SameButChannels
  <2>6. CASE AckTaken \/ CloseTaken \/ Ended \/ Tick
    BY <1>2, <2>2, <2>6, TakeAckFacts, TakeCloseFacts, TickFacts
    DEF SameButChannels, Left, AckTaken, CloseTaken, Ended
  <2> QED
    BY <2>1, <2>3, <2>4, <2>5, <2>6, ClientUntouched
<1>3. ASSUME client'.phase # "none"
      PROVE  HoldAfter(output', client'.n)
  <2> PICK n \in Nat : n = client'.n
    BY <1>1, <1>2, <1>3
  <2>0. HoldAfter(output, n)
    BY <1>2, <1>3
  <2>1. CASE output # <<>> /\ output' = Tail(output)
    <3>1. Len(output) \in Nat \ {0} /\ Len(output') = Len(output) - 1
          /\ \A i \in 1 .. Len(output') : output'[i] = output[i + 1]
      BY <1>1, <2>1
    <3>2. ASSUME NEW i \in 1 .. Len(output'), NEW j \in 1 .. Len(output'),
                 output'[i].msg = "HOLD" /\ output'[i].n = n /\ output'[j].msg = "OPEN"
          PROVE  j < i
      <4>1. /\ i + 1 \in 1 .. Len(output) /\ j + 1 \in 1 .. Len(output)
            /\ output[i + 1].msg = "HOLD" /\ output[i + 1].n = n /\ output[j + 1].msg = "OPEN"
        BY <3>1, <3>2
      <4>2. j + 1 < i + 1
        BY <2>0, <4>1 DEF HoldAfter
      <4> QED
        BY <4>2
    <3> QED
      BY <3>2 DEF HoldAfter
  <2>2. ASSUME NEW m \in Message, output' = Append(output, m),
               m.msg = "OPEN" => client.phase = "running" /\ client'.n = client.n
        PROVE  HoldAfter(output', n)
    <3>1. Len(output) \in Nat /\ Len(output') = Len(output) + 1 /\ output'[Len(output) + 1] = m
          /\ \A i \in 1 .. Len(output) : output'[i] = output[i]
      BY <1>1, <2>2
    <3>2. m.msg = "OPEN" =>
            \A i \in 1 .. Len(output) : ~(output[i].msg = "HOLD" /\ output[i].n = n)
      BY <1>1, <2>2 DEF NumberInv, Below, Limit
    <3> QED
      BY <2>0, <3>1, <3>2 DEF HoldAfter
  <2>3. CASE output' = output
    BY <2>0, <2>3
  <2> QED
    BY <2>1, <2>2, <2>3, OutputSteps DEF OutputStep
<1> QED
  BY <1>3 DEF HoldInv

LEMMA OpenStep ==
  ASSUME TypeInv, TimerInv, PhaseInv, OpenInv, Next
  PROVE  OpenInv'
<1>1. client.open \in SUBSET Nat
  BY DEF TypeInv, Clients
<1>2. CASE SamePlans /\ client'.open \subseteq client.open
  BY <1>1, <1>2 DEF SamePlans, OpenInv
<1>3. CASE client'.open = {}
  BY <1>3 DEF OpenInv
<1>4. ASSUME NEW m \in Message, output' = Append(output, m),
             host'.open = host.open, host'.client_present = host.client_present,
             client'.open \subseteq client.open,
             m.msg = "CLOSE" => m.n \notin client'.open
      PROVE  OpenInv'
  <2>1. PlansSent(m)
    BY <1>4, SendPlans
  <2> QED
    BY <1>1, <1>4, <2>1 DEF PlansSent, OpenInv
<1>5. CASE KeyStep
  BY <1>2, <1>5, QuietPlans DEF KeyStep
<1>6. CASE FeedOpen \/ FeedClose \/ FeedSub \/ FeedHold
  <2>1. UNCHANGED client
    BY <1>6, FeedOpenFacts, FeedCloseFacts, FeedSubFacts, FeedHoldFacts DEF Fed
  <2> QED
    BY <1>2, <1>6, <2>1, ReadPlans
<1>7. CASE \E kind \in Kinds : Start(kind)
  BY <1>3, <1>7, StartFacts
<1>8. CASE OpenChannel
  <2>1. PICK id \in Nat : /\ client'.open = client.open \cup {id}
                          /\ output' = Append(output, Msg("OPEN", id))
    BY <1>8, OpenChannelFacts
  <2>2. PlansSent(Msg("OPEN", id)) /\ Msg("OPEN", id).msg = "OPEN" /\ Msg("OPEN", id).n = id
    BY <1>8, <2>1, OpenChannelFacts, SendPlans, MsgType DEF ClientOnly
  <2> QED
    BY <1>1, <2>1, <2>2 DEF PlansSent, OpenInv
<1>9. CASE SendHold
  <2>1. client.n \in Nat /\ Msg("HOLD", client.n) \in Message /\ Msg("HOLD", client.n).msg = "HOLD"
    BY <1>9, SendHoldFacts, MsgType
  <2> QED
    BY <1>4, <1>9, <2>1, SendHoldFacts DEF ClientOnly
<1>10. CASE EndAckWait
  <2>1. CASE Left
    BY <1>3, <2>1 DEF Left
  <2>2. CASE SameButPhase("teardown") /\ output' = output /\ UNCHANGED host
    BY <1>2, <2>2, QuietPlans DEF SameButPhase
  <2> QED
    BY <1>10, <2>1, <2>2, EndAckWaitFacts DEF ClientOnly
<1>11. CASE EndTeardown
  BY <1>3, <1>11, EndTeardownFacts DEF SameButPhase, Left
<1>12. CASE \E id \in Channel : CloseChannel(id)
  <2>1. PICK id \in Channel : CloseChannel(id)
    BY <1>12
  <2>2. /\ id \in Nat /\ client'.open = client.open \ {id} /\ UNCHANGED host
        /\ output' = Append(output, Msg("CLOSE", id))
    BY <2>1, CloseChannelFacts DEF ClientOnly
  <2>3. Msg("CLOSE", id) \in Message /\ Msg("CLOSE", id).n = id
    BY <2>2, MsgType
  <2> QED
    BY <1>4, <2>2, <2>3
<1>13. CASE KeyTaken
  <2>1. PICK who \in Readers : TakeKey(who)
    BY <1>13 DEF KeyTaken
  <2> QED
    BY <1>2, <2>1, TakeKeyFacts, QuietPlans DEF Took
<1>14. CASE AckTaken
  BY <1>2, <1>14, TakeAckFacts, QuietPlans DEF AckTaken, Took
<1>15. CASE CloseTaken
  <2>1. UNCHANGED host /\ input[1].n \in Nat
    BY <1>15, TakeCloseFacts DEF CloseTaken, Took
  <2>2. CASE client'.open = client.open /\ output' = output
    BY <1>2, <2>1, <2>2, QuietPlans
  <2>3. CASE /\ client'.open = client.open \ {input[1].n}
             /\ output' = Append(output, Msg("CLOSE", input[1].n))
    <3> PICK id \in Nat : id = input[1].n
      BY <2>1
    <3>1. Msg("CLOSE", id) \in Message /\ Msg("CLOSE", id).n = id
      BY MsgType
    <3> QED
      BY <1>4, <2>1, <2>3, <3>1
  <2> QED
    BY <1>15, <2>2, <2>3, TakeCloseFacts DEF CloseTaken
<1>16. CASE Skipped
  BY <1>2, <1>16, QuietPlans DEF Skipped, Took
<1>17. CASE Ended
  BY <1>3, <1>17 DEF Ended, Left
<1>18. CASE ResetSent
  <2>1. Msg("RESET", 0) \in Message /\ Msg("RESET", 0).msg = "RESET"
    BY MsgType
  <2> QED
    BY <1>4, <1>18, <2>1 DEF ResetSent
<1>19. CASE Tick
  BY <1>2, <1>19, TickFacts, QuietPlans
<1> QED
  BY <1>5, <1>6, <1>7, <1>8, <1>9, <1>10, <1>11, <1>12, <1>13, <1>14, <1>15, <1>16, <1>17,
     <1>18, <1>19, NextCases

(* Once no OPEN is on its way, what the client has open is open at the host. *)
LEMMA OpenAtHost ==
  ASSUME TypeInv, OpenInv, NoneOf(output, "OPEN")
  PROVE  client.open \subseteq host.open
BY DEF OpenInv, WillBeOpen, NoneOf

-----------------------------------------------------------------------------
(* The wait for the ACK.                                                    *)

LEMMA Times ==
  ASSUME TypeInv
  PROVE  /\ DEADLINE \in Nat \ {0} /\ ACK_WAIT \in Nat \ {0} /\ LEASE \in Nat \ {0}
         /\ DRAIN_WAIT \in Nat \ {0} /\ ACK_WAIT + LEASE + DRAIN_WAIT <= DEADLINE
         /\ host.left \in 0 .. DEADLINE /\ client.left \in Nat /\ client.ack_age \in Nat
BY BarrierAssumption DEF TypeInv, Hosts, Clients

LEMMA TimesAre ==
  ASSUME TypeInv
  PROVE  DEADLINE \in Nat /\ ACK_WAIT \in Nat /\ host.left \in Nat /\ client.left \in Nat
<1> PICK d \in Nat : d = DEADLINE
  BY BarrierAssumption
<1>1. host.left \in 0 .. d /\ client.left \in Nat
  BY DEF TypeInv, Hosts, Clients
<1> QED
  BY <1>1, BarrierAssumption

(* A deadline that far away has not passed. *)
LEMMA DeadlineAhead ==
  ASSUME NEW h \in Nat, NEW c \in Nat, h + ACK_WAIT >= DEADLINE + c, c > 0
  PROVE  h > 0
<1> PICK a \in Nat, d \in Nat, l \in Nat, w \in Nat :
      a = ACK_WAIT /\ d = DEADLINE /\ l = LEASE /\ w = DRAIN_WAIT
  BY BarrierAssumption
<1>1. a + l + w <= d
  BY BarrierAssumption
<1>2. h + a >= d + c
  OBVIOUS
<1> QED
  BY <1>1, <1>2

\* What AckInv says of the ACK in place i.
AckAt(i) ==
  /\ NoneOf(output, "OPEN")
  /\ client.left > 0 =>
       /\ host.left + ACK_WAIT >= DEADLINE + client.left
       /\ client.open # {} =>
            host.armed /\ \A j \in 1 .. Len(input) : input[j].msg = "KEY" => j < i

LEMMA AckInvIs ==
  AckInv <=> (client.phase = "wait" =>
                \A i \in 1 .. Len(input) :
                  input[i].msg = "ACK" /\ input[i].n = client.n => AckAt(i))
BY DEF AckInv, AckAt

LEMMA NoneOfKept ==
  ASSUME NEW s \in Seq(Message), NEW kind, NoneOf(s, kind)
  PROVE  /\ s # <<>> => NoneOf(Tail(s), kind)
         /\ \A m \in Message : m.msg # kind => NoneOf(Append(s, m), kind)
<1>1. ASSUME s # <<>>
      PROVE  NoneOf(Tail(s), kind)
  <2>1. Len(s) \in Nat \ {0} /\ Len(Tail(s)) = Len(s) - 1
        /\ \A i \in 1 .. Len(Tail(s)) : Tail(s)[i] = s[i + 1]
    BY <1>1
  <2> QED
    BY <2>1 DEF NoneOf
<1>2. ASSUME NEW m \in Message, m.msg # kind
      PROVE  NoneOf(Append(s, m), kind)
  <2>1. Len(s) \in Nat /\ Len(Append(s, m)) = Len(s) + 1 /\ Append(s, m)[Len(s) + 1] = m
        /\ \A i \in 1 .. Len(s) : Append(s, m)[i] = s[i]
    OBVIOUS
  <2> QED
    BY <1>2, <2>1 DEF NoneOf
<1> QED
  BY <1>1, <1>2

(* While the host owes keys to nobody, it writes none. *)
LEMMA KeysHeld ==
  ASSUME TypeInv, KeyStep, host.armed, host.left > 0, host.open # {}
  PROVE  input' = input /\ host'.armed
<1>1. ~ClientGone(host) /\ host.left # 0
  BY Times DEF ClientGone
<1> QED
  BY <1>1 DEF KeyStep

LEMMA AckStep ==
  ASSUME TypeInv, TimerInv, PhaseInv, NumberInv, HoldInv, OpenInv, AckInv, Next
  PROVE  AckInv'
<1>0. output \in Seq(Message) /\ input \in Seq(Message) /\ Len(input) \in Nat
  BY DEF TypeInv
<1>1. CASE client'.phase # "wait"
  BY <1>1 DEF AckInv
\* The input is as it was, or shorter, or the host answered a CLOSE, and the rest is no worse.
<1>2. ASSUME client.phase = "wait", client'.n = client.n,
             NoneOf(output, "OPEN") => NoneOf(output', "OPEN"),
             client'.left = client.left, host'.left = host.left,
             client'.open \subseteq client.open, host'.armed = host.armed,
             \/ input' = input
             \/ input # <<>> /\ input' = Tail(input)
             \/ \E m \in Message : m.msg = "CLOSE" /\ input' = Append(input, m)
      PROVE  AckInv'
  <2>1. ASSUME NEW i \in 1 .. Len(input'), input'[i].msg = "ACK", input'[i].n = client.n
        PROVE  AckAt(i)'
    <3>1. CASE input' = input
      <4>1. AckAt(i)
        BY <1>2, <2>1, <3>1, AckInvIs
      <4> QED
        BY <1>2, <3>1, <4>1 DEF AckAt
    <3>2. CASE input # <<>> /\ input' = Tail(input)
      <4>1. Len(input') = Len(input) - 1 /\ \A j \in 1 .. Len(input') : input'[j] = input[j + 1]
        BY <1>0, <3>2
      <4>2. i + 1 \in 1 .. Len(input) /\ input[i + 1] = input'[i]
        BY <1>0, <4>1
      <4>3. AckAt(i + 1)
        BY <1>2, <2>1, <4>2, AckInvIs
      <4>4. ASSUME \A j \in 1 .. Len(input) : input[j].msg = "KEY" => j < i + 1,
                   NEW j \in 1 .. Len(input'), input'[j].msg = "KEY"
            PROVE  j < i
        <5>1. j + 1 \in 1 .. Len(input) /\ input[j + 1].msg = "KEY"
          BY <1>0, <4>1, <4>4
        <5>2. j + 1 < i + 1
          BY <4>4, <5>1
        <5> QED
          BY <5>2
      <4> QED
        BY <1>2, <4>3, <4>4 DEF AckAt
    <3>3. CASE \E m \in Message : m.msg = "CLOSE" /\ input' = Append(input, m)
      <4>1. PICK m \in Message : m.msg = "CLOSE" /\ input' = Append(input, m)
        BY <3>3
      <4>2. Len(input') = Len(input) + 1 /\ input'[Len(input) + 1] = m
            /\ \A j \in 1 .. Len(input) : input'[j] = input[j]
        BY <1>0, <4>1
      <4>3. i \in 1 .. Len(input) /\ input'[i] = input[i]
        BY <1>0, <2>1, <4>1, <4>2
      <4>4. AckAt(i)
        BY <1>2, <2>1, <4>3, AckInvIs
      <4>5. ASSUME \A j \in 1 .. Len(input) : input[j].msg = "KEY" => j < i,
                   NEW j \in 1 .. Len(input'), input'[j].msg = "KEY"
            PROVE  j < i
        <5>1. j \in 1 .. Len(input) /\ input'[j] = input[j]
          BY <1>0, <4>1, <4>2, <4>5
        <5> QED
          BY <4>5, <5>1
      <4> QED
        BY <1>2, <4>4, <4>5 DEF AckAt
    <3> QED
      BY <1>2, <3>1, <3>2, <3>3
  <2> QED
    BY <1>2, <2>1 DEF AckInv, AckAt
<1>3. CASE KeyStep
  <2>1. UNCHANGED <<client, output>> /\ host'.left = host.left
    BY <1>3 DEF KeyStep
  <2>2. CASE input' = input /\ host'.armed = host.armed
    BY <1>1, <1>2, <2>1, <2>2
  <2>3. CASE KeysFollow(input, input')
    <3>1. ASSUME client.phase = "wait",
                 NEW i \in 1 .. Len(input'), input'[i].msg = "ACK", input'[i].n = client.n
          PROVE  AckAt(i)'
      <4>1. Len(input') \in Nat
        BY <2>3, LenProperties DEF KeysFollow
      <4>2. i \in 1 .. Len(input) /\ input'[i] = input[i]
        BY <1>0, <2>3, <3>1, <4>1 DEF KeysFollow
      <4>3. AckAt(i)
        BY <3>1, <4>2, AckInvIs
      <4>4. CASE client.left > 0 /\ client.open # {}
        <5>1. host.armed /\ host.left > 0
          <6>1. host.left + ACK_WAIT >= DEADLINE + client.left /\ host.armed
            BY <4>3, <4>4 DEF AckAt
          <6>2. client.left > 0
            BY <4>4
          <6>3. host.left > 0
            BY <6>1, <6>2, TimesAre, DeadlineAhead
          <6> QED
            BY <6>1, <6>3
        <5>2. host.open # {}
          BY <4>3, <4>4, OpenAtHost DEF AckAt
        <5>3. input' = input /\ host'.armed
          BY <1>3, <5>1, <5>2, KeysHeld
        <5> QED
          BY <2>1, <4>3, <5>1, <5>3 DEF AckAt
      <4>5. CASE ~(client.left > 0 /\ client.open # {})
        BY <2>1, <4>3, <4>5 DEF AckAt
      <4> QED
        BY <4>4, <4>5
    <3> QED
      BY <2>1, <3>1 DEF AckInv, AckAt
  <2> QED
    BY <1>3, <2>2, <2>3 DEF KeyStep
<1>4. CASE FeedOpen \/ FeedClose
  <2>1. /\ UNCHANGED client /\ SameBarrier /\ output # <<>> /\ output' = Tail(output)
        /\ output[1].n \in Nat
        /\ input' = input \/ input' = Append(input, Msg("CLOSE", output[1].n))
    <3>1. CASE FeedOpen
      BY <3>1, FeedOpenFacts DEF Fed
    <3>2. CASE FeedClose
      BY <3>2, FeedCloseFacts DEF Fed
    <3> QED
      BY <1>4, <3>1, <3>2
  <2>2. Msg("CLOSE", output[1].n) \in Message /\ Msg("CLOSE", output[1].n).msg = "CLOSE"
    BY <2>1, MsgType
  <2>3. NoneOf(output, "OPEN") => NoneOf(output', "OPEN")
    BY <1>0, <2>1, NoneOfKept
  <2> QED
    BY <1>1, <1>2, <2>1, <2>2, <2>3 DEF SameBarrier
<1>5. CASE FeedSub
  <2>1. UNCHANGED client /\ SameBarrier /\ output # <<>> /\ output' = Tail(output)
        /\ input' = input
    BY <1>5, FeedSubFacts DEF Fed
  <2>2. NoneOf(output, "OPEN") => NoneOf(output', "OPEN")
    BY <1>0, <2>1, NoneOfKept
  <2> QED
    BY <1>1, <1>2, <2>1, <2>2 DEF SameBarrier
<1>6. CASE FeedHold
  <2>1. /\ UNCHANGED client /\ host'.armed /\ host'.left = DEADLINE
        /\ output # <<>> /\ output' = Tail(output) /\ output[1].n \in Nat
        /\ output[1].msg = "HOLD" /\ input' = Append(input, Msg("ACK", output[1].n))
        /\ Len(output) \in Nat \ {0}
        /\ Len(output') = Len(output) - 1
        /\ \A i \in 1 .. Len(output') : output'[i] = output[i + 1]
    BY <1>6, FeedHoldFacts DEF Fed
  <2> PICK m : m = Msg("ACK", output[1].n)
    OBVIOUS
  <2>2. m \in Message /\ m.n = output[1].n /\ m.msg = "ACK"
    BY <2>1, MsgType
  <2>3. Len(input') = Len(input) + 1 /\ input'[Len(input) + 1] = m
        /\ \A j \in 1 .. Len(input) : input'[j] = input[j]
    BY <1>0, <2>1, <2>2
  <2>4. ASSUME client.phase = "wait",
               NEW i \in 1 .. Len(input'), input'[i].msg = "ACK", input'[i].n = client.n
        PROVE  AckAt(i)'
    <3>1. host'.left + ACK_WAIT >= DEADLINE + client'.left
      <4>1. client.left <= ACK_WAIT
        BY <2>4 DEF PhaseInv
      <4>2. client'.left = client.left /\ host'.left = DEADLINE
        BY <2>1
      <4>3. DEADLINE + ACK_WAIT >= DEADLINE + client.left
        <5> PICK a \in Nat, c \in Nat, d \in Nat : a = ACK_WAIT /\ c = client.left /\ d = DEADLINE
          BY TimesAre
        <5>1. c <= a
          BY <4>1
        <5>2. d + a >= d + c
          BY <5>1
        <5> QED
          BY <5>2
      <4> QED
        BY <4>2, <4>3
    <3>2. CASE i \in 1 .. Len(input)
      <4>1. AckAt(i)
        BY <2>3, <2>4, <3>2, AckInvIs
      <4>2. NoneOf(output', "OPEN")
        BY <1>0, <2>1, <4>1, NoneOfKept DEF AckAt
      <4>3. client.left > 0 /\ client.open # {} =>
              \A j \in 1 .. Len(input') : input'[j].msg = "KEY" => j < i
        BY <1>0, <2>2, <2>3, <4>1 DEF AckAt
      <4> QED
        BY <2>1, <3>1, <4>2, <4>3 DEF AckAt
    <3>3. CASE i = Len(input) + 1
      <4>1. output[1].n = client.n
        BY <2>2, <2>3, <2>4, <3>3
      <4>2. NoneOf(output', "OPEN")
        <5>1. HoldAfter(output, client.n)
          BY <2>4 DEF HoldInv
        <5>2. ASSUME NEW j \in 1 .. Len(output'), output'[j].msg = "OPEN"
              PROVE  FALSE
          <6>1. j + 1 \in 1 .. Len(output) /\ 1 \in 1 .. Len(output)
                /\ output[j + 1].msg = "OPEN"
            BY <2>1, <5>2
          <6>2. j + 1 < 1
            BY <2>1, <4>1, <5>1, <6>1 DEF HoldAfter
          <6> QED
            BY <6>2
        <5> QED
          BY <5>2 DEF NoneOf
      <4>3. \A j \in 1 .. Len(input') : input'[j].msg = "KEY" => j < i
        BY <1>0, <2>2, <2>3, <3>3
      <4> QED
        BY <2>1, <3>1, <4>2, <4>3 DEF AckAt
    <3> QED
      BY <1>0, <2>3, <2>4, <3>2, <3>3
  <2> QED
    BY <2>1, <2>4 DEF AckInv, AckAt
<1>7. CASE SendHold
  <2>1. client.phase = "running" /\ client'.n = client.n /\ input' = input
    BY <1>7, SendHoldFacts DEF ClientOnly
  <2>2. \A i \in 1 .. Len(input) : input[i].msg = "ACK" => input[i].n # client.n
    <3>1. \A i \in 1 .. Len(input) : input[i].msg = "ACK" => input[i].n < client.n
      BY <2>1 DEF NumberInv, Below, Limit
    <3>2. client.n \in Nat
      BY DEF TypeInv, Clients
    <3> QED
      BY <3>1, <3>2
  <2> QED
    BY <2>1, <2>2 DEF AckInv
<1>8. CASE KeyTaken
  <2>1. PICK who \in Readers : TakeKey(who)
    BY <1>8 DEF KeyTaken
  <2>2. UNCHANGED <<client, host, output>> /\ input # <<>> /\ input' = Tail(input)
    BY <2>1, TakeKeyFacts DEF Took
  <2> QED
    BY <1>1, <1>2, <2>2
<1>9. CASE AckTaken
  <2>1. /\ UNCHANGED <<host, output>> /\ input # <<>> /\ input' = Tail(input)
        /\ client'.phase = client.phase /\ client'.n = client.n /\ client'.open = client.open
        /\ client'.left = client.left
    BY <1>9, TakeAckFacts DEF AckTaken, Took
  <2> QED
    BY <1>1, <1>2, <2>1
<1>10. CASE CloseTaken
  <2>1. /\ UNCHANGED host /\ input # <<>> /\ input' = Tail(input) /\ input[1].n \in Nat
        /\ client'.phase = client.phase /\ client'.n = client.n
        /\ client'.left = client.left /\ client'.open \subseteq client.open
        /\ output' = output \/ output' = Append(output, Msg("CLOSE", input[1].n))
    BY <1>10, TakeCloseFacts DEF CloseTaken, Took, SameButChannels
  <2>2. NoneOf(output, "OPEN") => NoneOf(output', "OPEN")
    <3> PICK m : m = Msg("CLOSE", input[1].n)
      OBVIOUS
    <3>1. m \in Message /\ m.msg # "OPEN"
      BY <2>1, MsgType
    <3>2. output' = output \/ output' = Append(output, m)
      BY <2>1
    <3> QED
      BY <1>0, <3>1, <3>2, NoneOfKept
  <2> QED
    BY <1>1, <1>2, <2>1, <2>2
<1>11. CASE Tick
  <2>1. /\ UNCHANGED <<output, input>> /\ client'.phase = client.phase /\ client'.n = client.n
        /\ client'.open = client.open /\ host'.armed = host.armed
        /\ host'.left = Down(host.left) /\ client'.left = Down(client.left)
    BY <1>11, TickFacts
  <2>2. client'.left > 0 => client.left > 0
    BY <2>1, Times DEF Down
  <2>3. client'.left > 0 /\ host.left + ACK_WAIT >= DEADLINE + client.left
          => host'.left + ACK_WAIT >= DEADLINE + client'.left
    BY <2>1, Times DEF Down
  <2> QED
    BY <2>1, <2>2, <2>3 DEF AckInv
<1>12. CASE OpenChannel \/ EndAckWait \/ EndTeardown
  <2>1. client'.phase # "wait"
    BY <1>12, OpenChannelFacts, EndAckWaitFacts, EndTeardownFacts
    DEF SameButChannels, SameButPhase, Left
  <2> QED
    BY <1>1, <2>1
<1>13. CASE \E id \in Channel : CloseChannel(id)
  <2>1. PICK id \in Channel : CloseChannel(id)
    BY <1>13
  <2> QED
    BY <1>1, <2>1, CloseChannelFacts DEF SameButChannels
<1>14. CASE Skipped \/ Ended \/ ResetSent
  BY <1>1, <1>14 DEF Skipped, Ended, ResetSent, Left
<1>15. CASE \E kind \in Kinds : Start(kind)
  BY <1>1, <1>15, StartFacts
<1> QED
  BY <1>3, <1>4, <1>5, <1>6, <1>7, <1>8, <1>9, <1>10, <1>11, <1>13, <1>14, <1>12, <1>15,
     NextCases

-----------------------------------------------------------------------------
(* From the ACK to the end of the drain.                                    *)

(* While the client counts on its ACK, the deadline has not passed. *)
LEMMA CoveredIsAhead ==
  ASSUME TypeInv, PhaseInv, CoverInv, Covered
  PROVE  host.left > 0
<1> PICK a \in Nat, d \in Nat, l \in Nat, w \in Nat :
      a = ACK_WAIT /\ d = DEADLINE /\ l = LEASE /\ w = DRAIN_WAIT
  BY BarrierAssumption
<1> PICK h \in Nat, c \in Nat, g \in Nat : h = host.left /\ c = client.left /\ g = client.ack_age
  BY TimesAre DEF TypeInv, Clients
<1>1. a + l + w <= d /\ w > 0
  BY BarrierAssumption
<1>2. CASE client.phase = "drain"
  <2>1. h >= c /\ c > 0
    BY <1>2 DEF CoverInv, DeadlineBehind, Covered
  <2> QED
    BY <2>1
<1>3. CASE client.phase # "drain"
  <2>1. h + a + g >= d
    BY <1>3 DEF CoverInv, DeadlineBehind
  <2>2. g <= l
    BY <1>3 DEF Covered
  <2>3. h > 0
    BY <1>1, <2>1, <2>2
  <2> QED
    BY <2>3
<1> QED
  BY <1>2, <1>3

(* Answers stay where they are when more is written behind them. *)
LEMMA AnswersStay ==
  ASSUME NEW s \in Seq(Message), NEW r \in Seq(Message), KeysFollow(s, r), NEW id, Answers(s, id)
  PROVE  Answers(r, id)
<1>0. Len(s) \in Nat /\ Len(r) \in Nat
  OBVIOUS
<1>1. PICK j \in 1 .. Len(s) : /\ s[j].msg = "CLOSE" /\ s[j].n = id
                               /\ \A i \in 1 .. Len(s) : s[i].msg = "KEY" => j < i
  BY DEF Answers
<1>2. j \in 1 .. Len(r) /\ r[j] = s[j]
  BY <1>0 DEF KeysFollow
<1>3. ASSUME NEW i \in 1 .. Len(r), r[i].msg = "KEY"
      PROVE  j < i
  <2>1. CASE i <= Len(s)
    <3>1. i \in 1 .. Len(s) /\ r[i] = s[i]
      BY <1>0, <2>1 DEF KeysFollow
    <3> QED
      BY <1>1, <1>3, <3>1
  <2>2. CASE i > Len(s)
    BY <1>0, <2>2
  <2> QED
    BY <1>0, <2>1, <2>2
<1> QED
  BY <1>1, <1>2, <1>3 DEF Answers

LEMMA AnswersAppend ==
  ASSUME NEW s \in Seq(Message), NEW m \in Message, m.msg # "KEY", NEW id
  PROVE  /\ Answers(s, id) => Answers(Append(s, m), id)
         /\ m.msg = "CLOSE" /\ m.n = id /\ NoneOf(s, "KEY") => Answers(Append(s, m), id)
<1> PICK r : r = Append(s, m)
  OBVIOUS
<1>1. Len(s) \in Nat /\ Len(r) = Len(s) + 1 /\ r[Len(s) + 1] = m
      /\ \A i \in 1 .. Len(s) : r[i] = s[i]
  OBVIOUS
<1>2. ASSUME Answers(s, id)
      PROVE  Answers(r, id)
  <2>1. PICK j \in 1 .. Len(s) : /\ s[j].msg = "CLOSE" /\ s[j].n = id
                                 /\ \A i \in 1 .. Len(s) : s[i].msg = "KEY" => j < i
    BY <1>2 DEF Answers
  <2>2. j \in 1 .. Len(r) /\ r[j] = s[j]
    BY <1>1
  <2>3. ASSUME NEW i \in 1 .. Len(r), r[i].msg = "KEY"
        PROVE  j < i
    <3>1. i \in 1 .. Len(s) /\ r[i] = s[i]
      BY <1>1, <2>3
    <3> QED
      BY <2>1, <2>3, <3>1
  <2> QED
    BY <2>1, <2>2, <2>3 DEF Answers
<1>3. ASSUME m.msg = "CLOSE", m.n = id, NoneOf(s, "KEY")
      PROVE  Answers(r, id)
  <2>1. \A i \in 1 .. Len(r) : r[i].msg # "KEY"
    BY <1>1, <1>3 DEF NoneOf
  <2>2. Len(r) \in 1 .. Len(r) /\ r[Len(r)] = m
    BY <1>1
  <2> QED
    BY <1>3, <2>1, <2>2 DEF Answers
<1> QED
  BY <1>2, <1>3

(* What is read before an answer is no key. *)
LEMMA AnswersTail ==
  ASSUME NEW s \in Seq(Message), s # <<>>, NEW id, Answers(s, id)
  PROVE  /\ s[1].msg # "KEY"
         /\ ~(s[1].msg = "CLOSE" /\ s[1].n = id) => Answers(Tail(s), id)
<1> PICK r : r = Tail(s)
  OBVIOUS
<1>1. Len(s) \in Nat \ {0} /\ Len(r) = Len(s) - 1 /\ \A i \in 1 .. Len(r) : r[i] = s[i + 1]
  OBVIOUS
<1>2. PICK j \in 1 .. Len(s) : /\ s[j].msg = "CLOSE" /\ s[j].n = id
                               /\ \A i \in 1 .. Len(s) : s[i].msg = "KEY" => j < i
  BY DEF Answers
<1>3. s[1].msg # "KEY"
  <2>1. 1 \in 1 .. Len(s) /\ ~(j < 1)
    BY <1>1
  <2> QED
    BY <1>2, <2>1
<1>4. ASSUME ~(s[1].msg = "CLOSE" /\ s[1].n = id)
      PROVE  Answers(r, id)
  <2>1. j # 1
    BY <1>2, <1>4
  <2>2. j - 1 \in 1 .. Len(r) /\ r[j - 1] = s[j]
    BY <1>1, <2>1
  <2>3. ASSUME NEW i \in 1 .. Len(r), r[i].msg = "KEY"
        PROVE  j - 1 < i
    <3>1. i + 1 \in 1 .. Len(s) /\ s[i + 1].msg = "KEY"
      BY <1>1, <2>3
    <3>2. j < i + 1
      BY <1>2, <3>1
    <3> QED
      BY <3>2
  <2> QED
    BY <1>2, <2>2, <2>3 DEF Answers
<1> QED
  BY <1>3, <1>4

(* A look at the barrier does not let a key out before an answer. *)
LEMMA CoverWhenKeys ==
  ASSUME TypeInv, PhaseInv, CoverInv, Covered, KeyStep
  PROVE  CoverInv'
<1>0. /\ UNCHANGED <<client, output>> /\ host'.left = host.left /\ host'.open = host.open
      /\ input \in Seq(Message) /\ input' \in Seq(Message)
  BY DEF KeyStep, TypeInv
<1>1. NoneOf(output, "OPEN")' /\ DeadlineBehind'
  BY <1>0 DEF CoverInv, DeadlineBehind
<1>2. CASE input' = input /\ host'.armed = host.armed
  <2>1. ArmedWhileOpen'
    BY <1>0, <1>2 DEF CoverInv, ArmedWhileOpen
  <2>2. AnsweredFirst'
    BY <1>0, <1>2 DEF CoverInv, AnsweredFirst
  <2> QED
    BY <1>1, <2>1, <2>2 DEF CoverInv
<1>3. CASE (client.open \cup client.pending) \cap host.open # {}
  <2>1. host.armed /\ host.open # {}
    BY <1>3 DEF CoverInv, ArmedWhileOpen
  <2>2. input' = input /\ host'.armed
    BY <2>1, CoveredIsAhead, KeysHeld
  <2> QED
    BY <1>2, <2>1, <2>2
<1>4. CASE KeysFollow(input, input') /\ (client.open \cup client.pending) \cap host.open = {}
  <2>1. ArmedWhileOpen'
    BY <1>0, <1>4 DEF ArmedWhileOpen
  <2>2. AnsweredFirst'
    <3>1. ASSUME NEW id \in client.pending
          PROVE  Answers(input', id)
      <4>1. Answers(input, id)
        BY <1>4, <3>1 DEF CoverInv, AnsweredFirst
      <4> QED
        BY <1>0, <1>4, <4>1, AnswersStay
    <3> QED
      BY <1>0, <3>1 DEF AnsweredFirst
  <2> QED
    BY <1>1, <2>1, <2>2 DEF CoverInv
<1> QED
  BY <1>2, <1>3, <1>4 DEF KeyStep

(* Nor does the host when it reads. *)
LEMMA CoverWhenFed ==
  ASSUME TypeInv, CoverInv, Covered, FeedOpen \/ FeedClose \/ FeedSub \/ FeedHold
  PROVE  CoverInv'
<1>0. /\ output \in Seq(Message) /\ input \in Seq(Message)
      /\ \E kind \in {"OPEN", "CLOSE", "SUB", "UNSUB", "RESET", "HOLD"} : Fed(kind)
  BY FeedOpenFacts, FeedCloseFacts, FeedSubFacts, FeedHoldFacts DEF TypeInv
<1>1. UNCHANGED client /\ output # <<>> /\ output' = Tail(output)
  BY <1>0 DEF Fed
<1>2. NoneOf(output', "OPEN")
  BY <1>0, <1>1, NoneOfKept DEF CoverInv
<1>3. NoneOf(output, "OPEN") /\ DeadlineBehind /\ ArmedWhileOpen /\ AnsweredFirst
  BY DEF CoverInv
<1>4. CASE FeedOpen
  <2>1. Fed("OPEN")
    BY <1>4, FeedOpenFacts
  <2>2. 1 \in 1 .. Len(output) /\ output[1].msg = "OPEN"
    BY <2>1 DEF Fed
  <2> QED
    BY <1>3, <2>2 DEF NoneOf
<1>5. CASE FeedClose
  <2> PICK x \in Nat : x = output[1].n
    BY <1>5, FeedCloseFacts
  <2> PICK m : m = Msg("CLOSE", x)
    OBVIOUS
  <2>1. m \in Message /\ m.msg = "CLOSE" /\ m.n = x
    BY MsgType
  <2>2. /\ SameBarrier /\ host'.open = host.open \ {x}
        /\ \/ x \in host.open /\ input' = Append(input, m)
           \/ x \notin host.open /\ input' = input
    BY <1>5, FeedCloseFacts
  <2>3. DeadlineBehind'
    BY <1>1, <1>3, <2>2 DEF DeadlineBehind, SameBarrier
  <2>4. NoneOf(input, "KEY") => NoneOf(input', "KEY")
    <3>1. m \in Message /\ m.msg # "KEY"
      BY <2>1
    <3>2. input' = input \/ input' = Append(input, m)
      BY <2>2
    <3> QED
      BY <1>0, <3>1, <3>2, NoneOfKept
  <2>5. ArmedWhileOpen'
    BY <1>1, <1>3, <2>2, <2>4 DEF ArmedWhileOpen, SameBarrier
  <2>6. ASSUME NEW id \in client.pending
        PROVE  id \in host'.open \/ Answers(input', id)
    <3>1. CASE id \in host.open /\ id # x
      BY <2>2, <3>1
    <3>2. CASE id \in host.open /\ id = x
      <4>1. NoneOf(input, "KEY")
        BY <1>3, <2>6, <3>2 DEF ArmedWhileOpen
      <4>2. input' = Append(input, m)
        BY <2>2, <3>2
      <4> QED
        BY <1>0, <2>1, <3>2, <4>1, <4>2, AnswersAppend
    <3>3. CASE id \notin host.open
      <4>1. Answers(input, id)
        BY <1>3, <2>6, <3>3 DEF AnsweredFirst
      <4>2. input' = input \/ input' = Append(input, m)
        BY <2>2
      <4>3. m.msg # "KEY"
        BY <2>1
      <4> QED
        BY <1>0, <2>1, <4>1, <4>2, <4>3, AnswersAppend
    <3> QED
      BY <3>1, <3>2, <3>3
  <2>7. AnsweredFirst'
    BY <1>1, <2>6 DEF AnsweredFirst
  <2> QED
    BY <1>2, <2>3, <2>5, <2>7 DEF CoverInv
<1>6. CASE FeedSub
  <2>1. SameBarrier /\ host'.open = host.open /\ input' = input
    BY <1>6, FeedSubFacts
  <2>2. DeadlineBehind' /\ ArmedWhileOpen' /\ AnsweredFirst'
    BY <1>1, <1>3, <2>1 DEF DeadlineBehind, ArmedWhileOpen, AnsweredFirst, SameBarrier
  <2> QED
    BY <1>2, <2>2 DEF CoverInv
<1>7. CASE FeedHold
  <2> PICK m : m = Msg("ACK", output[1].n)
    OBVIOUS
  <2>1. /\ host'.open = host.open /\ host'.armed /\ host'.left = DEADLINE
        /\ input' = Append(input, m) /\ m \in Message /\ m.msg # "KEY"
    BY <1>7, FeedHoldFacts, MsgType
  <2>2. DeadlineBehind'
    <3>1. PICK a \in Nat, d \in Nat, h \in Nat, c \in Nat, g \in Nat :
            /\ a = ACK_WAIT /\ d = DEADLINE /\ h = host.left
            /\ c = client.left /\ g = client.ack_age
      BY TimesAre DEF TypeInv, Clients
    <3>2. d + a + g >= d /\ h <= d
      BY <3>1, Times
    <3>3. host'.left = d
      BY <2>1, <3>1
    <3>4. client.phase = "drain" => d >= c
      <4>1. client.phase = "drain" => h >= c
        BY <1>3, <3>1 DEF DeadlineBehind
      <4> QED
        BY <3>2, <4>1
    <3> QED
      BY <1>1, <3>1, <3>2, <3>3, <3>4 DEF DeadlineBehind
  <2>3. NoneOf(input, "KEY") => NoneOf(input', "KEY")
    BY <1>0, <2>1, NoneOfKept
  <2>4. ArmedWhileOpen'
    BY <1>1, <1>3, <2>1, <2>3 DEF ArmedWhileOpen
  <2>5. ASSUME NEW id \in client.pending
        PROVE  id \in host'.open \/ Answers(input', id)
    BY <1>0, <1>3, <2>1, <2>5, AnswersAppend DEF AnsweredFirst
  <2>6. AnsweredFirst'
    BY <1>1, <2>5 DEF AnsweredFirst
  <2> QED
    BY <1>2, <2>2, <2>4, <2>6 DEF CoverInv
<1> QED
  BY <1>4, <1>5, <1>6, <1>7

(* Reading: the drain waits for CLOSEs, and none is read before its turn. *)
LEMMA CoverWhenTaken ==
  ASSUME TypeInv, PhaseInv, AckInv, CoverInv, KeyTaken \/ AckTaken \/ CloseTaken, Covered'
  PROVE  CoverInv'
<1>0. output \in Seq(Message) /\ input \in Seq(Message) /\ client \in Clients
  BY DEF TypeInv
<1>1. UNCHANGED host /\ input # <<>> /\ input' = Tail(input) /\ Len(input) \in Nat \ {0}
  <2>1. ASSUME NEW kind, Took(kind)
        PROVE  UNCHANGED host /\ input # <<>> /\ input' = Tail(input) /\ Len(input) \in Nat \ {0}
    BY <2>1 DEF Took
  <2> QED
    BY <2>1, TakeKeyFacts, TakeAckFacts, TakeCloseFacts DEF KeyTaken, AckTaken, CloseTaken
<1>2. NoneOf(input, "KEY") => NoneOf(input', "KEY")
  BY <1>0, <1>1, NoneOfKept
<1>3. CASE KeyTaken
  <2>1. UNCHANGED <<client, output>> /\ input[1].msg = "KEY"
    BY <1>3, TakeKeyFacts DEF KeyTaken, Took
  <2>2. Covered
    BY <2>1 DEF Covered
  <2>3. NoneOf(output, "OPEN") /\ DeadlineBehind /\ ArmedWhileOpen /\ AnsweredFirst
    BY <2>2 DEF CoverInv
  <2>4. DeadlineBehind' /\ ArmedWhileOpen'
    BY <1>1, <1>2, <2>1, <2>3 DEF DeadlineBehind, ArmedWhileOpen
  <2>5. \A id \in client.pending : ~Answers(input, id)
    BY <1>0, <1>1, <2>1, AnswersTail
  <2>6. AnsweredFirst'
    BY <1>1, <2>1, <2>3, <2>5 DEF AnsweredFirst
  <2> QED
    BY <2>1, <2>3, <2>4, <2>6 DEF CoverInv
<1>4. CASE AckTaken
  <2>1. /\ UNCHANGED output /\ input[1].msg = "ACK"
        /\ client'.phase = client.phase /\ client'.kind = client.kind /\ client'.n = client.n
        /\ client'.open = client.open /\ client'.pending = client.pending
        /\ client'.left = client.left /\ client'.ack_age = 0
        /\ client'.misled = (client.misled \/ input[1].n # client.n)
    BY <1>4, TakeAckFacts DEF AckTaken, Took
  <2>2. ~client.misled /\ input[1].n = client.n /\ client.kind = "rpc"
    BY <2>1 DEF Covered
  <2>3. CASE client.phase = "drain"
    <3>1. Covered
      BY <2>1, <2>2, <2>3 DEF Covered, PhaseInv
    <3>2. NoneOf(output, "OPEN") /\ DeadlineBehind /\ ArmedWhileOpen /\ AnsweredFirst
      BY <3>1 DEF CoverInv
    <3>3. DeadlineBehind'
      BY <1>1, <2>1, <2>3, <3>2 DEF DeadlineBehind
    <3>4. ArmedWhileOpen'
      BY <1>1, <1>2, <2>1, <3>2 DEF ArmedWhileOpen
    <3>5. \A id \in client.pending : Answers(input, id) => Answers(input', id)
      BY <1>0, <1>1, <2>1, AnswersTail
    <3>6. AnsweredFirst'
      BY <1>1, <2>1, <3>2, <3>5 DEF AnsweredFirst
    <3> QED
      BY <2>1, <3>2, <3>3, <3>4, <3>6 DEF CoverInv
  <2>4. CASE client.phase # "drain"
    <3>1. client.phase = "wait" /\ client.left > 0
      <4>1. client.phase \in {"wait", "teardown", "drain"}
        BY <2>1 DEF Covered
      <4>2. client.phase \in {"running", "drain"} \/ (client.phase = "wait" /\ client.left > 0)
        BY <1>4 DEF AckTaken, MayRead
      <4> QED
        BY <2>4, <4>1, <4>2
    <3>2. AckAt(1)
      BY <1>1, <2>1, <2>2, <3>1, AckInvIs
    <3>3. NoneOf(output, "OPEN") /\ host.left + ACK_WAIT >= DEADLINE + client.left
      BY <3>1, <3>2 DEF AckAt
    <3>4. DeadlineBehind'
      <4>1. PICK a \in Nat, d \in Nat, h \in Nat, c \in Nat :
              a = ACK_WAIT /\ d = DEADLINE /\ h = host.left /\ c = client.left
        BY TimesAre
      <4>2. h + a >= d + c
        BY <3>3, <4>1
      <4>3. h + a + 0 >= d
        BY <4>2
      <4> QED
        BY <1>1, <2>1, <2>4, <4>1, <4>3 DEF DeadlineBehind
    <3>5. client.pending = {}
      BY <3>1 DEF PhaseInv
    <3>6. ArmedWhileOpen'
      <4>1. ASSUME client.open # {}
            PROVE  host.armed /\ NoneOf(input, "KEY")
        <5>1. host.armed /\ \A j \in 1 .. Len(input) : input[j].msg = "KEY" => j < 1
          BY <3>1, <3>2, <4>1 DEF AckAt
        <5>2. \A j \in 1 .. Len(input) : ~(j < 1)
          BY <1>1
        <5> QED
          BY <5>1, <5>2 DEF NoneOf
      <4> QED
        BY <1>1, <1>2, <2>1, <3>5, <4>1 DEF ArmedWhileOpen
    <3> QED
      BY <2>1, <3>3, <3>4, <3>5, <3>6 DEF CoverInv, AnsweredFirst
  <2> QED
    BY <2>3, <2>4
<1>5. CASE CloseTaken
  <2> PICK x \in Nat : x = input[1].n
    BY <1>5, TakeCloseFacts DEF CloseTaken
  <2>1. SameButChannels /\ input[1].msg = "CLOSE"
    BY <1>5, TakeCloseFacts DEF CloseTaken, Took
  <2>2. Covered
    BY <2>1 DEF Covered, SameButChannels
  <2>3. NoneOf(output, "OPEN") /\ DeadlineBehind /\ ArmedWhileOpen /\ AnsweredFirst
    BY <2>2 DEF CoverInv
  <2>4. DeadlineBehind'
    BY <1>1, <2>1, <2>3 DEF DeadlineBehind, SameButChannels
  <2>5. /\ client'.open \subseteq client.open /\ client'.pending \subseteq client.pending
        /\ NoneOf(output', "OPEN")
        /\ x \in client.pending => x \notin client'.pending
    <3>1. CASE client'.pending = client.pending \ {x} /\ client'.open = client.open
               /\ output' = output
      BY <2>3, <3>1
    <3>2. CASE /\ x \in client.open /\ client'.open = client.open \ {x}
               /\ client'.pending = client.pending /\ output' = Append(output, Msg("CLOSE", x))
      <4>1. client.pending = {}
        <5>1. client.phase \in {"running", "wait", "drain"}
          BY <1>5 DEF CloseTaken, MayRead
        <5>2. client.phase # "drain"
          BY <3>2 DEF PhaseInv
        <5> QED
          BY <5>1, <5>2 DEF PhaseInv
      <4> PICK m : m = Msg("CLOSE", x)
        OBVIOUS
      <4>2. m \in Message /\ m.msg # "OPEN" /\ output' = Append(output, m)
        BY <3>2, MsgType
      <4>3. NoneOf(output', "OPEN")
        BY <1>0, <2>3, <4>2, NoneOfKept
      <4> QED
        BY <3>2, <4>1, <4>3
    <3>3. CASE x \notin client.pending /\ UNCHANGED <<client, output>>
      BY <2>3, <3>3
    <3> QED
      BY <1>5, <3>1, <3>2, <3>3, TakeCloseFacts DEF CloseTaken
  <2>6. ArmedWhileOpen'
    BY <1>1, <1>2, <2>3, <2>5 DEF ArmedWhileOpen
  <2>7. ASSUME NEW id \in client'.pending
        PROVE  id \in host.open \/ Answers(input', id)
    <3>1. id \in client.pending /\ id # x
      BY <2>5, <2>7
    <3>2. Answers(input, id) => Answers(input', id)
      BY <1>0, <1>1, <3>1, AnswersTail
    <3> QED
      BY <2>3, <3>1, <3>2 DEF AnsweredFirst
  <2>8. AnsweredFirst'
    BY <1>1, <2>7 DEF AnsweredFirst
  <2> QED
    BY <2>4, <2>5, <2>6, <2>8 DEF CoverInv
<1> QED
  BY <1>3, <1>4, <1>5

LEMMA CoverWhenTimePasses ==
  ASSUME TypeInv, CoverInv, Tick, Covered'
  PROVE  CoverInv'
<1>1. /\ UNCHANGED <<output, input>> /\ client'.phase = client.phase /\ client'.kind = client.kind
      /\ client'.open = client.open /\ client'.pending = client.pending
      /\ client'.ack_seen = client.ack_seen /\ client'.misled = client.misled
      /\ host'.armed = host.armed /\ host'.open = host.open
      /\ host'.left = Down(host.left) /\ client'.left = Down(client.left)
  BY TickFacts
<1>2. PICK a \in Nat, d \in Nat, l \in Nat, h \in Nat, c \in Nat, g \in Nat :
        /\ a = ACK_WAIT /\ d = DEADLINE /\ l = LEASE
        /\ h = host.left /\ c = client.left /\ g = client.ack_age
  BY TimesAre, BarrierAssumption DEF TypeInv, Clients
<1>3. client.ack_seen /\ (client'.ack_age = g + 1 \/ (g > l /\ client'.ack_age = g))
  BY <1>1, <1>2, TickFacts DEF Covered
<1>4. CASE client.phase = "drain"
  <2>1. Down(c) > 0
    BY <1>1, <1>2, <1>4 DEF Covered
  <2>2. c > 0 /\ Down(c) = c - 1
    BY <2>1 DEF Down
  <2>3. Covered
    BY <1>1, <1>2, <1>4, <2>2 DEF Covered
  <2>4. NoneOf(output, "OPEN") /\ h >= c /\ ArmedWhileOpen /\ AnsweredFirst
    BY <1>2, <1>4, <2>3 DEF CoverInv, DeadlineBehind
  <2>5. Down(h) >= Down(c)
    BY <2>2, <2>4 DEF Down
  <2>6. DeadlineBehind'
    BY <1>1, <1>2, <1>4, <2>5 DEF DeadlineBehind
  <2> QED
    BY <1>1, <2>4, <2>6 DEF CoverInv, ArmedWhileOpen, AnsweredFirst
<1>5. CASE client.phase # "drain"
  <2>1. client.phase \in {"wait", "teardown"} /\ client'.ack_age <= l
    BY <1>1, <1>2, <1>5 DEF Covered
  <2>2. client'.ack_age = g + 1 /\ g <= l
    BY <1>3, <2>1
  <2>3. Covered
    BY <1>1, <1>2, <2>1, <2>2 DEF Covered
  <2>4. NoneOf(output, "OPEN") /\ h + a + g >= d /\ ArmedWhileOpen /\ AnsweredFirst
    BY <1>2, <1>5, <2>3 DEF CoverInv, DeadlineBehind
  <2>5. Down(h) + a + (g + 1) >= d
    BY <2>4 DEF Down
  <2>6. DeadlineBehind'
    BY <1>1, <1>2, <1>5, <2>2, <2>5 DEF DeadlineBehind
  <2> QED
    BY <1>1, <2>4, <2>6 DEF CoverInv, ArmedWhileOpen, AnsweredFirst
<1> QED
  BY <1>4, <1>5

LEMMA CoverStep ==
  ASSUME TypeInv, TimerInv, PhaseInv, OpenInv, AckInv, CoverInv, Next
  PROVE  CoverInv'
<1>0. output \in Seq(Message) /\ input \in Seq(Message) /\ client \in Clients
  BY DEF TypeInv
<1>1. SUFFICES ASSUME Covered'
               PROVE  CoverInv'
  BY DEF CoverInv
<1>2. CASE KeyStep
  <2>1. Covered
    BY <1>1, <1>2 DEF KeyStep, Covered
  <2> QED
    BY <1>2, <2>1, CoverWhenKeys
<1>3. CASE FeedOpen \/ FeedClose \/ FeedSub \/ FeedHold
  <2>1. UNCHANGED client
    BY <1>3, FeedOpenFacts, FeedCloseFacts, FeedSubFacts, FeedHoldFacts DEF Fed
  <2>2. Covered
    BY <1>1, <2>1 DEF Covered
  <2> QED
    BY <1>3, <2>2, CoverWhenFed
<1>4. CASE \E kind \in Kinds : Start(kind)
  <2>1. client'.phase = "running"
    BY <1>4, StartFacts
  <2> QED
    BY <1>1, <2>1 DEF Covered
<1>5. CASE OpenChannel
  <2>1. client'.phase = "running"
    BY <1>5, OpenChannelFacts DEF SameButChannels
  <2> QED
    BY <1>1, <2>1 DEF Covered
<1>6. CASE SendHold
  <2>1. client.phase = "running" /\ client'.misled = client.misled
        /\ (client'.ack_seen => client.ack_seen)
    BY <1>6, SendHoldFacts
  <2>2. client.ack_seen => client.misled
    BY <2>1 DEF PhaseInv
  <2> QED
    BY <1>1, <2>1, <2>2 DEF Covered
<1>7. CASE EndAckWait
  <2>1. UNCHANGED <<host, input>> /\ client.phase = "wait"
    BY <1>7, EndAckWaitFacts DEF ClientOnly
  <2>2. CASE Left
    BY <1>1, <2>2 DEF Covered, Left
  <2>3. CASE SameButPhase("teardown") /\ output' = output
    <3>1. Covered
      BY <1>1, <2>1, <2>3 DEF Covered, SameButPhase
    <3>2. NoneOf(output, "OPEN") /\ DeadlineBehind /\ ArmedWhileOpen /\ AnsweredFirst
      BY <3>1 DEF CoverInv
    <3>3. DeadlineBehind' /\ ArmedWhileOpen' /\ AnsweredFirst'
      BY <2>1, <2>3, <3>2 DEF DeadlineBehind, ArmedWhileOpen, AnsweredFirst, SameButPhase
    <3> QED
      BY <2>3, <3>2, <3>3 DEF CoverInv
  <2> QED
    BY <1>7, <2>2, <2>3, EndAckWaitFacts
<1>8. CASE \E id \in Channel : CloseChannel(id)
  <2>1. PICK id \in Channel : CloseChannel(id)
    BY <1>8
  <2> PICK m : m = Msg("CLOSE", id)
    OBVIOUS
  <2>2. /\ UNCHANGED <<host, input>> /\ SameButChannels /\ id \in client.open
        /\ client'.open = client.open \ {id} /\ client'.pending = client.pending \cup {id}
        /\ output' = Append(output, m) /\ m \in Message /\ m.msg # "OPEN"
    BY <2>1, CloseChannelFacts, MsgType DEF ClientOnly
  <2>3. Covered
    BY <1>1, <2>2 DEF Covered, SameButChannels
  <2>4. NoneOf(output, "OPEN") /\ DeadlineBehind /\ ArmedWhileOpen /\ AnsweredFirst
    BY <2>3 DEF CoverInv
  <2>5. NoneOf(output', "OPEN")
    BY <1>0, <2>2, <2>4, NoneOfKept
  <2>6. DeadlineBehind'
    BY <2>2, <2>4 DEF DeadlineBehind, SameButChannels
  <2>7. client'.open \cup client'.pending = client.open \cup client.pending
    BY <2>2
  <2>8. ArmedWhileOpen'
    BY <2>2, <2>4, <2>7 DEF ArmedWhileOpen
  <2>9. id \in host.open
    BY <2>2, <2>4, OpenAtHost
  <2>10. AnsweredFirst'
    BY <2>2, <2>4, <2>9 DEF AnsweredFirst
  <2> QED
    BY <2>5, <2>6, <2>8, <2>10 DEF CoverInv
<1>9. CASE EndTeardown
  <2>1. UNCHANGED <<host, input, output>> /\ client.phase = "teardown"
    BY <1>9, EndTeardownFacts DEF ClientOnly
  <2>2. CASE Left
    BY <1>1, <2>2 DEF Covered, Left
  <2>3. CASE client.ack_age <= LEASE /\ SameButPhase("drain") /\ client'.left = DRAIN_WAIT
    <3>1. Covered
      BY <1>1, <2>1, <2>3 DEF Covered, SameButPhase
    <3>2. NoneOf(output, "OPEN") /\ DeadlineBehind /\ ArmedWhileOpen /\ AnsweredFirst
      BY <3>1 DEF CoverInv
    <3>3. host.left >= DRAIN_WAIT
      <4>1. PICK a \in Nat, d \in Nat, l \in Nat, w \in Nat, h \in Nat, g \in Nat :
              /\ a = ACK_WAIT /\ d = DEADLINE /\ l = LEASE /\ w = DRAIN_WAIT
              /\ h = host.left /\ g = client.ack_age
        BY TimesAre, BarrierAssumption DEF TypeInv, Clients
      <4>2. a + l + w <= d /\ g <= l
        BY <2>3, <4>1, BarrierAssumption
      <4>3. h + a + g >= d
        BY <2>1, <3>2, <4>1 DEF DeadlineBehind
      <4>4. h >= w
        BY <4>2, <4>3
      <4> QED
        BY <4>1, <4>4
    <3>4. DeadlineBehind'
      BY <2>1, <2>3, <3>3 DEF DeadlineBehind, SameButPhase
    <3>5. ArmedWhileOpen' /\ AnsweredFirst'
      BY <2>1, <2>3, <3>2 DEF ArmedWhileOpen, AnsweredFirst, SameButPhase
    <3> QED
      BY <2>1, <3>2, <3>4, <3>5 DEF CoverInv
  <2> QED
    BY <1>9, <2>2, <2>3, EndTeardownFacts
<1>10. CASE KeyTaken \/ AckTaken \/ CloseTaken
  BY <1>1, <1>10, CoverWhenTaken
<1>11. CASE Skipped \/ ResetSent
  BY <1>1, <1>11 DEF Covered, Skipped, ResetSent
<1>12. CASE Ended
  BY <1>1, <1>12 DEF Covered, Ended, Left
<1>13. CASE Tick
  BY <1>1, <1>13, CoverWhenTimePasses
<1> QED
  BY <1>2, <1>3, <1>4, <1>5, <1>6, <1>7, <1>8, <1>9, <1>10, <1>11, <1>12, <1>13, NextCases

(* A key the drain takes would be ahead of a CLOSE the drain waits for. *)
LEMMA DrainStep ==
  ASSUME TypeInv, TimerInv, PhaseInv, CoverInv, DrainTakesNoKey, Next
  PROVE  DrainTakesNoKey'
<1>0. input \in Seq(Message) /\ client \in Clients
      /\ taken \in Seq([key : Nat, by : Readers])
  BY DEF TypeInv
<1>1. CASE UNCHANGED taken
  BY <1>1 DEF DrainTakesNoKey
<1>2. CASE KeyTaken
  <2>1. PICK who \in Readers :
          /\ TakeKey(who)
          /\ who = "drain" => client.phase = "drain" /\ DrainReadsOn /\ ~client.misled
    BY <1>2 DEF KeyTaken
  <2>2. Took("KEY") /\ taken' = Append(taken, [key |-> input[1].n, by |-> who])
    BY <2>1, TakeKeyFacts
  <2>3. /\ input # <<>> /\ input[1].msg = "KEY" /\ Len(input) \in Nat \ {0}
        /\ input[1].n \in Nat
    BY <2>2 DEF Took, Message
  <2>4. ASSUME who = "drain"
        PROVE  FALSE
    <3>1. client.phase = "drain" /\ client.left > 0 /\ client.pending # {} /\ ~client.misled
      BY <2>1, <2>4 DEF DrainReadsOn
    <3>2. client.ack_seen /\ client.kind = "rpc"
      BY <1>0, <3>1 DEF PhaseInv, Clients
    <3>3. Covered
      BY <3>1, <3>2 DEF Covered
    <3>4. ArmedWhileOpen /\ AnsweredFirst
      BY <3>3 DEF CoverInv
    <3>5. PICK id \in client.pending : id \in host.open \/ Answers(input, id)
      BY <3>1, <3>4 DEF AnsweredFirst
    <3>6. CASE id \in host.open
      <4>1. NoneOf(input, "KEY")
        BY <3>4, <3>5, <3>6 DEF ArmedWhileOpen
      <4>2. 1 \in 1 .. Len(input)
        BY <2>3
      <4> QED
        BY <2>3, <4>1, <4>2 DEF NoneOf
    <3>7. CASE Answers(input, id)
      BY <1>0, <2>3, <3>7, AnswersTail
    <3> QED
      BY <3>5, <3>6, <3>7
  <2> PICK e : e = [key |-> input[1].n, by |-> who]
    OBVIOUS
  <2>5. e \in [key : Nat, by : Readers] /\ e.by = who
    BY <2>3
  <2>6. Len(taken') = Len(taken) + 1 /\ Len(taken) \in Nat /\ taken'[Len(taken) + 1] = e
        /\ \A i \in 1 .. Len(taken) : taken'[i] = taken[i]
    BY <1>0, <2>2, <2>5
  <2> QED
    BY <2>4, <2>5, <2>6 DEF DrainTakesNoKey
<1>3. CASE KeyStep
  BY <1>1, <1>3 DEF KeyStep
<1>4. CASE FeedOpen \/ FeedClose \/ FeedSub \/ FeedHold
  BY <1>1, <1>4, FeedOpenFacts, FeedCloseFacts, FeedSubFacts, FeedHoldFacts DEF Fed
<1>5. CASE \E kind \in Kinds : Start(kind)
  BY <1>1, <1>5, StartFacts DEF ClientOnly
<1>6. CASE OpenChannel \/ SendHold \/ EndAckWait \/ EndTeardown
  BY <1>1, <1>6, OpenChannelFacts, SendHoldFacts, EndAckWaitFacts, EndTeardownFacts
  DEF ClientOnly
<1>7. CASE \E id \in Channel : CloseChannel(id)
  <2>1. PICK id \in Channel : CloseChannel(id)
    BY <1>7
  <2> QED
    BY <1>1, <2>1, CloseChannelFacts DEF ClientOnly
<1>8. CASE AckTaken \/ CloseTaken
  BY <1>1, <1>8, TakeAckFacts, TakeCloseFacts DEF AckTaken, CloseTaken
<1>9. CASE Skipped \/ Ended \/ ResetSent
  BY <1>1, <1>9 DEF Skipped, Ended, ResetSent
<1>10. CASE Tick
  BY <1>1, <1>10, TickFacts
<1> QED
  BY <1>2, <1>3, <1>4, <1>5, <1>6, <1>7, <1>8, <1>9, <1>10, NextCases

-----------------------------------------------------------------------------
(* The keys, in order.                                                      *)

\* n keys were typed: those of t were taken, the next are in q, the last are held in h.
InOrder(t, q, h, n) ==
  /\ \A i \in 1 .. Len(t) : t[i].key = i
  /\ Len(t) <= n - Len(h)
  /\ \A i \in 1 .. Len(q) : q[i].msg = "KEY" => q[i].n \in (Len(t) + 1) .. (n - Len(h))
  /\ \A k \in (Len(t) + 1) .. (n - Len(h)) :
       \E i \in 1 .. Len(q) : q[i].msg = "KEY" /\ q[i].n = k
  /\ \A i, j \in 1 .. Len(q) :
       q[i].msg = "KEY" /\ q[j].msg = "KEY" /\ i < j => q[i].n < q[j].n
  /\ \A i \in 1 .. Len(h) : h[i] = (n - Len(h)) + i

\* Only an armed barrier holds keys.
HeldInv == host.held # <<>> => host.armed

OrderInv == InOrder(taken, input, host.held, typed) /\ HeldInv

Takens == Seq([key : Nat, by : Readers])

LEMMA OrderTypes ==
  ASSUME TypeInv
  PROVE  /\ taken \in Takens /\ input \in Seq(Message) /\ host.held \in Seq(Nat) /\ typed \in Nat
         /\ Len(taken) \in Nat /\ Len(input) \in Nat /\ Len(host.held) \in Nat
BY LenProperties DEF TypeInv, Hosts, Takens

(* It is what the property says. *)
LEMMA InOrderIs ==
  ASSUME TypeInv, InOrder(taken, input, host.held, typed)
  PROVE  KeysInOrder
<1> PICK passed : passed = typed - Len(host.held)
  OBVIOUS
<1> PICK next : next = Len(taken) + 1
  OBVIOUS
<1> DEFINE unread == {i \in 1 .. Len(input) : input[i].msg = "KEY"}
<1>1. /\ \A i \in unread : input[i].n \in next .. passed
      /\ \A k \in next .. passed : \E i \in unread : input[i].n = k
  BY DEF InOrder
<1>2. {input[i].n : i \in unread} = next .. passed
  <2> HIDE DEF unread
  <2> QED
    BY <1>1
<1>3. \A i, j \in unread : i < j => input[i].n < input[j].n
  BY DEF InOrder
<1>4. /\ \A i \in 1 .. Len(taken) : taken[i].key = i
      /\ Len(taken) <= passed
      /\ \A i \in 1 .. Len(host.held) : host.held[i] = passed + i
  BY DEF InOrder
<1> QED
  BY Zenon, <1>2, <1>3, <1>4 DEF KeysInOrder

(* A key is held. *)
LEMMA OrderHeld ==
  ASSUME NEW t \in Takens, NEW q \in Seq(Message), NEW h \in Seq(Nat), NEW n \in Nat,
         InOrder(t, q, h, n)
  PROVE  InOrder(t, q, Append(h, n + 1), n + 1)
<1> PICK g : g = Append(h, n + 1)
  OBVIOUS
<1>1. /\ Len(h) \in Nat /\ Len(g) = Len(h) + 1 /\ g[Len(h) + 1] = n + 1
      /\ \A i \in 1 .. Len(h) : g[i] = h[i]
  BY AppendProperties, LenProperties
<1>2. (n + 1) - Len(g) = n - Len(h)
  BY <1>1
<1>3. \A i \in 1 .. Len(g) : g[i] = (n - Len(h)) + i
  <2>1. \A i \in 1 .. Len(h) : h[i] = (n - Len(h)) + i
    BY DEF InOrder
  <2>2. (n - Len(h)) + (Len(h) + 1) = n + 1
    BY <1>1
  <2>3. \A i \in 1 .. Len(g) : i \in 1 .. Len(h) \/ i = Len(h) + 1
    BY <1>1
  <2> QED
    BY <1>1, <2>1, <2>2, <2>3
<1> QED
  BY Zenon, <1>2, <1>3 DEF InOrder

\* The unread keys of q are those above l, up to p, in order.
Unread(q, l, p) ==
  /\ \A i \in 1 .. Len(q) : q[i].msg = "KEY" => q[i].n \in (l + 1) .. p
  /\ \A k \in (l + 1) .. p : \E i \in 1 .. Len(q) : q[i].msg = "KEY" /\ q[i].n = k
  /\ \A i, j \in 1 .. Len(q) :
       q[i].msg = "KEY" /\ q[j].msg = "KEY" /\ i < j => q[i].n < q[j].n

(* Keys are written behind what is on its way. *)
LEMMA UnreadWritten ==
  ASSUME NEW q \in Seq(Message), NEW r \in Seq(Message), NEW l \in Nat, NEW p \in Nat,
         NEW m \in Nat, l <= p, Unread(q, l, p), Len(r) = Len(q) + m,
         \A i \in 1 .. Len(q) : r[i] = q[i],
         \A i \in 1 .. m : r[Len(q) + i].msg = "KEY" /\ r[Len(q) + i].n = p + i
  PROVE  Unread(r, l, p + m)
<1> PICK n \in Nat : n = Len(q)
  BY LenProperties
<1>1. ASSUME NEW i \in 1 .. (n + m), r[i].msg = "KEY"
      PROVE  \/ i <= n /\ q[i].msg = "KEY" /\ r[i].n = q[i].n /\ q[i].n \in (l + 1) .. p
             \/ i > n /\ r[i].n = p + (i - n)
  <2>1. CASE i <= n
    BY <1>1, <2>1 DEF Unread
  <2>2. CASE i > n
    <3>1. (i - n) \in 1 .. m /\ n + (i - n) = i
      BY <2>2
    <3> QED
      BY <2>2, <3>1
  <2> QED
    BY <2>1, <2>2
<1>2. ASSUME NEW k \in (l + 1) .. (p + m)
      PROVE  \E i \in 1 .. (n + m) : r[i].msg = "KEY" /\ r[i].n = k
  <2>1. CASE k <= p
    <3>1. PICK i \in 1 .. n : q[i].msg = "KEY" /\ q[i].n = k
      BY <2>1 DEF Unread
    <3> QED
      BY <3>1
  <2>2. CASE k > p
    <3>1. (k - p) \in 1 .. m /\ p + (k - p) = k
      BY <2>2
    <3>2. r[n + (k - p)].msg = "KEY" /\ r[n + (k - p)].n = k
      BY <3>1
    <3> QED
      BY <3>1, <3>2
  <2> QED
    BY <2>1, <2>2
<1>3. ASSUME NEW i \in 1 .. (n + m), NEW j \in 1 .. (n + m), i < j,
             r[i].msg = "KEY", r[j].msg = "KEY"
      PROVE  r[i].n < r[j].n
  <2>1. \/ i <= n /\ q[i].msg = "KEY" /\ r[i].n = q[i].n /\ q[i].n \in (l + 1) .. p
        \/ i > n /\ r[i].n = p + (i - n)
    BY <1>1, <1>3
  <2>2. \/ j <= n /\ q[j].msg = "KEY" /\ r[j].n = q[j].n /\ q[j].n \in (l + 1) .. p
        \/ j > n /\ r[j].n = p + (j - n)
    BY <1>1, <1>3
  <2>3. CASE j <= n
    BY <1>3, <2>1, <2>2, <2>3 DEF Unread
  <2>4. CASE j > n
    <3>1. r[j].n = p + (j - n)
      BY <2>2, <2>4
    <3>2. p < p + (j - n) /\ (i > n => p + (i - n) < p + (j - n))
      BY <1>3, <2>4
    <3>3. CASE r[i].n \in (l + 1) .. p
      BY <3>1, <3>2, <3>3
    <3>4. CASE i > n /\ r[i].n = p + (i - n)
      BY <3>1, <3>2, <3>4
    <3> QED
      BY <2>1, <3>3, <3>4
  <2> QED
    BY <2>3, <2>4
<1>4. Len(r) = n + m
  OBVIOUS
<1>5. \A i \in 1 .. (n + m) : r[i].msg = "KEY" => r[i].n \in (l + 1) .. (p + m)
  BY <1>1
<1> QED
  BY <1>2, <1>3, <1>4, <1>5 DEF Unread

(* Any other message is. *)
LEMMA UnreadAnswered ==
  ASSUME NEW q \in Seq(Message), NEW m \in Message, m.msg # "KEY",
         NEW l \in Nat, NEW p \in Nat, Unread(q, l, p)
  PROVE  Unread(Append(q, m), l, p)
<1> PICK r, n : r = Append(q, m) /\ n = Len(q)
  OBVIOUS
<1>1. n \in Nat /\ Len(r) = n + 1 /\ r[n + 1] = m /\ \A i \in 1 .. n : r[i] = q[i]
  BY AppendProperties, LenProperties
<1>2. \A i \in 1 .. (n + 1) : r[i].msg = "KEY" => i \in 1 .. n /\ r[i] = q[i]
  BY <1>1
<1>3. Unread(r, l, p)
  BY <1>1, <1>2 DEF Unread
<1> QED
  BY <1>3

(* A reader takes a message. *)
LEMMA UnreadTaken ==
  ASSUME NEW q \in Seq(Message), NEW r \in Seq(Message), Len(q) \in Nat \ {0},
         Len(r) = Len(q) - 1, \A i \in 1 .. Len(r) : r[i] = q[i + 1],
         NEW l \in Nat, NEW p \in Nat, l <= p, Unread(q, l, p)
  PROVE  /\ q[1].msg # "KEY" => Unread(r, l, p)
         /\ q[1].msg = "KEY" => q[1].n = l + 1 /\ l + 1 <= p /\ Unread(r, l + 1, p)
<1> PICK n : n = Len(q)
  OBVIOUS
<1>1. \A i \in 2 .. n : r[i - 1] = q[i]
  <2> SUFFICES ASSUME NEW i \in 2 .. n PROVE r[i - 1] = q[i]
    OBVIOUS
  <2>1. (i - 1) \in 1 .. Len(r) /\ (i - 1) + 1 = i
    OBVIOUS
  <2> QED
    BY <2>1
<1>2. \A i, j \in 1 .. Len(r) : r[i].msg = "KEY" /\ r[j].msg = "KEY" /\ i < j => r[i].n < r[j].n
  <2> SUFFICES ASSUME NEW i \in 1 .. Len(r), NEW j \in 1 .. Len(r), i < j,
                      r[i].msg = "KEY", r[j].msg = "KEY"
               PROVE  r[i].n < r[j].n
    OBVIOUS
  <2>1. i + 1 \in 1 .. n /\ j + 1 \in 1 .. n /\ i + 1 < j + 1
    OBVIOUS
  <2>2. r[i] = q[i + 1] /\ r[j] = q[j + 1]
    OBVIOUS
  <2>3. q[i + 1].msg = "KEY" /\ q[j + 1].msg = "KEY"
    BY <2>2
  <2>4. q[i + 1].n < q[j + 1].n
    BY <2>1, <2>3 DEF Unread
  <2> QED
    BY <2>2, <2>4
<1>3. ASSUME NEW i \in 1 .. Len(r), r[i].msg = "KEY"
      PROVE  /\ r[i].n \in (l + 1) .. p
             /\ q[1].msg = "KEY" => q[1].n < r[i].n
  <2>1. i + 1 \in 1 .. n /\ 1 \in 1 .. n /\ 1 < i + 1 /\ r[i] = q[i + 1]
    OBVIOUS
  <2> QED
    BY <1>3, <2>1 DEF Unread
<1>4. ASSUME NEW k \in (l + 1) .. p, ~(q[1].msg = "KEY" /\ q[1].n = k)
      PROVE  \E i \in 1 .. Len(r) : r[i].msg = "KEY" /\ r[i].n = k
  <2>1. PICK i \in 1 .. n : q[i].msg = "KEY" /\ q[i].n = k
    BY DEF Unread
  <2>2. i \in 2 .. n /\ (i - 1) \in 1 .. Len(r)
    BY <1>4, <2>1
  <2> QED
    BY <1>1, <2>1, <2>2
<1>5. q[1].msg # "KEY" => Unread(r, l, p)
  BY <1>2, <1>3, <1>4 DEF Unread
<1>6. ASSUME q[1].msg = "KEY"
      PROVE  q[1].n = l + 1 /\ l + 1 <= p
  <2>1. 1 \in 1 .. n /\ q[1].n \in (l + 1) .. p
    BY <1>6 DEF Unread
  <2>2. CASE q[1].n # l + 1
    <3> PICK k : k = l + 1
      OBVIOUS
    <3>2. k \in (l + 1) .. p /\ ~(q[1].msg = "KEY" /\ q[1].n = k)
      BY <2>1, <2>2
    <3>1. PICK i \in 1 .. Len(r) : r[i].msg = "KEY" /\ r[i].n = k
      BY <1>4, <3>2
    <3> QED
      BY <1>3, <1>6, <2>1, <3>1
  <2> QED
    BY <2>1, <2>2
<1>7. ASSUME q[1].msg = "KEY"
      PROVE  Unread(r, l + 1, p)
  <2>1. q[1].n = l + 1
    BY <1>6, <1>7
  <2>2. \A i \in 1 .. Len(r) : r[i].msg = "KEY" => r[i].n \in (l + 2) .. p
    BY <1>3, <1>7, <2>1
  <2>3. ASSUME NEW k \in (l + 2) .. p
        PROVE  \E i \in 1 .. Len(r) : r[i].msg = "KEY" /\ r[i].n = k
    <3>1. k \in (l + 1) .. p /\ ~(q[1].n = k)
      BY <2>1
    <3> QED
      BY <1>4, <3>1
  <2>4. (l + 1) + 1 = l + 2
    OBVIOUS
  <2> QED
    BY Zenon, <1>2, <2>2, <2>3, <2>4 DEF Unread
<1> QED
  BY <1>5, <1>6, <1>7

LEMMA PlaceBehind ==
  ASSUME NEW k \in Nat, NEW m \in Nat, NEW i \in 1 .. m
  PROVE  k + i \in 1 .. (k + m) /\ ~(k + i <= k) /\ (k + i) - k = i
OBVIOUS

(* What the barrier held is written behind what is on its way. *)
LEMMA OrderReleased ==
  ASSUME NEW t \in Takens, NEW q \in Seq(Message), NEW h \in Seq(Nat), NEW n \in Nat,
         InOrder(t, q, h, n)
  PROVE  InOrder(t, q \o Keys(h), <<>>, n)
<1> PICK r : r = q \o Keys(h)
  OBVIOUS
<1> PICK l, m, p : l = Len(t) /\ m = Len(h) /\ p = n - m
  OBVIOUS
<1>1. l \in Nat /\ m \in Nat /\ p \in Nat /\ l <= p /\ p + m = n
  <2>1. l \in Nat /\ m \in Nat
    BY LenProperties DEF Takens
  <2>2. l <= p
    BY DEF InOrder
  <2> QED
    BY <2>1, <2>2
<1>2. /\ Keys(h) \in Seq(Message) /\ Len(Keys(h)) = m
      /\ \A i \in 1 .. m : Keys(h)[i] = Msg("KEY", h[i])
  BY HeldKeys
<1>3. \A i \in 1 .. m : h[i] = p + i /\ p + i \in Nat
  <2>1. \A i \in 1 .. Len(h) : h[i] = (n - Len(h)) + i
    BY Zenon DEF InOrder
  <2>2. \A i \in 1 .. m : h[i] = p + i
    BY Zenon, <2>1
  <2>3. \A i \in 1 .. m : p + i \in Nat
    BY <1>1
  <2> QED
    BY <2>2, <2>3
<1>4. /\ r \in Seq(Message) /\ Len(r) = Len(q) + m
      /\ \A i \in 1 .. Len(q) : r[i] = q[i]
      /\ \A i \in 1 .. m : r[Len(q) + i] = Keys(h)[i]
  <2>1. r \in Seq(Message)
    BY <1>2
  <2>2. Len(q) \in Nat
    BY LenProperties
  <2>3. Len(r) = Len(q) + m
    BY <1>2, ConcatProperties
  <2>4. \A i \in 1 .. (Len(q) + m) : r[i] = IF i <= Len(q) THEN q[i] ELSE Keys(h)[i - Len(q)]
    BY <1>2, ConcatProperties
  <2>5. ASSUME NEW i \in 1 .. m PROVE r[Len(q) + i] = Keys(h)[i]
    <3> PICK k \in Nat : k = Len(q)
      BY <2>2
    <3>1. k + i \in 1 .. (k + m) /\ ~(k + i <= k) /\ (k + i) - k = i
      BY Zenon, <1>1, PlaceBehind
    <3>2. r[k + i] = IF k + i <= k THEN q[k + i] ELSE Keys(h)[(k + i) - k]
      BY Zenon, <2>4, <3>1
    <3> QED
      BY Zenon, <3>1, <3>2
  <2>6. \A i \in 1 .. Len(q) : r[i] = q[i]
    BY <1>1, <2>2, <2>4
  <2> QED
    BY <2>1, <2>3, <2>5, <2>6
<1>5. \A i \in 1 .. m : r[Len(q) + i].msg = "KEY" /\ r[Len(q) + i].n = p + i
  <2> SUFFICES ASSUME NEW i \in 1 .. m
               PROVE  r[Len(q) + i].msg = "KEY" /\ r[Len(q) + i].n = p + i
    OBVIOUS
  <2>1. r[Len(q) + i] = Msg("KEY", p + i) /\ p + i \in Nat
    BY Zenon, <1>2, <1>3, <1>4
  <2>2. Msg("KEY", p + i).msg = "KEY" /\ Msg("KEY", p + i).n = p + i
    BY DEF Msg
  <2> QED
    BY Zenon, <2>1, <2>2
<1>6. Unread(q, l, p)
  BY DEF InOrder, Unread
<1>7. Unread(r, l, p + m)
  BY Zenon, <1>1, <1>4, <1>5, <1>6, UnreadWritten
<1>8. n - Len(<<>>) = n /\ Len(<<>>) = 0
  BY <1>1
<1>9. \A i \in 1 .. Len(t) : t[i].key = i
  BY DEF InOrder
<1>10. Unread(r, l, n) /\ l <= n
  BY <1>1, <1>7
<1> QED
  BY <1>8, <1>9, <1>10 DEF InOrder, Unread

(* A key is written when none is held. *)
LEMMA OrderWritten ==
  ASSUME NEW t \in Takens, NEW q \in Seq(Message), NEW n \in Nat, InOrder(t, q, <<>>, n)
  PROVE  InOrder(t, Append(q, Msg("KEY", n + 1)), <<>>, n + 1)
<1> PICK m : m = Msg("KEY", n + 1)
  OBVIOUS
<1> PICK r, l : r = Append(q, m) /\ l = Len(t)
  OBVIOUS
<1>1. m \in Message /\ m.msg = "KEY" /\ m.n = n + 1
  BY MsgType
<1>2. /\ Len(q) \in Nat /\ Len(r) = Len(q) + 1 /\ r[Len(q) + 1] = m /\ r \in Seq(Message)
      /\ \A i \in 1 .. Len(q) : r[i] = q[i]
  BY <1>1, AppendProperties, LenProperties
<1>3. Len(<<>>) = 0 /\ n - 0 = n /\ (n + 1) - 0 = n + 1
  OBVIOUS
<1>4. l \in Nat /\ l <= n /\ Unread(q, l, n)
  BY <1>3, LenProperties DEF InOrder, Unread, Takens
<1>5. \A i \in 1 .. 1 : r[Len(q) + i].msg = "KEY" /\ r[Len(q) + i].n = n + i
  BY <1>1, <1>2
<1>6. Unread(r, l, n + 1)
  BY <1>2, <1>4, <1>5, UnreadWritten
<1>7. \A i \in 1 .. Len(t) : t[i].key = i
  BY DEF InOrder
<1> QED
  BY <1>3, <1>4, <1>6, <1>7 DEF InOrder, Unread

(* The host answers, or hands nothing to the pane. *)
LEMMA OrderAnswered ==
  ASSUME NEW t \in Takens, NEW q \in Seq(Message), NEW h \in Seq(Nat), NEW n \in Nat,
         InOrder(t, q, h, n), NEW m \in Message, m.msg # "KEY"
  PROVE  InOrder(t, Append(q, m), h, n)
<1> PICK l, p : l = Len(t) /\ p = n - Len(h)
  OBVIOUS
<1>1. l \in Nat /\ p \in Nat
  <2>1. l \in Nat /\ Len(h) \in Nat
    BY LenProperties DEF Takens
  <2>2. l <= p
    BY DEF InOrder
  <2> QED
    BY <2>1, <2>2
<1>2. Unread(q, l, p)
  BY DEF InOrder, Unread
<1>3. Unread(Append(q, m), l, p)
  BY <1>1, <1>2, UnreadAnswered
<1> QED
  BY <1>3 DEF InOrder, Unread

(* A reader takes a message; a key is the next one. *)
LEMMA OrderTaken ==
  ASSUME NEW t \in Takens, NEW q \in Seq(Message), NEW h \in Seq(Nat), NEW n \in Nat,
         InOrder(t, q, h, n), NEW r \in Seq(Message), Len(q) \in Nat \ {0},
         Len(r) = Len(q) - 1, \A i \in 1 .. Len(r) : r[i] = q[i + 1]
  PROVE  /\ q[1].msg # "KEY" => InOrder(t, r, h, n)
         /\ \A x : q[1].msg = "KEY" /\ x.key = q[1].n => InOrder(Append(t, x), r, h, n)
<1> PICK l, p : l = Len(t) /\ p = n - Len(h)
  OBVIOUS
<1>1. l \in Nat /\ p \in Nat /\ l <= p
  <2>1. l \in Nat /\ Len(h) \in Nat
    BY LenProperties DEF Takens
  <2>2. l <= p
    BY DEF InOrder
  <2> QED
    BY <2>1, <2>2
<1>2. Unread(q, l, p)
  BY DEF InOrder, Unread
<1>3. /\ q[1].msg # "KEY" => Unread(r, l, p)
      /\ q[1].msg = "KEY" => q[1].n = l + 1 /\ l + 1 <= p /\ Unread(r, l + 1, p)
  BY <1>1, <1>2, UnreadTaken
<1>4. q[1].msg # "KEY" => InOrder(t, r, h, n)
  BY <1>3 DEF InOrder, Unread
<1>5. ASSUME NEW x, q[1].msg = "KEY", x.key = q[1].n
      PROVE  InOrder(Append(t, x), r, h, n)
  <2> PICK t2 : t2 = Append(t, x)
    OBVIOUS
  <2>1. Len(t2) = l + 1 /\ t2[l + 1] = x /\ \A i \in 1 .. l : t2[i] = t[i]
    <3>1. Len(t2) = Len(t) + 1
      BY DEF Takens
    <3>2. t2[Len(t) + 1] = x
      BY DEF Takens
    <3>3. \A i \in 1 .. Len(t) : t2[i] = t[i]
      BY DEF Takens
    <3> QED
      BY <3>1, <3>2, <3>3
  <2>2. \A i \in 1 .. l : t[i].key = i
    BY DEF InOrder
  <2>3. \A i \in 1 .. (l + 1) : i \in 1 .. l \/ i = l + 1
    BY <1>1
  <2>4. \A i \in 1 .. Len(t2) : t2[i].key = i
    BY <1>3, <1>5, <2>1, <2>2, <2>3
  <2>5. \A i \in 1 .. Len(h) : h[i] = p + i
    BY DEF InOrder
  <2>6. Len(t2) <= p /\ Unread(r, Len(t2), p)
    BY <1>3, <1>5, <2>1
  <2> QED
    BY <2>4, <2>5, <2>6 DEF InOrder, Unread
<1> QED
  BY <1>4, <1>5

(* One step of the keys. *)
LEMMA OrderQuiet ==
  ASSUME TypeInv, OrderInv, UNCHANGED <<taken, typed, input>>,
         host'.held = host.held, host'.armed = host.armed
  PROVE  OrderInv'
BY DEF OrderInv, HeldInv

LEMMA OrderFed ==
  ASSUME TypeInv, OrderInv, UNCHANGED <<taken, typed>>,
         host'.held = host.held, host.armed => host'.armed,
         \/ input' = input
         \/ \E m \in Message : m.msg # "KEY" /\ input' = Append(input, m)
  PROVE  OrderInv'
<1>1. /\ taken \in Takens /\ input \in Seq(Message) /\ host.held \in Seq(Nat) /\ typed \in Nat
      /\ InOrder(taken, input, host.held, typed) /\ HeldInv
  BY OrderTypes DEF OrderInv
<1>2. CASE input' = input
  BY <1>1, <1>2 DEF OrderInv, HeldInv
<1>3. ASSUME NEW m \in Message, m.msg # "KEY", input' = Append(input, m)
      PROVE  OrderInv'
  <2>1. InOrder(taken, Append(input, m), host.held, typed)
    BY <1>1, <1>3, OrderAnswered
  <2> QED
    BY <1>1, <1>3, <2>1 DEF OrderInv, HeldInv
<1> QED
  BY <1>2, <1>3

LEMMA OrderTook ==
  ASSUME TypeInv, OrderInv, NEW kind, kind # "KEY", Took(kind), UNCHANGED taken
  PROVE  OrderInv'
<1>1. /\ taken \in Takens /\ input \in Seq(Message) /\ host.held \in Seq(Nat) /\ typed \in Nat
      /\ InOrder(taken, input, host.held, typed) /\ HeldInv
  BY OrderTypes DEF OrderInv
<1>2. /\ Len(input) \in Nat \ {0} /\ input[1].msg # "KEY" /\ input' \in Seq(Message)
      /\ Len(input') = Len(input) - 1 /\ \A i \in 1 .. Len(input') : input'[i] = input[i + 1]
      /\ UNCHANGED <<host, typed>>
  BY DEF Took
<1>3. InOrder(taken, input', host.held, typed)
  BY <1>1, <1>2, OrderTaken
<1> QED
  BY <1>1, <1>2, <1>3 DEF OrderInv, HeldInv

LEMMA OrderKeyTaken ==
  ASSUME TypeInv, OrderInv, NEW who \in Readers, TakeKey(who)
  PROVE  OrderInv'
<1>1. /\ taken \in Takens /\ input \in Seq(Message) /\ host.held \in Seq(Nat) /\ typed \in Nat
      /\ InOrder(taken, input, host.held, typed) /\ HeldInv
  BY OrderTypes DEF OrderInv
<1> PICK x : x = [key |-> input[1].n, by |-> who]
  OBVIOUS
<1>2. Took("KEY") /\ taken' = Append(taken, x)
  BY TakeKeyFacts
<1>3. /\ Len(input) \in Nat \ {0} /\ input[1].msg = "KEY" /\ input' \in Seq(Message)
      /\ Len(input') = Len(input) - 1 /\ \A i \in 1 .. Len(input') : input'[i] = input[i + 1]
      /\ UNCHANGED <<host, typed>>
  BY <1>2 DEF Took
<1>4. x.key = input[1].n
  OBVIOUS
<1>5. InOrder(Append(taken, x), input', host.held, typed)
  BY <1>1, <1>3, <1>4, OrderTaken
<1> QED
  BY <1>1, <1>2, <1>3, <1>5 DEF OrderInv, HeldInv

LEMMA OrderReleases ==
  ASSUME TypeInv, OrderInv, UNCHANGED <<taken, typed>>, host'.held = <<>>,
         input' = input \o Keys(host.held)
  PROVE  OrderInv'
<1>1. /\ taken \in Takens /\ input \in Seq(Message) /\ host.held \in Seq(Nat) /\ typed \in Nat
      /\ InOrder(taken, input, host.held, typed)
  BY OrderTypes DEF OrderInv
<1>2. InOrder(taken, input', <<>>, typed)
  BY <1>1, OrderReleased
<1> QED
  BY <1>2 DEF OrderInv, HeldInv

LEMMA KeyBehind ==
  ASSUME NEW q \in Seq(Message), NEW r \in Seq(Message), NEW m \in Message
  PROVE  q \o (r \o <<m>>) = Append(q \o r, m)
<1>1. <<m>> \in Seq(Message) /\ q \o r \in Seq(Message)
  OBVIOUS
<1>2. q \o (r \o <<m>>) = (q \o r) \o <<m>>
  BY <1>1, ConcatAssociative
<1>3. (q \o r) \o <<m>> = Append(q \o r, m)
  BY <1>1, OneMore
<1> QED
  BY Zenon, <1>2, <1>3

LEMMA OrderTyped ==
  ASSUME TypeInv, OrderInv, Type
  PROVE  OrderInv'
<1>1. /\ taken \in Takens /\ input \in Seq(Message) /\ host.held \in Seq(Nat) /\ typed \in Nat
      /\ InOrder(taken, input, host.held, typed) /\ HeldInv /\ host \in Hosts
  BY OrderTypes DEF OrderInv, TypeInv
<1>2. typed' = typed + 1 /\ taken' = taken
  BY DEF Type
<1>3. CASE /\ Holds(host) /\ host' = [host EXCEPT !.held = Append(@, typed + 1)]
           /\ UNCHANGED input
  <2>1. host'.held = Append(host.held, typed + 1) /\ host'.armed
    BY <1>1, <1>3 DEF Holds, Hosts
  <2>2. InOrder(taken, input, Append(host.held, typed + 1), typed + 1)
    BY <1>1, OrderHeld
  <2> QED
    BY <1>2, <1>3, <2>1, <2>2 DEF OrderInv, HeldInv
<1>4. CASE host' = Take(host) /\ input' = input \o AfterBacklog(host, typed + 1)
  <2> PICK m : m = Msg("KEY", typed + 1)
    OBVIOUS
  <2> PICK q, K : q = input \o K /\ K = Keys(host.held)
    OBVIOUS
  <2>1. host'.held = <<>>
    BY <1>1, <1>4 DEF Take, Hosts
  <2>2. InOrder(taken, q, <<>>, typed) /\ K \in Seq(Message) /\ q \in Seq(Message)
    <3>1. K \in Seq(Message)
      BY <1>1, HeldKeys
    <3>2. q \in Seq(Message)
      BY <1>1, <3>1
    <3> QED
      BY <1>1, <3>1, <3>2, OrderReleased
  <2>3. m \in Message
    BY <1>1, MsgType
  <2>4. input' = Append(q, m)
    <3>1. input' = input \o (K \o <<m>>)
      BY <1>4 DEF AfterBacklog
    <3>2. input \o (K \o <<m>>) = Append(input \o K, m)
      BY Zenon, <1>1, <2>2, <2>3, KeyBehind
    <3> QED
      BY Zenon, <3>1, <3>2
  <2>5. InOrder(taken, Append(q, m), <<>>, typed + 1)
    BY <1>1, <2>2, OrderWritten
  <2> QED
    BY <1>2, <2>1, <2>4, <2>5 DEF OrderInv, HeldInv
<1>5. CASE /\ ~Holds(host) /\ ~ReleaseDue(host) /\ input' = Append(input, Msg("KEY", typed + 1))
           /\ UNCHANGED host
  <2>1. host.held = <<>>
    BY <1>1, <1>5 DEF Holds, ReleaseDue, HeldInv
  <2>2. InOrder(taken, input', <<>>, typed + 1)
    BY <1>1, <1>5, <2>1, OrderWritten
  <2> QED
    BY <1>2, <1>5, <2>1, <2>2 DEF OrderInv, HeldInv
<1> QED
  BY <1>3, <1>4, <1>5 DEF Type

LEMMA OrderStep ==
  ASSUME TypeInv, OrderInv, [Next]_vars
  PROVE  OrderInv'
<1>1. host \in Hosts
  BY DEF TypeInv
<1>2. CASE UNCHANGED <<taken, typed, input, host>>
  BY <1>2, OrderQuiet
<1>3. CASE FeedOpen
  <2>1. Fed("OPEN") /\ output[1].n \in Nat
    BY <1>3, FeedOpenFacts
  <2>2. host'.held = host.held /\ host'.armed = host.armed
    BY <1>1, <1>3 DEF FeedOpen, Hosts
  <2>3. input' = input \/ input' = Append(input, Msg("CLOSE", output[1].n))
    BY <1>3, FeedOpenFacts
  <2> QED
    BY <2>1, <2>2, <2>3, MsgType, OrderFed DEF Fed
<1>4. CASE FeedClose
  <2>1. Fed("CLOSE") /\ output[1].n \in Nat
    BY <1>4, FeedCloseFacts
  <2>2. host'.held = host.held /\ host'.armed = host.armed
    BY <1>1, <1>4 DEF FeedClose, Hosts
  <2>3. input' = input \/ input' = Append(input, Msg("CLOSE", output[1].n))
    BY <1>4, FeedCloseFacts
  <2> QED
    BY <2>1, <2>2, <2>3, MsgType, OrderFed DEF Fed
<1>5. CASE FeedSub
  <2>1. UNCHANGED <<taken, typed, input>> /\ host'.held = host.held /\ host'.armed = host.armed
    BY <1>1, <1>5 DEF FeedSub, Feed, Hosts
  <2> QED
    BY <2>1, OrderQuiet
<1>6. CASE FeedHold
  <2>1. Fed("HOLD") /\ output[1].n \in Nat /\ host'.armed
        /\ input' = Append(input, Msg("ACK", output[1].n))
    BY <1>6, FeedHoldFacts
  <2>2. host'.held = host.held
    BY <1>1, <1>6 DEF FeedHold, Arm, Hosts
  <2> QED
    BY <2>1, <2>2, MsgType, OrderFed DEF Fed
<1>7. CASE FeedEnd
  <2>1. CASE host' = [Take(host) EXCEPT !.feeding = FALSE] /\ input' = input \o Keys(host.held)
    <3>1. host'.held = <<>> /\ UNCHANGED <<taken, typed>>
      BY <1>1, <1>7, <2>1 DEF FeedEnd, Take, Hosts
    <3> QED
      BY <2>1, <3>1, OrderReleases
  <2>2. CASE host' = [host EXCEPT !.feeding = FALSE] /\ UNCHANGED input
    <3>1. /\ UNCHANGED <<taken, typed, input>>
          /\ host'.held = host.held /\ host'.armed = host.armed
      BY <1>1, <1>7, <2>2 DEF FeedEnd, Hosts
    <3> QED
      BY <3>1, OrderQuiet
  <2> QED
    BY <1>7, <2>1, <2>2 DEF FeedEnd
<1>8. CASE Expire
  <2>1. CASE host' = [Take(host) EXCEPT !.timer = Stopped] /\ input' = input \o Keys(host.held)
    <3>1. host'.held = <<>> /\ UNCHANGED <<taken, typed>>
      BY <1>1, <1>8, <2>1 DEF Expire, Take, Hosts
    <3> QED
      BY <2>1, <3>1, OrderReleases
  <2>2. CASE host' = [host EXCEPT !.timer = Stopped] /\ UNCHANGED input
    <3>1. /\ UNCHANGED <<taken, typed, input>>
          /\ host'.held = host.held /\ host'.armed = host.armed
      BY <1>1, <1>8, <2>2 DEF Expire, Hosts
    <3> QED
      BY <3>1, OrderQuiet
  <2> QED
    BY <1>8, <2>1, <2>2 DEF Expire
<1>9. CASE Tick
  <2>1. UNCHANGED <<taken, typed, input>> /\ host'.held = host.held /\ host'.armed = host.armed
    BY <1>1, <1>9 DEF Tick, Hosts
  <2> QED
    BY <2>1, OrderQuiet
<1>10. CASE \E who \in Readers : TakeKey(who)
  BY <1>10, OrderKeyTaken
<1>11. CASE TakeAck
  BY <1>11, TakeAckFacts, OrderTook
<1>12. CASE TakeClose
  BY <1>12, TakeCloseFacts, OrderTook
<1>13. CASE (Take1("ACK") \/ Take1("CLOSE")) /\ UNCHANGED taken
  BY <1>13, TookFacts, OrderTook
<1>14. CASE ClientRead
  <2>1. "client" \in Readers
    BY DEF Readers
  <2> QED
    BY <1>10, <1>11, <1>12, <1>14, <2>1 DEF ClientRead
<1>15. CASE Drain
  <2>1. (IF client.misled THEN "misled drain" ELSE "drain") \in Readers
    BY DEF Readers
  <2> QED
    BY Zenon, <1>10, <1>11, <1>12, <1>15, <2>1 DEF Drain
<1>16. CASE ShellRead
  <2>1. "shell" \in Readers
    BY DEF Readers
  <2> QED
    BY <1>10, <1>13, <1>16, <2>1 DEF ShellRead
<1>17. CASE \/ \E kind \in Kinds : Start(kind)
            \/ OpenChannel \/ SendHold \/ EndAckWait \/ EndTeardown
            \/ \E id \in Channel : CloseChannel(id)
            \/ EndDrain \/ Kill \/ ShellReset
  <2>1. CASE \E kind \in Kinds : Start(kind)
    BY Zenon, <1>2, <2>1 DEF Start
  <2>2. CASE OpenChannel
    BY Zenon, <1>2, <2>2 DEF OpenChannel
  <2>3. CASE SendHold
    BY Zenon, <1>2, <2>3 DEF SendHold
  <2>4. CASE EndAckWait
    BY Zenon, <1>2, <2>4 DEF EndAckWait
  <2>5. CASE EndTeardown
    BY Zenon, <1>2, <2>5 DEF EndTeardown
  <2>6. CASE \E id \in Channel : CloseChannel(id)
    BY Zenon, <1>2, <2>6 DEF CloseChannel
  <2>7. CASE EndDrain
    BY Zenon, <1>2, <2>7 DEF EndDrain
  <2>8. CASE Kill
    BY Zenon, <1>2, <2>8 DEF Kill
  <2>9. CASE ShellReset
    BY Zenon, <1>2, <2>9 DEF ShellReset
  <2> QED
    BY Zenon, <1>17, <2>1, <2>2, <2>3, <2>4, <2>5, <2>6, <2>7, <2>8, <2>9
<1> QED
  BY <1>2, <1>3, <1>4, <1>5, <1>6, <1>7, <1>8, <1>9, <1>14, <1>15, <1>16, <1>17, OrderTyped
  DEF Next, Host, Client, Shell, vars

-----------------------------------------------------------------------------
(* The invariants.                                                          *)

LEMMA InvInit ==
  ASSUME Init
  PROVE  TypeInv /\ BarrierInv /\ LeaveInv
<1>1. /\ host = [armed |-> FALSE, left |-> 0, held |-> <<>>, client_present |-> FALSE,
                 open |-> {}, timer |-> Stopped, feeding |-> FALSE]
      /\ client = NoClient /\ output = <<>> /\ input = <<>> /\ typed = 0 /\ taken = <<>>
      /\ killed = FALSE /\ resets = 0
  BY DEF Init
<1>2. /\ host \in Hosts /\ ~host.armed /\ host.open = {} /\ ~host.client_present
  <2>1. Stopped \in Nat /\ 0 \in 0 .. DEADLINE /\ <<>> \in Seq(Nat)
    BY BarrierAssumption DEF Stopped
  <2> QED
    BY <1>1, <2>1 DEF Hosts
<1>3. /\ client \in Clients /\ client.phase = "none" /\ client.kind = "rpc" /\ client.open = {}
      /\ client.pending = {} /\ ~client.ack_seen
  BY <1>1 DEF NoClient, Clients
<1>4. /\ output \in Seq(Message) /\ input \in Seq(Message)
      /\ taken \in Seq([key : Nat, by : Readers])
      /\ Len(output) = 0 /\ Len(input) = 0 /\ Len(taken) = 0
  BY <1>1
<1>5. TypeInv
  BY <1>1, <1>2, <1>3, <1>4 DEF TypeInv
<1>6. TimerInv /\ PhaseInv
  BY <1>2, <1>3 DEF TimerInv, PhaseInv
<1>7. NumberInv /\ HoldInv
  BY <1>3, <1>4 DEF NumberInv, Below, HoldInv
<1>8. OpenInv /\ AckInv
  BY <1>3 DEF OpenInv, AckInv
<1>9. CoverInv
  BY <1>3 DEF CoverInv, Covered
<1>10. DrainTakesNoKey
  BY <1>4 DEF DrainTakesNoKey
<1>11. LeaveInv
  BY <1>2, <1>4 DEF LeaveInv, RestInv, GoneInv, WillBeOpen, WillBePresent
<1> QED
  BY <1>5, <1>6, <1>7, <1>8, <1>9, <1>10, <1>11 DEF BarrierInv

LEMMA InvStep ==
  ASSUME TypeInv, BarrierInv, LeaveInv, [Next]_vars
  PROVE  TypeInv' /\ BarrierInv' /\ LeaveInv'
<1>1. /\ TimerInv /\ PhaseInv /\ NumberInv /\ HoldInv /\ OpenInv /\ AckInv /\ CoverInv
      /\ DrainTakesNoKey /\ RestInv /\ GoneInv
  BY DEF BarrierInv, LeaveInv
<1>2. CASE Next
  <2>1. TypeInv' /\ TimerInv' /\ PhaseInv' /\ NumberInv'
    BY <1>1, <1>2, TypeStep, TimerStep, PhaseStep, NumberStep
  <2>2. HoldInv' /\ OpenInv' /\ AckInv'
    BY <1>1, <1>2, HoldStep, OpenStep, AckStep
  <2>3. CoverInv' /\ DrainTakesNoKey'
    BY <1>1, <1>2, CoverStep, DrainStep
  <2>4. RestInv' /\ GoneInv'
    BY <1>1, <1>2, RestStep, GoneStep
  <2> QED
    BY <2>1, <2>2, <2>3, <2>4 DEF BarrierInv, LeaveInv
<1>3. CASE UNCHANGED vars
  <2>1. TypeInv' /\ TimerInv' /\ PhaseInv' /\ RestInv' /\ DrainTakesNoKey'
    BY <1>1, <1>3 DEF vars, TypeInv, TimerInv, PhaseInv, RestInv, DrainTakesNoKey, ClientGone
  <2>2. NumberInv' /\ HoldInv' /\ OpenInv' /\ GoneInv'
    BY <1>1, <1>3 DEF vars, NumberInv, Limit, HoldInv, OpenInv, GoneInv, Subscribed
  <2>3. AckInv'
    BY <1>1, <1>3 DEF vars, AckInv
  <2>4. CoverInv'
    BY <1>1, <1>3
    DEF vars, CoverInv, Covered, DeadlineBehind, ArmedWhileOpen, AnsweredFirst
  <2> QED
    BY <2>1, <2>2, <2>3, <2>4 DEF BarrierInv, LeaveInv
<1> QED
  BY <1>2, <1>3

(* What every state of the pane satisfies: the types, and the two families   *)
(* of facts on the timing and on the channels.                               *)
THEOREM BarrierInvariant == Spec => [](TypeInv /\ BarrierInv /\ LeaveInv)
<1>1. Init => TypeInv /\ BarrierInv /\ LeaveInv
  BY InvInit
<1>2. (TypeInv /\ BarrierInv /\ LeaveInv) /\ [Next]_vars => (TypeInv /\ BarrierInv /\ LeaveInv)'
  BY InvStep
<1> QED
  BY <1>1, <1>2, PTL DEF Spec

(* The close drain of a client program never takes a key the user typed,     *)
(* whatever the timing of the HOLD, of its ACK, of the host's deadline and    *)
(* of the channel CLOSEs, unless it had taken an ACK meant for an earlier     *)
(* client.                                                                   *)
THEOREM DrainNeverTakesAKey == Spec => []DrainTakesNoKey
<1>1. BarrierInv => DrainTakesNoKey
  BY DEF BarrierInv
<1> QED
  BY <1>1, BarrierInvariant, PTL

(* Once every program of the pane has left in order, and the host has read   *)
(* their last word, the barrier is not armed: no key waits for the deadline. *)
THEOREM NothingHeldWhenGone == Spec => []ReleasedWhenGone
<1>1. ASSUME TypeInv, BarrierInv, LeaveInv
      PROVE  ReleasedWhenGone
  <2>1. SUFFICES ASSUME ~killed, ~Alive, output = <<>>, ~host.feeding, host.armed
                 PROVE  FALSE
    BY DEF ReleasedWhenGone
  <2>2. client.open = {} /\ client.phase = "none"
    BY <1>1, <2>1 DEF Alive, BarrierInv, PhaseInv
  <2>3. ASSUME NEW id \in host.open
        PROVE  FALSE
    <3>1. id \in Nat
      BY <1>1, <2>3 DEF TypeInv, Hosts
    <3>2. WillBeOpen(host.open, output, id)
      BY <2>1, <2>3 DEF WillBeOpen, NoneLater
    <3> QED
      BY <1>1, <2>1, <2>2, <3>1, <3>2 DEF LeaveInv, GoneInv
  <2>4. ~host.client_present
    <3>1. host.client_present => WillBePresent(host.client_present, output)
      BY <2>1 DEF WillBePresent, NoReset
    <3> QED
      BY <1>1, <2>1, <2>2, <3>1 DEF LeaveInv, GoneInv, Subscribed
  <2>5. ClientGone(host)
    BY <2>3, <2>4 DEF ClientGone
  <2> QED
    BY <1>1, <2>1, <2>5 DEF LeaveInv, RestInv
<1> QED
  BY <1>1, BarrierInvariant, PTL

(* Every key the user typed is in exactly one place, in the order it was      *)
(* typed: taken, on its way to the pane, or held; a release never reorders     *)
(* the backlog, and a key never overtakes it (terminal.c:483-500, 690-712).    *)
THEOREM KeysStayInOrder == Spec => []KeysInOrder
<1>1. Init => OrderInv
  <2> SUFFICES ASSUME Init PROVE OrderInv
    OBVIOUS
  <2>1. host.held = <<>> /\ input = <<>> /\ taken = <<>> /\ typed = 0
    BY DEF Init
  <2>2. Len(<<>>) = 0 /\ 0 - 0 = 0
    OBVIOUS
  <2> QED
    BY <2>1, <2>2 DEF OrderInv, InOrder, HeldInv
<1>2. TypeInv /\ OrderInv /\ [Next]_vars => OrderInv'
  BY OrderStep
<1>3. TypeInv /\ OrderInv => KeysInOrder
  BY InOrderIs DEF OrderInv
<1> QED
  BY <1>1, <1>2, <1>3, BarrierInvariant, PTL DEF Spec

=============================================================================
