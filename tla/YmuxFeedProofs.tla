--------------------------- MODULE YmuxFeedProofs ---------------------------
(***************************************************************************)
(* Theorems about YmuxFeed, for every capacity, mark, limit and bound: the *)
(* types; that a PUBLISH reaches only a daemon without a session           *)
(* (PublishIsAwaited); that a closed window opens again (WindowReopens);   *)
(* that nothing stale is on the terminal once nothing is under way         *)
(* (RestsCurrent); and that recovery never cuts a frame the socket has     *)
(* begun to take (FramesStayWhole).                                        *)
(*                                                                         *)
(* All of it follows from one inductive invariant, Feeds.  Its heart is    *)
(* Screen: applied to the grid in their order, the calls queued at the     *)
(* terminal, the bridge's pending feeds, the frames in the socket and      *)
(* those in the transmit queue make of it what the daemon last projected,  *)
(* unless a loss is known and a complete redraw is on its way.  An         *)
(* iteration of the bridge is followed from helper to helper by the same   *)
(* predicates over the record it works on.                                 *)
(***************************************************************************)
EXTENDS YmuxFeed, SequenceTheorems, FiniteSetTheorems, WellFoundedInduction, TLAPS

-----------------------------------------------------------------------------
(* Types.                                                                   *)

FeedFrame == [type : {"VTSINK_RPC"}, gen : Nat, base : Int, text : Nat]
RichFrame == [type : {"TRANSACTION"}, full : BOOLEAN, figure : Nat, top : Nat]
ModesFrame == [type : {"PANE_MODES"}, modes : Nat]
PlainFrame == [type : {"VTSINK_RESET", "REFUSE"}]
DownFrame == FeedFrame \cup RichFrame \cup ModesFrame \cup PlainFrame
AckFrame == [type : {"ACK"}, gen : Nat]
AskFrame == [type : {"VTSINK_PUBLISH", "RESYNC"}]
UpFrame == AckFrame \cup AskFrame

Pane == [text : Nat, top : Nat, figure : Nat, modes : Nat]
Daemon ==
  [open : BOOLEAN, want_close : BOOLEAN, tx : Seq(DownFrame), sent : Nat,
   session : BOOLEAN, minted : Nat, sent_gen : Nat, acked_gen : Nat,
   strikes : Nat, drained : BOOLEAN, modes : Seq(Nat), shadow : Int,
   rich : Seq([figure : Nat, top : Nat])]
Entry == [left : Nat, gen : Nat]
Receiver ==
  [phase : {"poll", "step"}, pending : Seq(FeedFrame), body : Seq(RichFrame),
   applied : Nat, acked : Nat, retry : BOOLEAN, desynced : BOOLEAN,
   requested : BOOLEAN, done : BOOLEAN, ring : Seq(Entry), covered : Nat,
   reported : Nat, arrived : Seq(BOOLEAN), modes : Nat]
Call == [feeds : Seq(FeedFrame), rich : Seq(RichFrame)]
HostEnd ==
  [calls : Seq(Call), replies : Seq(BOOLEAN), text : Int, figure : Nat, top : Nat]

-----------------------------------------------------------------------------
(* The invariant.  Its parts are stated for any daemon d, downward frames   *)
(* dn, upward frames u, bridge b and terminal h, so that they can be stated *)
(* of what an iteration works on as well as of a state.                      *)

IsFeed(frame) == frame.type = "VTSINK_RPC"
HasNo(type, s) == \A i \in 1 .. Len(s) : s[i].type # type
HasOne(type, s) ==
  \A i, j \in 1 .. Len(s) : s[i].type = type /\ s[j].type = type => i = j

(* One token: the right to open a session. *)
DaemonFree(d) == ~d.session /\ HasNo("VTSINK_RESET", d.tx)
DaemonOne(d) == HasOne("VTSINK_RESET", d.tx) /\ (d.session => HasNo("VTSINK_RESET", d.tx))
BridgeFree(u, b) == ~b.retry /\ HasNo("VTSINK_PUBLISH", u)
BridgeOne(u, b) == HasOne("VTSINK_PUBLISH", u) /\ (b.retry => HasNo("VTSINK_PUBLISH", u))
Token(d, dn, u, b) ==
  /\ DaemonOne(d) /\ HasOne("VTSINK_RESET", dn) /\ BridgeOne(u, b)
  /\ DaemonFree(d) \/ HasNo("VTSINK_RESET", dn)
  /\ DaemonFree(d) \/ BridgeFree(u, b)
  /\ HasNo("VTSINK_RESET", dn) \/ BridgeFree(u, b)

(* Generations grow along the way. *)
Rising(s) == \A i, j \in 1 .. Len(s) : IsFeed(s[i]) /\ IsFeed(s[j]) /\ i < j
                                         => s[i].gen < s[j].gen
Above(g, s) == \A i \in 1 .. Len(s) : IsFeed(s[i]) => g < s[i].gen
Upto(g, s) == \A i \in 1 .. Len(s) : IsFeed(s[i]) => s[i].gen <= g
AcksRise(d, u) ==
  /\ \A i, j \in 1 .. Len(u) : u[i].type = "ACK" /\ u[j].type = "ACK" /\ i < j
                                 => u[i].gen < u[j].gen
  /\ \A i \in 1 .. Len(u) : u[i].type = "ACK" => d.acked_gen < u[i].gen
Newer(g, d, u, b) ==
  /\ d.acked_gen < g /\ b.acked < g /\ b.reported < g
  /\ \A i \in 1 .. Len(u) : u[i].type = "ACK" => u[i].gen < g
Numbered(d, dn) ==
  /\ Rising(d.tx) /\ Rising(dn)
  /\ Upto(d.minted, d.tx) /\ Upto(d.minted, dn)
  /\ \A i \in 1 .. Len(dn) : IsFeed(dn[i]) => Above(dn[i].gen, d.tx)
Reported(d, dn, u, b) ==
  /\ b.applied <= d.minted /\ Above(b.applied, dn) /\ Above(b.applied, d.tx)
  /\ Newer(b.applied + 1, d, u, b)
  /\ AcksRise(d, u)
  /\ b.covered = b.reported /\ Len(b.ring) <= RING
  /\ \A i \in 1 .. Len(b.ring) : b.ring[i].gen <= b.applied /\ Newer(b.ring[i].gen, d, u, b)
  /\ \A i, j \in 1 .. Len(b.ring) : i < j => b.ring[i].gen < b.ring[j].gen
  /\ \A i \in 1 .. Len(b.pending) :
       /\ b.pending[i].gen <= b.applied /\ Newer(b.pending[i].gen, d, u, b)
       /\ \A j \in 1 .. Len(b.ring) : b.ring[j].gen < b.pending[i].gen

(* The daemon's own books. *)
Books(d) ==
  /\ d.sent > 0 => d.tx # <<>>
  /\ d.sent_gen \in {0, d.minted}
  /\ ~d.session => d.sent_gen = 0 /\ d.shadow = NoText
  /\ d.rich = <<>> => d.sent_gen = 0 /\ d.shadow = NoText

(* The generation the window waits for is under way. *)
Holds(g, s) == \E i \in 1 .. Len(s) : IsFeed(s[i]) /\ s[i].gen = g
NoResync(u) == HasNo("RESYNC", u)
Window(d, dn, u, b) ==
  \/ d.sent_gen = 0 \/ d.acked_gen = d.sent_gen
  \/ Holds(d.sent_gen, d.tx) \/ Holds(d.sent_gen, dn) \/ Holds(d.sent_gen, b.pending)
  \/ \E i \in 1 .. Len(b.ring) : b.ring[i].gen = d.sent_gen
  \/ \E i \in 1 .. Len(u) : u[i].type = "ACK" /\ u[i].gen = d.sent_gen
  \/ ~NoResync(u) \/ b.desynced

(* What the frames of s from j + 1 on make of a grid that shows x. *)
Take1(shown, frame) == IF IsFeed(frame) THEN Show(shown, frame) ELSE shown
PathFrom(j, x, s, y) ==
  \E v \in [j .. Len(s) -> Int] :
    /\ v[j] = x /\ v[Len(s)] = y
    /\ \A k \in j + 1 .. Len(s) : v[k] = Take1(v[k - 1], s[k])
Path(x, s, y) == PathFrom(0, x, s, y)
CallPath(x, calls, y) ==
  \E v \in [0 .. Len(calls) -> Int] :
    /\ v[0] = x /\ v[Len(calls)] = y
    /\ \A k \in 1 .. Len(calls) : Path(v[k - 1], calls[k].feeds, v[k])

Failed(s) == \E i \in 1 .. Len(s) : ~s[i]
Broken(u, b, h) == b.desynced \/ ~NoResync(u) \/ Failed(b.arrived) \/ Failed(h.replies)
Screen(d, dn, u, b, h) ==
  \/ d.shadow = NoText
  \/ Broken(u, b, h)
  \/ \E y1, y2, y3 \in Int :
       /\ CallPath(h.text, h.calls, y1) /\ Path(y1, b.pending, y2)
       /\ Path(y2, dn, y3) /\ Path(y3, d.tx, d.shadow)

(* The last PANE_MODES. *)
LastModes(m, s) ==
  \E i \in 1 .. Len(s) : /\ s[i] = Modes(m)
                         /\ \A j \in i + 1 .. Len(s) : s[j].type # "PANE_MODES"
ModesFollow(d, dn, b) ==
  \A m \in Nat : d.modes = <<m>> =>
    \/ LastModes(m, d.tx)
    \/ HasNo("PANE_MODES", d.tx) /\ LastModes(m, dn)
    \/ HasNo("PANE_MODES", d.tx) /\ HasNo("PANE_MODES", dn) /\ b.modes = m

Good(d, dn, u, b, h) ==
  /\ Token(d, dn, u, b) /\ Numbered(d, dn) /\ Reported(d, dn, u, b) /\ Books(d)
  /\ Window(d, dn, u, b) /\ Screen(d, dn, u, b, h) /\ ModesFollow(d, dn, b)
  /\ b.requested /\ ~b.done => b.desynced

(* Between the RESYNC of an iteration and the reset at its end. *)
Fresh(d) ==
  \E j \in 1 .. Len(d.tx) :
    /\ d.tx[j].type = "TRANSACTION"
    /\ d.sent_gen # 0 => \E k \in j + 1 .. Len(d.tx) : IsFeed(d.tx[k]) /\ d.tx[k].gen = d.sent_gen
    /\ d.shadow # NoText => \A x \in Int : PathFrom(j, x, d.tx, d.shadow)
Idle(d) == d.sent_gen = 0 /\ d.shadow = NoText
Covers(d, dn, u, b, h) ==
  \/ ~NoResync(u) \/ b.body # <<>> \/ InPipeline(h) > 0
  \/ ~HasNo("TRANSACTION", dn) \/ Fresh(d)
Ready(d, dn, u, b, h) == b.requested /\ ~b.done => d.rich = <<>> \/ Covers(d, dn, u, b, h)
Safe(d, dn, u, b, h) == b.requested /\ ~b.done => Idle(d) \/ Covers(d, dn, u, b, h)

Feeds ==
  /\ Good(daemon, down, up, bridge, host)
  /\ bridge.phase = "step" => Ready(daemon, down, up, bridge, host)
  /\ bridge.pending = <<>> /\ bridge.body = <<>>

TypeInv ==
  /\ pane \in Pane /\ daemon \in Daemon /\ down \in Seq(DownFrame) /\ up \in Seq(UpFrame)
  /\ bridge \in Receiver /\ host \in HostEnd /\ faults \in Nat

-----------------------------------------------------------------------------
(* Sequences.                                                               *)

Grown(s, t, x) ==
  /\ Len(s) \in Nat /\ Len(t) = Len(s) + 1 /\ t[Len(s) + 1] = x
  /\ \A i \in 1 .. Len(s) : t[i] = s[i]
Tailed(s, t) ==
  /\ Len(t) \in Nat /\ Len(s) = Len(t) + 1
  /\ \A i \in 1 .. Len(t) : t[i] = s[i + 1]
Within(s, t, e) ==
  /\ Len(s) \in Nat /\ Len(t) \in Nat /\ e \in [1 .. Len(t) -> 1 .. Len(s)]
  /\ \A i, j \in 1 .. Len(t) : i < j => e[i] < e[j]
  /\ \A i \in 1 .. Len(t) : t[i] = s[e[i]]
Thinned(s, t) == \E e : Within(s, t, e)

LEMMA GrownIs ==
  ASSUME NEW S, NEW s \in Seq(S), NEW x \in S
  PROVE  Append(s, x) \in Seq(S) /\ Grown(s, Append(s, x), x)
BY AppendProperties, LenProperties DEF Grown

LEMMA TailedIs ==
  ASSUME NEW S, NEW s \in Seq(S), s # <<>>
  PROVE  /\ Tail(s) \in Seq(S) /\ Tailed(s, Tail(s))
         /\ Head(s) = s[1] /\ Head(s) \in S /\ 1 \in 1 .. Len(s)
<1>1. Len(s) \in Nat /\ Len(s) # 0
  BY EmptySeq, LenProperties
<1>2. Tail(s) \in Seq(S) /\ Len(Tail(s)) = Len(s) - 1 /\ \A i \in 1 .. Len(Tail(s)) : Tail(s)[i] = s[i + 1]
  BY HeadTailProperties
<1>3. Head(s) = s[1] /\ Head(s) \in S
  BY HeadTailProperties
<1> QED
  BY <1>1, <1>2, <1>3 DEF Tailed

LEMMA TailedThins ==
  ASSUME NEW s, NEW t, Tailed(s, t)
  PROVE  Thinned(s, t)
<1>1. Len(t) \in Nat /\ Len(s) = Len(t) + 1 /\ \A i \in 1 .. Len(t) : t[i] = s[i + 1]
  BY DEF Tailed
<1> DEFINE e == [i \in 1 .. Len(t) |-> i + 1]
<1>2. Within(s, t, e)
  BY <1>1 DEF Within
<1> HIDE DEF e
<1> QED
  BY <1>2 DEF Thinned

LEMMA GrownHasNo ==
  ASSUME NEW type, NEW s, NEW t, NEW x, Grown(s, t, x)
  PROVE  /\ HasNo(type, s) /\ x.type # type => HasNo(type, t)
         /\ ~HasNo(type, s) => ~HasNo(type, t)
         /\ x.type = type => ~HasNo(type, t)
BY DEF Grown, HasNo

LEMMA GrownHasOne ==
  ASSUME NEW type, NEW s, NEW t, NEW x, Grown(s, t, x), HasOne(type, s),
         x.type # type \/ HasNo(type, s)
  PROVE  HasOne(type, t)
BY DEF Grown, HasNo, HasOne

LEMMA GrownAbove ==
  ASSUME NEW g \in Nat, NEW s, NEW t, NEW x, Grown(s, t, x)
  PROVE  /\ Above(g, s) /\ (IsFeed(x) => g < x.gen) => Above(g, t)
         /\ Upto(g, s) /\ (IsFeed(x) => x.gen <= g) => Upto(g, t)
BY DEF Grown, Above, Upto

LEMMA GrownRising ==
  ASSUME NEW s, NEW t, NEW x, Grown(s, t, x), Rising(s),
         IsFeed(x) => \A i \in 1 .. Len(s) : IsFeed(s[i]) => s[i].gen < x.gen
  PROVE  Rising(t)
<1> SUFFICES ASSUME NEW i \in 1 .. Len(t), NEW j \in 1 .. Len(t), IsFeed(t[i]), IsFeed(t[j]), i < j
             PROVE  t[i].gen < t[j].gen
  BY DEF Rising
<1>1. Len(s) \in Nat /\ Len(t) = Len(s) + 1 /\ t[Len(s) + 1] = x /\ \A k \in 1 .. Len(s) : t[k] = s[k]
  BY DEF Grown
<1>2. i \in 1 .. Len(s) /\ t[i] = s[i]
  BY <1>1
<1>3. CASE j = Len(s) + 1
  BY <1>1, <1>2, <1>3
<1>4. CASE j # Len(s) + 1
  <2>1. j \in 1 .. Len(s) /\ t[j] = s[j]
    BY <1>1, <1>4
  <2> QED
    BY <1>2, <2>1 DEF Rising
<1> QED
  BY <1>3, <1>4

LEMMA ThinnedKeeps ==
  ASSUME NEW s, NEW t, Thinned(s, t)
  PROVE  /\ \A i \in 1 .. Len(t) : \E j \in 1 .. Len(s) : t[i] = s[j]
         /\ \A type : HasNo(type, s) => HasNo(type, t)
         /\ \A type : HasOne(type, s) => HasOne(type, t)
         /\ Rising(s) => Rising(t)
         /\ \A g : Above(g, s) => Above(g, t)
         /\ \A g : Upto(g, s) => Upto(g, t)
<1> PICK e : Within(s, t, e)
  BY DEF Thinned
<1>1. \A i \in 1 .. Len(t) : e[i] \in 1 .. Len(s) /\ t[i] = s[e[i]]
  BY DEF Within
<1>2. \A i, j \in 1 .. Len(t) : i < j => e[i] < e[j]
  BY DEF Within
<1>3. \A i, j \in 1 .. Len(t) : e[i] = e[j] => i = j
  BY <1>2 DEF Within
<1>4. \A type : HasNo(type, s) => HasNo(type, t)
  BY <1>1 DEF HasNo
<1>5. \A type : HasOne(type, s) => HasOne(type, t)
  BY <1>1, <1>3 DEF HasOne
<1>6. Rising(s) => Rising(t)
  BY <1>1, <1>2 DEF Rising
<1>7. \A g : Above(g, s) => Above(g, t)
  BY <1>1 DEF Above
<1>8. \A g : Upto(g, s) => Upto(g, t)
  BY <1>1 DEF Upto
<1> QED
  BY <1>1, <1>4, <1>5, <1>6, <1>7, <1>8

-----------------------------------------------------------------------------
(* Recursive functions.                                                     *)

(* A set of naturals has a least element. *)
LEMMA LeastOf ==
  ASSUME NEW T, T \subseteq Nat, T # {}
  PROVE  \E x \in T : \A y \in T : ~(y < x)
<1>1. IsWellFoundedOn(OpToRel(<, Nat), Nat)
  BY NatLessThanWellFounded
<1>2. PICK x \in T : \A y \in T : ~(<<y, x>> \in OpToRel(<, Nat))
  BY <1>1, WFMin
<1>3. \A y \in T : <<y, x>> \in OpToRel(<, Nat) <=> y < x
  BY DEF OpToRel
<1> QED
  BY <1>2, <1>3

(* A set that holds 0, and with every number below n the next one, holds 0 to n. *)
LEMMA CountUp ==
  ASSUME NEW n \in Nat, NEW G, 0 \in G, \A k \in 0 .. n : (k \in G /\ k < n) => k + 1 \in G
  PROVE  \A k \in 0 .. n : k \in G
<1> SUFFICES ASSUME NEW j \in 0 .. n, j \notin G PROVE FALSE
  OBVIOUS
<1> DEFINE T == {i \in 0 .. n : i \notin G}
<1>1. T \subseteq Nat /\ j \in T
  OBVIOUS
<1>2. PICK x \in T : \A y \in T : ~(y < x)
  <2>1. T # {}
    BY <1>1
  <2> HIDE DEF T
  <2> QED
    BY <1>1, <2>1, LeastOf
<1>3. x \in 0 .. n /\ x \notin G /\ x # 0
  BY <1>2
<1>4. x - 1 \in 0 .. n /\ x - 1 < x /\ x - 1 < n /\ (x - 1) + 1 = x
  BY <1>3
<1>5. x - 1 \in G
  BY <1>2, <1>4
<1> QED
  BY <1>3, <1>4, <1>5

(* n steps from x exist: step k is F[k]. *)
Steps(S, n, x, F, g) ==
  /\ g \in [0 .. n -> S] /\ g[0] = x
  /\ \A k \in 1 .. n : g[k] = F[k][g[k - 1]]

LEMMA StepsExist ==
  ASSUME NEW S, NEW n \in Nat, NEW x \in S, NEW F \in [1 .. n -> [S -> S]]
  PROVE  \E g : Steps(S, n, x, F, g)
<1> DEFINE Till(g, m) == /\ g \in [0 .. m -> S] /\ g[0] = x
                         /\ \A k \in 1 .. m : g[k] = F[k][g[k - 1]]
           G == {m \in 0 .. n : \E g : Till(g, m)}
<1>1. 0 \in G
  <2>1. Till([k \in 0 .. 0 |-> x], 0)
    OBVIOUS
  <2> HIDE DEF Till
  <2>2. \E g : Till(g, 0)
    BY <2>1
  <2>3. 0 \in 0 .. n
    OBVIOUS
  <2> QED
    BY <2>2, <2>3
<1>2. ASSUME NEW m \in 0 .. n, m \in G, m < n PROVE m + 1 \in G
  <2>1. PICK g : Till(g, m)
    BY <1>2
  <2>2. m + 1 \in 1 .. n /\ m + 1 \in 0 .. n /\ m \in Nat /\ m \in 0 .. m
    BY <1>2
  <2>3. PICK y \in S : y = F[m + 1][g[m]]
    BY <2>1, <2>2
  <2> DEFINE f == [k \in 0 .. m + 1 |-> IF k = m + 1 THEN y ELSE g[k]]
  <2>4. f \in [0 .. m + 1 -> S] /\ f[0] = x
    BY <2>1, <2>2
  <2>5. \A k \in 1 .. m + 1 : f[k] = F[k][f[k - 1]]
    <3> SUFFICES ASSUME NEW k \in 1 .. m + 1 PROVE f[k] = F[k][f[k - 1]]
      OBVIOUS
    <3>1. CASE k = m + 1
      BY <2>2, <2>3, <3>1
    <3>2. CASE k # m + 1
      <4>1. k \in 1 .. m /\ k \in 0 .. m + 1 /\ k - 1 \in 0 .. m + 1 /\ k - 1 # m + 1
        BY <2>2, <3>2
      <4>2. g[k] = F[k][g[k - 1]]
        BY <2>1, <4>1
      <4> QED
        BY <3>2, <4>1, <4>2
    <3> QED
      BY <3>1, <3>2
  <2> HIDE DEF f
  <2>6. Till(f, m + 1)
    BY <2>4, <2>5
  <2> HIDE DEF Till
  <2> QED
    BY <2>2, <2>6
<1> HIDE DEF G
<1>3. n \in G
  <2>1. n \in 0 .. n
    OBVIOUS
  <2> QED
    BY <1>1, <1>2, <2>1, CountUp
<1>4. PICK g : Till(g, n)
  BY <1>3 DEF G
<1>5. Steps(S, n, x, F, g)
  BY <1>4 DEF Steps
<1> QED
  BY <1>5

(* What recovery leaves of a transmit queue. *)
Leaves(tx, leading, t, e) ==
  /\ t \in Seq(DownFrame) /\ Within(tx, t, e)
  /\ \A i \in 1 .. Len(tx) : i <= leading \/ Control(tx[i]) => \E k \in 1 .. Len(t) : e[k] = i

LEMMA KeptLeaves ==
  ASSUME NEW tx \in Seq(DownFrame), NEW leading \in {0, 1}
  PROVE  \E e : Leaves(tx, leading, Kept(tx, leading), e)
<1> PICK n : n = Len(tx)
  OBVIOUS
<1>0. n \in Nat
  BY LenProperties
<1> DEFINE Stays(i) == i <= leading \/ Control(tx[i])
           Adds(z) == [i \in 0 .. Len(tx) |->
                         IF i = 0 THEN <<>>
                         ELSE IF i <= leading \/ Control(tx[i]) THEN Append(z[i - 1], tx[i])
                         ELSE z[i - 1]]
           F == [i \in 1 .. n |-> [a \in Seq(DownFrame) |->
                                     IF Stays(i) THEN Append(a, tx[i]) ELSE a]]
<1>1. \E g : g = Adds(g)
  <2>1. F \in [1 .. n -> [Seq(DownFrame) -> Seq(DownFrame)]]
    <3>1. \A i \in 1 .. n : tx[i] \in DownFrame
      BY ElementOfSeq
    <3>2. \A i \in 1 .. n : \A a \in Seq(DownFrame) : Append(a, tx[i]) \in Seq(DownFrame)
      BY <3>1, AppendProperties
    <3> QED
      BY <3>2
  <2>2. <<>> \in Seq(DownFrame)
    BY EmptySeq
  <2> HIDE DEF F
  <2> PICK S, H : S = Seq(DownFrame) /\ H = F
    OBVIOUS
  <2>a. H \in [1 .. n -> [S -> S]] /\ <<>> \in S
    BY <2>1, <2>2
  <2>b. PICK g : Steps(S, n, <<>>, H, g)
    BY <1>0, <2>a, StepsExist
  <2>3. g \in [0 .. n -> Seq(DownFrame)] /\ g[0] = <<>> /\ \A k \in 1 .. n : g[k] = F[k][g[k - 1]]
    BY <2>b DEF Steps
  <2>4. \A k \in 1 .. n : g[k] = IF Stays(k) THEN Append(g[k - 1], tx[k]) ELSE g[k - 1]
    <3> SUFFICES ASSUME NEW k \in 1 .. n
                 PROVE  g[k] = IF Stays(k) THEN Append(g[k - 1], tx[k]) ELSE g[k - 1]
      OBVIOUS
    <3>1. g[k - 1] \in Seq(DownFrame)
      BY <1>0, <2>3
    <3>2. g[k] = F[k][g[k - 1]]
      BY <2>3
    <3> QED
      BY <3>1, <3>2 DEF F
  <2>5. \A k \in 0 .. n : g[k] = IF k = 0 THEN <<>>
                                 ELSE IF k <= leading \/ Control(tx[k]) THEN Append(g[k - 1], tx[k])
                                 ELSE g[k - 1]
    <3>1. \A k \in 0 .. n : k = 0 \/ k \in 1 .. n
      BY <1>0
    <3> QED
      BY <2>3, <2>4, <3>1
  <2>6. g = Adds(g)
    BY <2>3, <2>5
  <2> QED
    BY <2>6
<1>2. PICK s : s = CHOOSE z : z = Adds(z)
  OBVIOUS
<1>3. s = Adds(s)
  BY <1>1, <1>2, Zenon
<1>4. Kept(tx, leading) = s[n]
  BY <1>2, Zenon DEF Kept
<1>5. s[0] = <<>> /\ \A k \in 1 .. n : s[k] = IF Stays(k) THEN Append(s[k - 1], tx[k]) ELSE s[k - 1]
  <2>1. \A k \in 0 .. n : Adds(s)[k] = IF k = 0 THEN <<>>
                                       ELSE IF Stays(k) THEN Append(s[k - 1], tx[k]) ELSE s[k - 1]
    OBVIOUS
  <2> HIDE DEF Adds
  <2>2. \A k \in 0 .. n : s[k] = IF k = 0 THEN <<>>
                                 ELSE IF Stays(k) THEN Append(s[k - 1], tx[k]) ELSE s[k - 1]
    BY <1>3, <2>1
  <2> HIDE DEF Stays
  <2> QED
    BY <1>0, <2>2
<1> HIDE DEF Adds, F
<1> DEFINE Upper(m, t, e) ==
             /\ t \in Seq(DownFrame) /\ Len(t) \in Nat /\ e \in [1 .. Len(t) -> 1 .. m]
             /\ \A i, j \in 1 .. Len(t) : i < j => e[i] < e[j]
             /\ \A i \in 1 .. Len(t) : t[i] = tx[e[i]]
             /\ \A i \in 1 .. m : Stays(i) => \E k \in 1 .. Len(t) : e[k] = i
           G == {m \in 0 .. n : \E e : Upper(m, s[m], e)}
<1> HIDE DEF Stays
<1>6. 0 \in G
  <2>1. Len(<<>>) = 0 /\ <<>> \in Seq(DownFrame)
    BY EmptySeq
  <2>2. Upper(0, <<>>, [i \in 1 .. 0 |-> i])
    BY <2>1
  <2> HIDE DEF Upper
  <2>3. 0 \in 0 .. n
    BY <1>0
  <2> QED
    BY <1>5, <2>2, <2>3
<1>7. ASSUME NEW m \in 0 .. n, m \in G, m < n PROVE m + 1 \in G
  <2>1. PICK e : Upper(m, s[m], e)
    BY <1>7
  <2>2. m + 1 \in 1 .. n /\ m + 1 \in 0 .. n /\ m \in Nat /\ (m + 1) - 1 = m
    BY <1>0, <1>7
  <2>3. s[m + 1] = IF Stays(m + 1) THEN Append(s[m], tx[m + 1]) ELSE s[m]
    BY <1>5, <2>2
  <2>4. CASE ~Stays(m + 1)
    <3>1. Upper(m + 1, s[m + 1], e)
      BY <2>1, <2>2, <2>3, <2>4
    <3> HIDE DEF Upper
    <3> QED
      BY <2>2, <3>1
  <2>5. CASE Stays(m + 1)
    <3> PICK a, b, l, x : a = s[m] /\ b = s[m + 1] /\ l = Len(a) /\ x = tx[m + 1]
      OBVIOUS
    <3>1. a \in Seq(DownFrame) /\ x \in DownFrame /\ l \in Nat
      BY <2>1, <2>2, ElementOfSeq
    <3>2. b = Append(a, x)
      BY <2>3, <2>5
    <3>3. b \in Seq(DownFrame) /\ Grown(a, b, x)
      BY <3>1, <3>2, GrownIs
    <3>4. Len(b) = l + 1 /\ b[l + 1] = x /\ \A i \in 1 .. l : b[i] = a[i]
      BY <3>3 DEF Grown
    <3> DEFINE f == [i \in 1 .. l + 1 |-> IF i = l + 1 THEN m + 1 ELSE e[i]]
    <3>5. e \in [1 .. l -> 1 .. m] /\ \A i, j \in 1 .. l : i < j => e[i] < e[j]
      <4>1. Upper(m, a, e)
        BY <2>1, Zenon
      <4> QED
        BY <4>1
    <3>6. \A i \in 1 .. l : f[i] = e[i] /\ e[i] \in 1 .. m
      BY <3>1, <3>5
    <3>7. f \in [1 .. l + 1 -> 1 .. m + 1] /\ f[l + 1] = m + 1
      BY <2>2, <3>1, <3>5
    <3> HIDE DEF f
    <3>8. ASSUME NEW i \in 1 .. l + 1, NEW j \in 1 .. l + 1, i < j PROVE f[i] < f[j]
      <4>1. i \in 1 .. l
        BY <3>1, <3>8
      <4>2. CASE j = l + 1
        BY <2>2, <3>6, <3>7, <4>1, <4>2
      <4>3. CASE j # l + 1
        <5>1. j \in 1 .. l
          BY <3>1, <4>3
        <5> QED
          BY <3>5, <3>6, <3>8, <4>1, <5>1
      <4> QED
        BY <4>2, <4>3
    <3>9. ASSUME NEW i \in 1 .. l + 1 PROVE b[i] = tx[f[i]]
      <4>1. CASE i = l + 1
        BY <3>4, <3>7, <4>1
      <4>2. CASE i # l + 1
        <5>1. i \in 1 .. l
          BY <3>1, <4>2
        <5>2. a[i] = tx[e[i]]
          BY <2>1, <5>1
        <5> QED
          BY <3>4, <3>6, <5>1, <5>2
      <4> QED
        BY <4>1, <4>2
    <3>10. ASSUME NEW i \in 1 .. m + 1, Stays(i) PROVE \E k \in 1 .. l + 1 : f[k] = i
      <4>1. CASE i = m + 1
        <5>1. l + 1 \in 1 .. l + 1
          BY <3>1
        <5> QED
          BY <3>7, <4>1, <5>1
      <4>2. CASE i # m + 1
        <5>1. i \in 1 .. m
          BY <2>2, <4>2
        <5>2. PICK k \in 1 .. l : e[k] = i
          BY <2>1, <3>10, <5>1
        <5>3. k \in 1 .. l + 1
          BY <3>1
        <5> QED
          BY <3>6, <5>2, <5>3
      <4> QED
        BY <4>1, <4>2
    <3>11. Upper(m + 1, b, f)
      BY <3>1, <3>3, <3>4, <3>7, <3>8, <3>9, <3>10
    <3> HIDE DEF Upper
    <3> QED
      BY <2>2, <3>11
  <2> QED
    BY <2>4, <2>5
<1> HIDE DEF G
<1>8. n \in G
  <2>1. n \in 0 .. n
    BY <1>0
  <2> QED
    BY <1>0, <1>6, <1>7, <2>1, CountUp
<1>9. PICK e : Upper(n, s[n], e)
  BY <1>8 DEF G
<1>10. Leaves(tx, leading, s[n], e)
  BY <1>0, <1>9 DEF Leaves, Within, Stays
<1> QED
  BY <1>4, <1>10

-----------------------------------------------------------------------------
(* Paths.                                                                   *)

Frames(s) == \A i \in 1 .. Len(s) : s[i] \in DownFrame

LEMMA SeqFrames ==
  ASSUME NEW s \in Seq(DownFrame)
  PROVE  Len(s) \in Nat /\ Frames(s)
BY LenProperties, ElementOfSeq DEF Frames

LEMMA FeedFrames ==
  ASSUME NEW s \in Seq(FeedFrame)
  PROVE  Len(s) \in Nat /\ Frames(s)
BY LenProperties, ElementOfSeq DEF Frames, DownFrame

(* A feed of the four kinds of frames is a FeedFrame. *)
LEMMA FeedTyped ==
  ASSUME NEW f \in DownFrame, IsFeed(f)
  PROVE  f \in FeedFrame /\ f.gen \in Nat /\ f.base \in Int /\ f.text \in Nat
<1>1. f \notin RichFrame /\ f \notin ModesFrame /\ f \notin PlainFrame
  BY DEF IsFeed, RichFrame, ModesFrame, PlainFrame
<1>2. f \in FeedFrame
  BY <1>1 DEF DownFrame
<1> QED
  BY <1>2 DEF FeedFrame

LEMMA Take1Int ==
  ASSUME NEW x \in Int, NEW f \in DownFrame
  PROVE  Take1(x, f) \in Int
<1>1. CASE IsFeed(f)
  <2>1. f.text \in Int
    BY <1>1, FeedTyped
  <2> QED
    BY <1>1, <2>1 DEF Take1, Show, NoText
<1>2. CASE ~IsFeed(f)
  BY <1>2 DEF Take1
<1> QED
  BY <1>1, <1>2

Trail(v, j, x, s, y) ==
  /\ v \in [j .. Len(s) -> Int] /\ v[j] = x /\ v[Len(s)] = y
  /\ \A k \in j + 1 .. Len(s) : v[k] = Take1(v[k - 1], s[k])

LEMMA PathTrail ==
  ASSUME NEW j, NEW x, NEW s, NEW y
  PROVE  PathFrom(j, x, s, y) <=> \E v : Trail(v, j, x, s, y)
BY DEF PathFrom, Trail

(* From every version there is a path. *)
LEMMA PathTotal ==
  ASSUME NEW s, Len(s) \in Nat, Frames(s), NEW x \in Int, NEW j \in 0 .. Len(s)
  PROVE  \E y \in Int : PathFrom(j, x, s, y)
<1> PICK n : n = Len(s) - j
  OBVIOUS
<1>1. n \in Nat /\ j \in Nat /\ j + n = Len(s)
  OBVIOUS
<1> DEFINE F == [k \in 1 .. n |-> [a \in Int |-> Take1(a, s[j + k])]]
<1>2. F \in [1 .. n -> [Int -> Int]]
  <2>1. \A k \in 1 .. n : j + k \in 1 .. Len(s)
    BY <1>1
  <2>2. \A k \in 1 .. n : s[j + k] \in DownFrame
    BY <2>1 DEF Frames
  <2>3. \A k \in 1 .. n : \A a \in Int : Take1(a, s[j + k]) \in Int
    BY <2>2, Take1Int
  <2> QED
    BY <2>3
<1>3. PICK H : H = F
  OBVIOUS
<1>4. H \in [1 .. n -> [Int -> Int]]
  BY <1>2, <1>3
<1>5. PICK g : Steps(Int, n, x, H, g)
  BY <1>1, <1>4, StepsExist
<1>6. g \in [0 .. n -> Int] /\ g[0] = x
  BY <1>5 DEF Steps
<1>7. \A k \in 1 .. n : g[k] = Take1(g[k - 1], s[j + k])
  <2> SUFFICES ASSUME NEW k \in 1 .. n PROVE g[k] = Take1(g[k - 1], s[j + k])
    OBVIOUS
  <2>1. g[k - 1] \in Int
    BY <1>1, <1>6
  <2>2. g[k] = H[k][g[k - 1]]
    BY <1>5 DEF Steps
  <2> QED
    BY <1>3, <2>1, <2>2
<1> HIDE DEF F
<1> DEFINE v == [k \in j .. Len(s) |-> g[k - j]]
<1>8. v \in [j .. Len(s) -> Int]
  <2>1. \A k \in j .. Len(s) : k - j \in 0 .. n
    BY <1>1
  <2> QED
    BY <1>6, <2>1
<1>9. v[j] = x
  <2>1. j \in j .. Len(s) /\ j - j = 0
    BY <1>1
  <2> QED
    BY <1>6, <2>1
<1>10. \A k \in j + 1 .. Len(s) : v[k] = Take1(v[k - 1], s[k])
  <2> SUFFICES ASSUME NEW k \in j + 1 .. Len(s) PROVE v[k] = Take1(v[k - 1], s[k])
    OBVIOUS
  <2>1. /\ k \in j .. Len(s) /\ k - 1 \in j .. Len(s) /\ k - j \in 1 .. n
        /\ (k - j) - 1 = (k - 1) - j /\ j + (k - j) = k
    BY <1>1
  <2> QED
    BY <1>7, <2>1
<1>11. v[Len(s)] \in Int
  <2>1. Len(s) \in j .. Len(s)
    BY <1>1
  <2> QED
    BY <1>8, <2>1
<1> HIDE DEF v
<1>12. Trail(v, j, x, s, v[Len(s)])
  BY <1>8, <1>9, <1>10 DEF Trail
<1> QED
  BY <1>11, <1>12, PathTrail

LEMMA PathGrown ==
  ASSUME NEW s, NEW t, NEW f \in DownFrame, Grown(s, t, f), NEW j \in 0 .. Len(s),
         NEW x \in Int, NEW y \in Int, PathFrom(j, x, s, y)
  PROVE  PathFrom(j, x, t, Take1(y, f))
<1>1. PICK v : Trail(v, j, x, s, y)
  BY PathTrail
<1> PICK n, z : n = Len(s) /\ z = Take1(y, f)
  OBVIOUS
<1>2. n \in Nat /\ Len(t) = n + 1 /\ t[n + 1] = f /\ \A i \in 1 .. n : t[i] = s[i]
  BY DEF Grown
<1>3. v \in [j .. n -> Int] /\ v[j] = x /\ v[n] = y /\ \A k \in j + 1 .. n : v[k] = Take1(v[k - 1], s[k])
  BY <1>1 DEF Trail
<1>4. z \in Int /\ j \in Nat /\ j <= n
  BY <1>2, Take1Int
<1> DEFINE w == [k \in j .. n + 1 |-> IF k = n + 1 THEN z ELSE v[k]]
<1>5. w[n + 1] = z /\ \A k \in j .. n : w[k] = v[k]
  BY <1>2, <1>4
<1>6. w \in [j .. n + 1 -> Int]
  BY <1>2, <1>3, <1>4
<1> HIDE DEF w
<1>7. ASSUME NEW k \in j + 1 .. n + 1 PROVE w[k] = Take1(w[k - 1], t[k])
  <2>1. CASE k = n + 1
    <3>1. k - 1 = n /\ n \in j .. n
      BY <1>2, <1>4, <2>1
    <3> QED
      BY <1>2, <1>3, <1>5, <2>1, <3>1
  <2>2. CASE k # n + 1
    <3>1. k \in j .. n /\ k - 1 \in j .. n /\ k \in 1 .. n /\ k \in j + 1 .. n
      BY <1>2, <1>4, <2>2
    <3> QED
      BY <1>2, <1>3, <1>5, <3>1
  <2> QED
    BY <2>1, <2>2
<1>8. w[j] = x
  <2>1. j \in j .. n
    BY <1>2, <1>4
  <2> QED
    BY <1>3, <1>5, <2>1
<1>9. Trail(w, j, x, t, z)
  BY <1>2, <1>5, <1>6, <1>7, <1>8 DEF Trail
<1> QED
  BY <1>9, PathTrail

LEMMA PathTailed ==
  ASSUME NEW s, NEW t, Tailed(s, t), s[1] \in DownFrame, NEW x \in Int, NEW y \in Int, Path(x, s, y)
  PROVE  Path(Take1(x, s[1]), t, y)
<1>1. PICK v : Trail(v, 0, x, s, y)
  BY PathTrail DEF Path
<1> PICK n : n = Len(t)
  OBVIOUS
<1>2. n \in Nat /\ Len(s) = n + 1 /\ \A i \in 1 .. n : t[i] = s[i + 1]
  BY DEF Tailed
<1>3. v \in [0 .. n + 1 -> Int] /\ v[0] = x /\ v[n + 1] = y /\ \A k \in 0 + 1 .. n + 1 : v[k] = Take1(v[k - 1], s[k])
  BY <1>1, <1>2 DEF Trail
<1> DEFINE w == [k \in 0 .. n |-> v[k + 1]]
<1>4. w \in [0 .. n -> Int] /\ \A k \in 0 .. n : w[k] = v[k + 1]
  BY <1>2, <1>3
<1> HIDE DEF w
<1>5. w[0] = Take1(x, s[1])
  <2>1. 0 \in 0 .. n /\ 1 \in 0 + 1 .. n + 1 /\ 0 + 1 = 1 /\ 1 - 1 = 0
    BY <1>2
  <2> QED
    BY <1>3, <1>4, <2>1
<1>6. ASSUME NEW k \in 0 + 1 .. n PROVE w[k] = Take1(w[k - 1], t[k])
  <2>1. /\ k \in 0 .. n /\ k - 1 \in 0 .. n /\ k + 1 \in 0 + 1 .. n + 1 /\ (k - 1) + 1 = k
        /\ (k + 1) - 1 = k /\ k \in 1 .. n
    BY <1>2
  <2>2. w[k] = v[k + 1] /\ w[k - 1] = v[k] /\ t[k] = s[k + 1]
    BY <1>2, <1>4, <2>1
  <2>3. v[k + 1] = Take1(v[(k + 1) - 1], s[k + 1])
    BY <1>3, <2>1
  <2> QED
    BY <2>1, <2>2, <2>3
<1>7. w[n] = y
  <2>1. n \in 0 .. n
    BY <1>2
  <2> QED
    BY <1>3, <1>4, <2>1
<1>8. Trail(w, 0, Take1(x, s[1]), t, y)
  BY <1>2, <1>4, <1>5, <1>6, <1>7 DEF Trail
<1> QED
  BY <1>8, PathTrail DEF Path

LEMMA PathFromTailed ==
  ASSUME NEW s, NEW t, Tailed(s, t), NEW j \in 1 .. Len(s), j # 1, NEW x, NEW y, PathFrom(j, x, s, y)
  PROVE  PathFrom(j - 1, x, t, y)
<1>1. PICK v : Trail(v, j, x, s, y)
  BY PathTrail
<1> PICK n, m : n = Len(t) /\ m = j - 1
  OBVIOUS
<1>2. n \in Nat /\ Len(s) = n + 1 /\ \A i \in 1 .. n : t[i] = s[i + 1]
  BY DEF Tailed
<1>3. m \in Nat /\ j = m + 1 /\ m \in 1 .. n
  BY <1>2
<1>4. v \in [m + 1 .. n + 1 -> Int] /\ v[m + 1] = x /\ v[n + 1] = y /\ \A k \in (m + 1) + 1 .. n + 1 : v[k] = Take1(v[k - 1], s[k])
  BY <1>1, <1>2, <1>3 DEF Trail
<1> DEFINE w == [k \in m .. n |-> v[k + 1]]
<1>5. \A k \in m .. n : k + 1 \in m + 1 .. n + 1
  BY <1>2, <1>3
<1>6. w \in [m .. n -> Int] /\ \A k \in m .. n : w[k] = v[k + 1]
  BY <1>4, <1>5
<1> HIDE DEF w
<1>7. ASSUME NEW k \in m + 1 .. n PROVE w[k] = Take1(w[k - 1], t[k])
  <2>1. /\ k \in m .. n /\ k - 1 \in m .. n /\ k + 1 \in (m + 1) + 1 .. n + 1 /\ (k - 1) + 1 = k
        /\ (k + 1) - 1 = k /\ k \in 1 .. n
    BY <1>2, <1>3
  <2>2. w[k] = v[k + 1] /\ w[k - 1] = v[k] /\ t[k] = s[k + 1]
    BY <1>2, <1>6, <2>1
  <2>3. v[k + 1] = Take1(v[(k + 1) - 1], s[k + 1])
    BY <1>4, <2>1
  <2> QED
    BY <2>1, <2>2, <2>3
<1>8. w[m] = x /\ w[n] = y
  <2>1. n \in m .. n /\ m \in m .. n
    BY <1>2, <1>3
  <2> QED
    BY <1>4, <1>6, <2>1
<1>9. Trail(w, m, x, t, y)
  BY <1>2, <1>6, <1>7, <1>8 DEF Trail
<1> QED
  BY <1>9, PathTrail

LEMMA PathEmpty ==
  ASSUME NEW s, Len(s) = 0, NEW x \in Int, NEW y
  PROVE  Path(x, s, y) <=> y = x
<1>1. ASSUME Path(x, s, y) PROVE y = x
  <2>1. PICK v : Trail(v, 0, x, s, y)
    BY <1>1, PathTrail DEF Path
  <2> QED
    BY <2>1 DEF Trail
<1>2. ASSUME y = x PROVE Path(x, s, y)
  <2> DEFINE v == [k \in 0 .. 0 |-> x]
  <2>1. v \in [0 .. 0 -> Int] /\ v[0] = x
    OBVIOUS
  <2> HIDE DEF v
  <2>2. \A k \in 0 + 1 .. 0 : FALSE
    OBVIOUS
  <2>3. Trail(v, 0, x, s, y)
    BY <1>2, <2>1, <2>2 DEF Trail
  <2> QED
    BY <2>3, PathTrail DEF Path
<1> QED
  BY <1>1, <1>2

(* What ends at y from j on wherever it starts ends there from the beginning. *)
LEMMA PathJoined ==
  ASSUME NEW s, Len(s) \in Nat, Frames(s), NEW j \in 0 .. Len(s), NEW y,
         \A z \in Int : PathFrom(j, z, s, y), NEW x \in Int
  PROVE  Path(x, s, y)
<1> PICK n : n = Len(s)
  OBVIOUS
<1>0. n \in Nat /\ j \in 0 .. n /\ 0 \in 0 .. n
  OBVIOUS
<1>1. PICK a \in Int : PathFrom(0, x, s, a)
  BY <1>0, PathTotal
<1>2. PICK v : Trail(v, 0, x, s, a)
  BY <1>1, PathTrail
<1>3. v \in [0 .. n -> Int] /\ v[0] = x /\ \A k \in 0 + 1 .. n : v[k] = Take1(v[k - 1], s[k])
  BY <1>2 DEF Trail
<1>4. v[j] \in Int
  BY <1>0, <1>3
<1>5. PICK w : Trail(w, j, v[j], s, y)
  BY <1>4, PathTrail
<1>6. w \in [j .. n -> Int] /\ w[j] = v[j] /\ w[n] = y /\ \A k \in j + 1 .. n : w[k] = Take1(w[k - 1], s[k])
  BY <1>5 DEF Trail
<1> DEFINE u == [k \in 0 .. n |-> IF k <= j THEN v[k] ELSE w[k]]
<1>7. /\ \A k \in 0 .. n : k <= j => u[k] = v[k]
      /\ \A k \in 0 .. n : k >= j => u[k] = w[k]
  BY <1>0, <1>6
<1>8. u \in [0 .. n -> Int]
  <2>1. \A k \in 0 .. n : ~(k <= j) => k \in j .. n
    BY <1>0
  <2> QED
    BY <1>3, <1>6, <2>1
<1> HIDE DEF u
<1>9. u[0] = x /\ u[n] = y
  BY <1>0, <1>3, <1>6, <1>7
<1>10. ASSUME NEW k \in 0 + 1 .. n PROVE u[k] = Take1(u[k - 1], s[k])
  <2>1. k \in 0 .. n /\ k - 1 \in 0 .. n
    BY <1>0
  <2>2. CASE k <= j
    <3>1. k - 1 <= j
      BY <1>0, <2>2
    <3> QED
      BY <1>3, <1>7, <2>1, <2>2, <3>1
  <2>3. CASE ~(k <= j)
    <3>1. k - 1 >= j /\ k >= j /\ k \in j + 1 .. n
      BY <1>0, <2>3
    <3> QED
      BY <1>6, <1>7, <2>1, <3>1
  <2> QED
    BY <2>2, <2>3
<1>11. Trail(u, 0, x, s, y)
  BY <1>8, <1>9, <1>10 DEF Trail
<1> QED
  BY <1>11, PathTrail DEF Path

(* A grid of version x shows y once the feeds are applied. *)
LEMMA ShownIs ==
  ASSUME NEW s \in Seq(FeedFrame), NEW x \in Int, NEW y, Path(x, s, y)
  PROVE  Shown(x, s) = y
<1> PICK n : n = Len(s)
  OBVIOUS
<1>0. n \in Nat /\ \A i \in 1 .. n : s[i] \in FeedFrame
  BY LenProperties, ElementOfSeq
<1>1. \A i \in 1 .. n : IsFeed(s[i])
  BY <1>0 DEF IsFeed, FeedFrame
<1>2. PICK v : Trail(v, 0, x, s, y)
  BY PathTrail DEF Path
<1>3. v \in [0 .. n -> Int] /\ v[0] = x /\ v[n] = y
  BY <1>2 DEF Trail
<1>4. \A k \in 1 .. n : v[k] = Show(v[k - 1], s[k])
  BY <1>1, <1>2 DEF Trail, Take1
<1> DEFINE Shows(z) == [i \in 0 .. Len(s) |-> IF i = 0 THEN x ELSE Show(z[i - 1], s[i])]
<1>5. v = Shows(v)
  <2>1. \A k \in 0 .. n : k = 0 \/ k \in 1 .. n
    BY <1>0
  <2>2. \A k \in 0 .. n : v[k] = IF k = 0 THEN x ELSE Show(v[k - 1], s[k])
    BY <1>3, <1>4, <2>1
  <2> QED
    BY <1>3, <2>2
<1>6. PICK w : w = CHOOSE z : z = Shows(z)
  OBVIOUS
<1>7. w = Shows(w)
  BY <1>5, <1>6, Zenon
<1>8. Shown(x, s) = w[n]
  BY <1>6, Zenon DEF Shown
<1>9. w[0] = x /\ \A k \in 1 .. n : w[k] = Show(w[k - 1], s[k])
  <2>1. \A k \in 0 .. n : Shows(w)[k] = IF k = 0 THEN x ELSE Show(w[k - 1], s[k])
    OBVIOUS
  <2> HIDE DEF Shows
  <2>2. \A k \in 0 .. n : w[k] = IF k = 0 THEN x ELSE Show(w[k - 1], s[k])
    BY <1>7, <2>1
  <2> QED
    BY <1>0, <2>2
<1> HIDE DEF Shows
<1> DEFINE G == {k \in 0 .. n : w[k] = v[k]}
<1>10. 0 \in G
  BY <1>0, <1>3, <1>9
<1>11. ASSUME NEW k \in 0 .. n, k \in G, k < n PROVE k + 1 \in G
  <2>1. k + 1 \in 1 .. n /\ k + 1 \in 0 .. n /\ (k + 1) - 1 = k
    BY <1>0, <1>11
  <2> QED
    BY <1>4, <1>9, <1>11, <2>1
<1> HIDE DEF G
<1>12. n \in G
  <2>1. n \in 0 .. n
    BY <1>0
  <2> QED
    BY <1>0, <1>10, <1>11, <2>1, CountUp
<1> QED
  BY <1>3, <1>8, <1>12 DEF G

Calls(c) == \A i \in 1 .. Len(c) : Len(c[i].feeds) \in Nat /\ Frames(c[i].feeds)
CallTrail(v, x, c, y) ==
  /\ v \in [0 .. Len(c) -> Int] /\ v[0] = x /\ v[Len(c)] = y
  /\ \A k \in 1 .. Len(c) : Path(v[k - 1], c[k].feeds, v[k])

LEMMA CallPathTrail ==
  ASSUME NEW x, NEW c, NEW y
  PROVE  CallPath(x, c, y) <=> \E v : CallTrail(v, x, c, y)
BY DEF CallPath, CallTrail

LEMMA SeqCalls ==
  ASSUME NEW c \in Seq(Call)
  PROVE  Len(c) \in Nat /\ Calls(c)
<1>1. Len(c) \in Nat /\ \A i \in 1 .. Len(c) : c[i] \in Call
  BY LenProperties, ElementOfSeq
<1>2. \A i \in 1 .. Len(c) : c[i].feeds \in Seq(FeedFrame)
  BY <1>1 DEF Call
<1> QED
  BY <1>1, <1>2, FeedFrames DEF Calls

LEMMA CallTotal ==
  ASSUME NEW c, Len(c) \in Nat, Calls(c), NEW x \in Int
  PROVE  \E y \in Int : CallPath(x, c, y)
<1> PICK n : n = Len(c)
  OBVIOUS
<1> DEFINE F == [k \in 1 .. n |-> [a \in Int |-> CHOOSE b \in Int : Path(a, c[k].feeds, b)]]
<1>1. \A k \in 1 .. n : \A a \in Int : \E b \in Int : Path(a, c[k].feeds, b)
  <2> SUFFICES ASSUME NEW k \in 1 .. n, NEW a \in Int PROVE \E b \in Int : Path(a, c[k].feeds, b)
    OBVIOUS
  <2> PICK s : s = c[k].feeds
    OBVIOUS
  <2>1. Len(s) \in Nat /\ Frames(s)
    BY DEF Calls
  <2>2. 0 \in 0 .. Len(s)
    BY <2>1
  <2>3. \E b \in Int : PathFrom(0, a, s, b)
    BY <2>1, <2>2, PathTotal
  <2> QED
    BY <2>3 DEF Path
<1>2. \A k \in 1 .. n : \A a \in Int : F[k][a] \in Int /\ Path(a, c[k].feeds, F[k][a])
  BY <1>1
<1>3. F \in [1 .. n -> [Int -> Int]]
  BY <1>2
<1>4. PICK H : H = F
  OBVIOUS
<1>5. PICK g : Steps(Int, n, x, H, g)
  BY <1>3, <1>4, StepsExist
<1> HIDE DEF F
<1>6. g \in [0 .. n -> Int] /\ g[0] = x
  BY <1>5 DEF Steps
<1>7. \A k \in 1 .. n : Path(g[k - 1], c[k].feeds, g[k])
  <2> SUFFICES ASSUME NEW k \in 1 .. n PROVE Path(g[k - 1], c[k].feeds, g[k])
    OBVIOUS
  <2>1. g[k - 1] \in Int
    BY <1>6
  <2>2. g[k] = F[k][g[k - 1]]
    BY <1>4, <1>5 DEF Steps
  <2> QED
    BY <1>2, <2>1, <2>2
<1>8. CallTrail(g, x, c, g[n])
  BY <1>6, <1>7 DEF CallTrail
<1>9. g[n] \in Int
  BY <1>6
<1> QED
  BY <1>8, <1>9, CallPathTrail

LEMMA CallGrown ==
  ASSUME NEW c, NEW t, NEW call, Grown(c, t, call), NEW x \in Int, NEW y \in Int, NEW z \in Int,
         CallPath(x, c, y), Path(y, call.feeds, z)
  PROVE  CallPath(x, t, z)
<1>1. PICK v : CallTrail(v, x, c, y)
  BY CallPathTrail
<1> PICK n : n = Len(c)
  OBVIOUS
<1>2. n \in Nat /\ Len(t) = n + 1 /\ t[n + 1] = call /\ \A i \in 1 .. n : t[i] = c[i]
  BY DEF Grown
<1>3. v \in [0 .. n -> Int] /\ v[0] = x /\ v[n] = y /\ \A k \in 1 .. n : Path(v[k - 1], c[k].feeds, v[k])
  BY <1>1 DEF CallTrail
<1> DEFINE w == [k \in 0 .. n + 1 |-> IF k = n + 1 THEN z ELSE v[k]]
<1>4. w \in [0 .. n + 1 -> Int] /\ w[n + 1] = z /\ \A k \in 0 .. n : w[k] = v[k]
  BY <1>2, <1>3
<1> HIDE DEF w
<1>5. ASSUME NEW k \in 1 .. n + 1 PROVE Path(w[k - 1], t[k].feeds, w[k])
  <2>1. CASE k = n + 1
    <3>1. k - 1 = n /\ n \in 0 .. n
      BY <1>2, <2>1
    <3> QED
      BY <1>2, <1>3, <1>4, <2>1, <3>1
  <2>2. CASE k # n + 1
    <3>1. k \in 0 .. n /\ k - 1 \in 0 .. n /\ k \in 1 .. n
      BY <1>2, <2>2
    <3> QED
      BY <1>2, <1>3, <1>4, <3>1
  <2> QED
    BY <2>1, <2>2
<1>6. w[0] = x
  <2>1. 0 \in 0 .. n
    BY <1>2
  <2> QED
    BY <1>3, <1>4, <2>1
<1>7. CallTrail(w, x, t, z)
  BY <1>2, <1>4, <1>5, <1>6 DEF CallTrail
<1> QED
  BY <1>7, CallPathTrail

LEMMA CallTailed ==
  ASSUME NEW c, NEW t, Tailed(c, t), NEW x, NEW y, CallPath(x, c, y)
  PROVE  \E z \in Int : Path(x, c[1].feeds, z) /\ CallPath(z, t, y)
<1>1. PICK v : CallTrail(v, x, c, y)
  BY CallPathTrail
<1> PICK n : n = Len(t)
  OBVIOUS
<1>2. n \in Nat /\ Len(c) = n + 1 /\ \A i \in 1 .. n : t[i] = c[i + 1]
  BY DEF Tailed
<1>3. /\ v \in [0 .. n + 1 -> Int] /\ v[0] = x /\ v[n + 1] = y
      /\ \A k \in 1 .. n + 1 : Path(v[k - 1], c[k].feeds, v[k])
  BY <1>1, <1>2 DEF CallTrail
<1> DEFINE w == [k \in 0 .. n |-> v[k + 1]]
<1>4. w \in [0 .. n -> Int] /\ \A k \in 0 .. n : w[k] = v[k + 1]
  BY <1>2, <1>3
<1> HIDE DEF w
<1>5. ASSUME NEW k \in 1 .. n PROVE Path(w[k - 1], t[k].feeds, w[k])
  <2>1. /\ k \in 0 .. n /\ k - 1 \in 0 .. n /\ k + 1 \in 1 .. n + 1 /\ (k - 1) + 1 = k
        /\ (k + 1) - 1 = k
    BY <1>2
  <2>2. w[k] = v[k + 1] /\ w[k - 1] = v[k] /\ t[k] = c[k + 1]
    BY <1>2, <1>4, <2>1
  <2>3. Path(v[(k + 1) - 1], c[k + 1].feeds, v[k + 1])
    BY <1>3, <2>1
  <2> QED
    BY <2>1, <2>2, <2>3
<1>6. w[n] = y /\ 0 \in 0 .. n /\ w[0] = v[1] /\ v[1] \in Int /\ 1 \in 1 .. n + 1
  <2>1. n \in 0 .. n /\ 0 \in 0 .. n /\ 0 + 1 = 1 /\ 1 \in 1 .. n + 1 /\ 1 \in 0 .. n + 1
    BY <1>2
  <2> QED
    BY <1>3, <1>4, <2>1
<1>7. CallTrail(w, v[1], t, y)
  BY <1>2, <1>4, <1>5, <1>6 DEF CallTrail
<1>8. Path(v[1 - 1], c[1].feeds, v[1])
  BY <1>3, <1>6
<1>9. Path(x, c[1].feeds, v[1])
  BY <1>3, <1>8
<1> QED
  BY <1>6, <1>7, <1>9, CallPathTrail

LEMMA CallEmpty ==
  ASSUME NEW c, Len(c) = 0, NEW x \in Int, NEW y
  PROVE  CallPath(x, c, y) <=> y = x
<1>1. ASSUME CallPath(x, c, y) PROVE y = x
  <2>1. PICK v : CallTrail(v, x, c, y)
    BY <1>1, CallPathTrail
  <2> QED
    BY <2>1 DEF CallTrail
<1>2. ASSUME y = x PROVE CallPath(x, c, y)
  <2> DEFINE v == [k \in 0 .. 0 |-> x]
  <2>1. v \in [0 .. 0 -> Int] /\ v[0] = x
    OBVIOUS
  <2> HIDE DEF v
  <2>2. \A k \in 1 .. 0 : FALSE
    OBVIOUS
  <2>3. CallTrail(v, x, c, y)
    BY <1>2, <2>1, <2>2 DEF CallTrail
  <2> QED
    BY <2>3, CallPathTrail
<1> QED
  BY <1>1, <1>2

-----------------------------------------------------------------------------
(* What the types say of the elements.                                      *)

Typed(d, dn, u, b, h) ==
  /\ d \in Daemon /\ dn \in Seq(DownFrame) /\ u \in Seq(UpFrame)
  /\ b \in Receiver /\ h \in HostEnd

LEMMA DaemonTyped ==
  ASSUME NEW d \in Daemon
  PROVE  /\ d.open \in BOOLEAN /\ d.want_close \in BOOLEAN /\ d.session \in BOOLEAN /\ d.drained \in BOOLEAN
         /\ d.tx \in Seq(DownFrame) /\ Len(d.tx) \in Nat /\ Frames(d.tx)
         /\ d.sent \in Nat /\ d.minted \in Nat /\ d.sent_gen \in Nat /\ d.acked_gen \in Nat
         /\ d.strikes \in Nat /\ d.shadow \in Int
         /\ d.modes \in Seq(Nat) /\ d.rich \in Seq([figure : Nat, top : Nat])
<1>1. d.tx \in Seq(DownFrame)
  BY DEF Daemon
<1>2. Len(d.tx) \in Nat /\ Frames(d.tx)
  BY <1>1, SeqFrames
<1> QED
  BY <1>2 DEF Daemon

LEMMA UpTyped ==
  ASSUME NEW u \in Seq(UpFrame)
  PROVE  Len(u) \in Nat /\ \A i \in 1 .. Len(u) : u[i].type = "ACK" => u[i].gen \in Nat
<1>1. Len(u) \in Nat /\ \A i \in 1 .. Len(u) : u[i] \in UpFrame
  BY LenProperties, ElementOfSeq
<1>2. \A f \in UpFrame : f.type = "ACK" => f.gen \in Nat
  BY DEF UpFrame, AckFrame, AskFrame
<1> QED
  BY <1>1, <1>2

LEMMA ReceiverTyped ==
  ASSUME NEW b \in Receiver
  PROVE  /\ b.phase \in {"poll", "step"}
         /\ b.applied \in Nat /\ b.acked \in Nat /\ b.covered \in Nat /\ b.reported \in Nat /\ b.modes \in Nat
         /\ b.retry \in BOOLEAN /\ b.desynced \in BOOLEAN /\ b.requested \in BOOLEAN /\ b.done \in BOOLEAN
         /\ b.pending \in Seq(FeedFrame) /\ Len(b.pending) \in Nat /\ Frames(b.pending)
         /\ b.body \in Seq(RichFrame) /\ b.ring \in Seq(Entry) /\ b.arrived \in Seq(BOOLEAN)
         /\ Len(b.body) \in Nat /\ Len(b.ring) \in Nat /\ Len(b.arrived) \in Nat
         /\ \A i \in 1 .. Len(b.ring) : b.ring[i] \in Entry /\ b.ring[i].gen \in Nat /\ b.ring[i].left \in Nat
         /\ \A i \in 1 .. Len(b.pending) : IsFeed(b.pending[i]) /\ b.pending[i].gen \in Nat
<1>1. b.pending \in Seq(FeedFrame) /\ b.body \in Seq(RichFrame) /\ b.ring \in Seq(Entry) /\ b.arrived \in Seq(BOOLEAN)
  BY DEF Receiver
<1>2. Len(b.body) \in Nat /\ Len(b.ring) \in Nat /\ Len(b.arrived) \in Nat
  BY <1>1, LenProperties
<1>3. Len(b.pending) \in Nat /\ Frames(b.pending)
  BY <1>1, FeedFrames
<1>4. \A i \in 1 .. Len(b.ring) : b.ring[i] \in Entry
  BY <1>1, ElementOfSeq
<1>5. \A i \in 1 .. Len(b.pending) : b.pending[i] \in FeedFrame
  BY <1>1, ElementOfSeq
<1>6. \A e \in Entry : e.gen \in Nat /\ e.left \in Nat
  BY DEF Entry
<1>7. \A e \in FeedFrame : IsFeed(e) /\ e.gen \in Nat
  BY DEF FeedFrame, IsFeed
<1>8. /\ b.phase \in {"poll", "step"}
      /\ b.applied \in Nat /\ b.acked \in Nat /\ b.covered \in Nat /\ b.reported \in Nat /\ b.modes \in Nat
      /\ b.retry \in BOOLEAN /\ b.desynced \in BOOLEAN /\ b.requested \in BOOLEAN /\ b.done \in BOOLEAN
  BY DEF Receiver
<1> QED
  BY <1>1, <1>2, <1>3, <1>4, <1>5, <1>6, <1>7, <1>8

LEMMA HostTyped ==
  ASSUME NEW h \in HostEnd
  PROVE  /\ h.calls \in Seq(Call) /\ Len(h.calls) \in Nat /\ Calls(h.calls)
         /\ h.replies \in Seq(BOOLEAN) /\ Len(h.replies) \in Nat
         /\ h.text \in Int /\ h.figure \in Nat /\ h.top \in Nat
<1>1. h.calls \in Seq(Call) /\ h.replies \in Seq(BOOLEAN)
  BY DEF HostEnd
<1>2. Len(h.replies) \in Nat
  BY <1>1, LenProperties
<1> QED
  BY <1>1, <1>2, SeqCalls DEF HostEnd

LEMMA GenTyped ==
  ASSUME NEW s, Frames(s)
  PROVE  \A i \in 1 .. Len(s) : IsFeed(s[i]) => s[i].gen \in Nat
BY FeedTyped DEF Frames

-----------------------------------------------------------------------------
(* What the daemon does to its record, and what it keeps.                   *)

Still(d, e) ==
  /\ e.tx = d.tx /\ (e.sent = d.sent \/ e.tx # <<>>) /\ e.session = d.session /\ e.minted = d.minted
  /\ e.sent_gen = d.sent_gen /\ e.acked_gen = d.acked_gen /\ e.modes = d.modes
  /\ e.shadow = d.shadow /\ e.rich = d.rich
Queued(d, e, f) ==
  /\ f \in DownFrame /\ Grown(d.tx, e.tx, f)
  /\ e.sent = d.sent /\ e.session = d.session /\ e.acked_gen = d.acked_gen
QueuedOther(d, e, f) ==
  /\ Queued(d, e, f)
  /\ e.minted = d.minted /\ e.sent_gen = d.sent_gen /\ e.shadow = d.shadow
  /\ \/ f.type = "REFUSE" /\ e.modes = d.modes /\ e.rich = d.rich
     \/ \E m \in Nat : f = Modes(m) /\ e.modes = <<m>> /\ e.rich = d.rich
     \/ f.type = "TRANSACTION" /\ e.modes = d.modes /\ e.rich # <<>>
QueuedFeed(d, e, f) ==
  /\ Queued(d, e, f) /\ IsFeed(f) /\ d.session /\ e.modes = d.modes
  /\ f.gen = d.minted + 1 /\ e.minted = d.minted + 1 /\ e.sent_gen = d.minted + 1
  /\ f.base = d.shadow /\ f.text = e.shadow /\ d.rich # <<>> /\ e.rich = d.rich
Recovered(d, e) ==
  /\ ~e.session /\ e.sent_gen = 0 /\ e.acked_gen = 0 /\ e.shadow = NoText /\ e.rich = <<>>
  /\ d.minted <= e.minted /\ e.modes = d.modes /\ (e.sent > 0 => e.tx # <<>>)
  /\ \E t, x : /\ Leaves(d.tx, 0, t, x)
               /\ \/ e.tx = t
                  \/ d.session /\ \E f : f.type = "VTSINK_RESET" /\ Grown(t, e.tx, f)

LEMMA ReportedLower ==
  ASSUME NEW d, NEW e, NEW dn, NEW u, NEW b, NEW h, Typed(d, dn, u, b, h), e \in Daemon,
         Reported(d, dn, u, b), e.acked_gen <= d.acked_gen, d.minted <= e.minted,
         Above(b.applied, e.tx)
  PROVE  Reported(e, dn, u, b)
<1>1. d.acked_gen \in Nat /\ e.acked_gen \in Nat /\ d.minted \in Nat /\ e.minted \in Nat
  BY DaemonTyped DEF Typed
<1>2. Len(u) \in Nat /\ \A i \in 1 .. Len(u) : u[i].type = "ACK" => u[i].gen \in Nat
  BY UpTyped DEF Typed
<1>3. /\ b.applied \in Nat /\ Len(b.ring) \in Nat /\ Len(b.pending) \in Nat
      /\ \A i \in 1 .. Len(b.ring) : b.ring[i].gen \in Nat
      /\ \A i \in 1 .. Len(b.pending) : b.pending[i].gen \in Nat
  BY ReceiverTyped DEF Typed
<1>4. \A g \in Nat : Newer(g, d, u, b) => Newer(g, e, u, b)
  BY <1>1 DEF Newer
<1>5. b.applied <= e.minted
  BY <1>1, <1>3 DEF Reported
<1>6. Newer(b.applied + 1, e, u, b)
  BY <1>3, <1>4 DEF Reported
<1>7. AcksRise(e, u)
  <2>1. AcksRise(d, u)
    BY DEF Reported
  <2>2. \A i \in 1 .. Len(u) : u[i].type = "ACK" => d.acked_gen < u[i].gen
    BY <2>1 DEF AcksRise
  <2>3. \A i \in 1 .. Len(u) : u[i].type = "ACK" => e.acked_gen < u[i].gen
    <3>1. e.acked_gen <= d.acked_gen
      OBVIOUS
    <3>2. \A g \in Nat : d.acked_gen < g => e.acked_gen < g
      BY <1>1, <3>1
    <3> QED
      BY <1>2, <2>2, <3>2
  <2> QED
    BY <2>1, <2>3 DEF AcksRise
<1>8. \A i \in 1 .. Len(b.ring) : b.ring[i].gen <= b.applied /\ Newer(b.ring[i].gen, e, u, b)
  BY <1>3, <1>4 DEF Reported
<1>9. \A i \in 1 .. Len(b.pending) :
       /\ b.pending[i].gen <= b.applied /\ Newer(b.pending[i].gen, e, u, b)
       /\ \A j \in 1 .. Len(b.ring) : b.ring[j].gen < b.pending[i].gen
  BY <1>3, <1>4 DEF Reported
<1> QED
  BY <1>5, <1>6, <1>7, <1>8, <1>9 DEF Reported

LEMMA StillKeeps ==
  ASSUME NEW d, NEW e, NEW dn, NEW u, NEW b, NEW h, Still(d, e)
  PROVE  /\ Good(d, dn, u, b, h) => Good(e, dn, u, b, h)
         /\ Ready(d, dn, u, b, h) => Ready(e, dn, u, b, h)
<1>1. Token(d, dn, u, b) => Token(e, dn, u, b)
  BY DEF Still, Token, DaemonOne, DaemonFree
<1>2. Numbered(d, dn) => Numbered(e, dn)
  BY DEF Still, Numbered
<1>3. Reported(d, dn, u, b) => Reported(e, dn, u, b)
  <2>1. \A g : Newer(g, d, u, b) => Newer(g, e, u, b)
    BY DEF Still, Newer
  <2>2. AcksRise(d, u) => AcksRise(e, u)
    BY DEF Still, AcksRise
  <2> QED
    BY <2>1, <2>2 DEF Still, Reported
<1>4. Books(d) => Books(e)
  BY DEF Still, Books
<1>5. Window(d, dn, u, b) => Window(e, dn, u, b)
  BY DEF Still, Window
<1>6. Screen(d, dn, u, b, h) => Screen(e, dn, u, b, h)
  BY DEF Still, Screen
<1>7. ModesFollow(d, dn, b) => ModesFollow(e, dn, b)
  BY DEF Still, ModesFollow
<1>8. Fresh(d) => Fresh(e)
  BY DEF Still, Fresh
<1>9. Covers(d, dn, u, b, h) => Covers(e, dn, u, b, h)
  BY <1>8 DEF Covers
<1>10. Ready(d, dn, u, b, h) => Ready(e, dn, u, b, h)
  BY <1>9 DEF Ready, Still
<1> QED
  BY <1>1, <1>2, <1>3, <1>4, <1>5, <1>6, <1>7, <1>10 DEF Good

LEMMA QueuedKeepsPlaces ==
  ASSUME NEW d, NEW e, NEW f, NEW dn, NEW u, NEW b, NEW h, Typed(d, dn, u, b, h), Queued(d, e, f),
         f.type # "VTSINK_RESET"
  PROVE  Token(d, dn, u, b) => Token(e, dn, u, b)
<1>1. Grown(d.tx, e.tx, f) /\ e.session = d.session
  BY DEF Queued
<1>2. HasNo("VTSINK_RESET", d.tx) => HasNo("VTSINK_RESET", e.tx)
  BY <1>1, GrownHasNo
<1>3. HasOne("VTSINK_RESET", d.tx) => HasOne("VTSINK_RESET", e.tx)
  BY <1>1, GrownHasOne
<1>4. DaemonFree(d) => DaemonFree(e)
  BY <1>1, <1>2 DEF DaemonFree
<1>5. DaemonOne(d) => DaemonOne(e)
  BY <1>1, <1>2, <1>3 DEF DaemonOne
<1> QED
  BY <1>4, <1>5 DEF Token

LEMMA QueuedKeepsHolds ==
  ASSUME NEW s, NEW t, NEW f, Grown(s, t, f), NEW g
  PROVE  /\ Holds(g, s) => Holds(g, t)
         /\ IsFeed(f) /\ f.gen = g => Holds(g, t)
BY DEF Grown, Holds

LEMMA QueuedKeepsModes ==
  ASSUME NEW s, NEW t, NEW f, Grown(s, t, f), f.type # "PANE_MODES", NEW m
  PROVE  /\ LastModes(m, s) => LastModes(m, t)
         /\ HasNo("PANE_MODES", s) => HasNo("PANE_MODES", t)
<1>1. ASSUME LastModes(m, s) PROVE LastModes(m, t)
  <2>1. PICK i \in 1 .. Len(s) : s[i] = Modes(m) /\ \A j \in i + 1 .. Len(s) : s[j].type # "PANE_MODES"
    BY <1>1 DEF LastModes
  <2>2. Len(s) \in Nat /\ Len(t) = Len(s) + 1 /\ t[Len(s) + 1] = f /\ \A j \in 1 .. Len(s) : t[j] = s[j]
    BY DEF Grown
  <2>3. i \in 1 .. Len(t) /\ t[i] = Modes(m)
    BY <2>1, <2>2
  <2>4. ASSUME NEW j \in i + 1 .. Len(t) PROVE t[j].type # "PANE_MODES"
    <3>1. CASE j = Len(s) + 1
      BY <2>2, <3>1
    <3>2. CASE j # Len(s) + 1
      <4>1. j \in 1 .. Len(s) /\ j \in i + 1 .. Len(s)
        BY <2>2, <3>2
      <4> QED
        BY <2>1, <2>2, <4>1
    <3> QED
      BY <3>1, <3>2
  <2> QED
    BY <2>3, <2>4 DEF LastModes
<1> QED
  BY <1>1, GrownHasNo

LEMMA QueuedOtherKeeps ==
  ASSUME NEW d, NEW e, NEW f, NEW dn, NEW u, NEW b, NEW h, Typed(d, dn, u, b, h), e \in Daemon,
         QueuedOther(d, e, f), Good(d, dn, u, b, h)
  PROVE  Good(e, dn, u, b, h) /\ (Ready(d, dn, u, b, h) => Ready(e, dn, u, b, h))
<1>1. /\ Queued(d, e, f) /\ f \in DownFrame /\ Grown(d.tx, e.tx, f)
      /\ e.sent = d.sent /\ e.session = d.session /\ e.acked_gen = d.acked_gen
      /\ e.minted = d.minted /\ e.sent_gen = d.sent_gen /\ e.shadow = d.shadow
  BY DEF QueuedOther, Queued
<1>2. \/ f.type = "REFUSE" /\ e.modes = d.modes /\ e.rich = d.rich
      \/ \E m \in Nat : f = Modes(m) /\ e.modes = <<m>> /\ e.rich = d.rich
      \/ f.type = "TRANSACTION" /\ e.modes = d.modes /\ e.rich # <<>>
  BY DEF QueuedOther
<1>3. f.type \in {"REFUSE", "PANE_MODES", "TRANSACTION"}
  BY <1>2 DEF Modes
<1>4. ~IsFeed(f) /\ f.type # "VTSINK_RESET"
  BY <1>3 DEF IsFeed
<1>5. d \in Daemon /\ Len(d.tx) \in Nat /\ d.shadow \in Int /\ d.minted \in Nat /\ d.acked_gen \in Nat
  BY DaemonTyped DEF Typed
<1>6. Len(e.tx) = Len(d.tx) + 1 /\ e.tx[Len(d.tx) + 1] = f /\ \A i \in 1 .. Len(d.tx) : e.tx[i] = d.tx[i]
  BY <1>1 DEF Grown
<1>7. Token(e, dn, u, b)
  BY <1>1, <1>4, QueuedKeepsPlaces DEF Good
<1>8. Numbered(e, dn)
  <2>1. Numbered(d, dn)
    BY DEF Good
  <2>2. Rising(e.tx)
    BY <1>1, <1>4, <2>1, GrownRising DEF Numbered
  <2>3. Upto(e.minted, e.tx)
    BY <1>1, <1>4, <1>5, <2>1, GrownAbove DEF Numbered
  <2>4. ASSUME NEW i \in 1 .. Len(dn), IsFeed(dn[i]) PROVE Above(dn[i].gen, e.tx)
    <3>1. dn[i].gen \in Nat
      BY <2>4, SeqFrames, GenTyped DEF Typed
    <3>2. Above(dn[i].gen, d.tx)
      BY <2>1, <2>4 DEF Numbered
    <3> QED
      BY <1>1, <1>4, <3>1, <3>2, GrownAbove
  <2> QED
    BY <1>1, <2>1, <2>2, <2>3, <2>4 DEF Numbered
<1>9. Reported(e, dn, u, b)
  <2>1. Reported(d, dn, u, b)
    BY DEF Good
  <2>2. b.applied \in Nat
    BY ReceiverTyped DEF Typed
  <2>3. Above(b.applied, e.tx)
    BY <1>1, <1>4, <2>1, <2>2, GrownAbove DEF Reported
  <2>4. e.acked_gen <= d.acked_gen /\ d.minted <= e.minted
    BY <1>1, <1>5
  <2> QED
    BY <2>1, <2>3, <2>4, ReportedLower
<1>10. Books(e)
  <2>1. Books(d)
    BY DEF Good
  <2>2. e.tx # <<>>
    BY <1>5, <1>6
  <2>3. e.rich = <<>> => d.rich = <<>>
    BY <1>2
  <2> QED
    BY <1>1, <2>1, <2>2, <2>3 DEF Books
<1>11. Window(e, dn, u, b)
  <2>1. Window(d, dn, u, b)
    BY DEF Good
  <2>2. Holds(d.sent_gen, d.tx) => Holds(d.sent_gen, e.tx)
    BY <1>1, QueuedKeepsHolds
  <2> QED
    BY <1>1, <2>1, <2>2 DEF Window
<1>12. \A x, y \in Int : \A j \in 0 .. Len(d.tx) : PathFrom(j, x, d.tx, y) => PathFrom(j, x, e.tx, y)
  <2> SUFFICES ASSUME NEW x \in Int, NEW y \in Int, NEW j \in 0 .. Len(d.tx), PathFrom(j, x, d.tx, y)
               PROVE  PathFrom(j, x, e.tx, y)
    OBVIOUS
  <2>1. PathFrom(j, x, e.tx, Take1(y, f))
    BY <1>1, PathGrown
  <2>2. Take1(y, f) = y
    BY <1>4 DEF Take1
  <2> QED
    BY <2>1, <2>2
<1>13. Screen(e, dn, u, b, h)
  <2>1. Screen(d, dn, u, b, h)
    BY DEF Good
  <2>2. 0 \in 0 .. Len(d.tx)
    BY <1>5
  <2>3. \A x \in Int : Path(x, d.tx, d.shadow) => Path(x, e.tx, d.shadow)
    BY <1>5, <1>12, <2>2 DEF Path
  <2> QED
    BY <1>1, <2>1, <2>3 DEF Screen
<1>14. ModesFollow(e, dn, b)
  <2>1. ModesFollow(d, dn, b)
    BY DEF Good
  <2>2. CASE f.type # "PANE_MODES"
    <3>1. e.modes = d.modes
      BY <1>2, <2>2 DEF Modes
    <3>2. \A m : (LastModes(m, d.tx) => LastModes(m, e.tx)) /\ (HasNo("PANE_MODES", d.tx) => HasNo("PANE_MODES", e.tx))
      BY <1>1, <2>2, QueuedKeepsModes
    <3> QED
      BY <2>1, <3>1, <3>2 DEF ModesFollow
  <2>3. CASE f.type = "PANE_MODES"
    <3>1. PICK m \in Nat : f = Modes(m) /\ e.modes = <<m>>
      BY <1>2, <2>3
    <3>2. LastModes(m, e.tx)
      <4>1. Len(e.tx) \in 1 .. Len(e.tx) /\ e.tx[Len(e.tx)] = Modes(m)
        BY <1>5, <1>6, <3>1
      <4>2. \A j \in Len(e.tx) + 1 .. Len(e.tx) : FALSE
        BY <1>5, <1>6
      <4> QED
        BY <4>1, <4>2 DEF LastModes
    <3>3. \A k : e.modes = <<k>> => k = m
      BY <3>1
    <3> QED
      BY <3>2, <3>3 DEF ModesFollow
  <2> QED
    BY <2>2, <2>3
<1>15. Good(e, dn, u, b, h)
  BY <1>7, <1>8, <1>9, <1>10, <1>11, <1>13, <1>14 DEF Good
<1>16. ASSUME Ready(d, dn, u, b, h), b.requested, ~b.done PROVE e.rich = <<>> \/ Covers(e, dn, u, b, h)
  <2>1. CASE Covers(d, dn, u, b, h)
    <3>1. Fresh(d) => Fresh(e)
      <4> SUFFICES ASSUME Fresh(d) PROVE Fresh(e)
        OBVIOUS
      <4>1. PICK j \in 1 .. Len(d.tx) :
              /\ d.tx[j].type = "TRANSACTION"
              /\ d.sent_gen # 0 => \E k \in j + 1 .. Len(d.tx) : IsFeed(d.tx[k]) /\ d.tx[k].gen = d.sent_gen
              /\ d.shadow # NoText => \A x \in Int : PathFrom(j, x, d.tx, d.shadow)
        BY DEF Fresh
      <4>2. j \in 1 .. Len(e.tx) /\ j \in 0 .. Len(d.tx) /\ e.tx[j].type = "TRANSACTION"
        BY <1>5, <1>6, <4>1
      <4>3. \A k \in j + 1 .. Len(d.tx) : k \in j + 1 .. Len(e.tx) /\ e.tx[k] = d.tx[k]
        BY <1>5, <1>6
      <4>4. e.sent_gen # 0 => \E k \in j + 1 .. Len(e.tx) : IsFeed(e.tx[k]) /\ e.tx[k].gen = e.sent_gen
        BY <1>1, <4>1, <4>3
      <4>5. e.shadow # NoText => \A x \in Int : PathFrom(j, x, e.tx, e.shadow)
        BY <1>1, <1>5, <1>12, <4>1, <4>2
      <4> QED
        BY <4>2, <4>4, <4>5 DEF Fresh
    <3> QED
      BY <2>1, <3>1 DEF Covers
  <2>2. CASE ~Covers(d, dn, u, b, h) /\ e.rich # <<>>
    <3>1. d.rich = <<>>
      BY <1>16, <2>2 DEF Ready
    <3>2. f.type = "TRANSACTION"
      BY <1>2, <2>2, <3>1
    <3>3. e.sent_gen = 0 /\ e.shadow = NoText
      BY <1>1, <3>1 DEF Good, Books
    <3>4. Len(e.tx) \in 1 .. Len(e.tx) /\ e.tx[Len(e.tx)].type = "TRANSACTION"
      BY <1>5, <1>6, <3>2
    <3>5. Fresh(e)
      BY <3>3, <3>4 DEF Fresh
    <3> QED
      BY <3>5 DEF Covers
  <2> QED
    BY <2>1, <2>2
<1>17. Ready(d, dn, u, b, h) => Ready(e, dn, u, b, h)
  BY <1>16 DEF Ready
<1> QED
  BY <1>15, <1>17

(* The frames on the way lead some way from what the grid shows. *)
LEMMA WayTotal ==
  ASSUME NEW d, NEW dn, NEW u, NEW b, NEW h, Typed(d, dn, u, b, h)
  PROVE  \E y1, y2, y3, y4 \in Int :
           /\ CallPath(h.text, h.calls, y1) /\ Path(y1, b.pending, y2)
           /\ Path(y2, dn, y3) /\ Path(y3, d.tx, y4)
<1>1. h.text \in Int /\ Len(h.calls) \in Nat /\ Calls(h.calls)
  BY HostTyped DEF Typed
<1>2. Len(b.pending) \in Nat /\ Frames(b.pending)
  BY ReceiverTyped DEF Typed
<1>3. Len(dn) \in Nat /\ Frames(dn)
  BY SeqFrames DEF Typed
<1>4. Len(d.tx) \in Nat /\ Frames(d.tx)
  BY DaemonTyped DEF Typed
<1>5. PICK y1 \in Int : CallPath(h.text, h.calls, y1)
  BY <1>1, CallTotal
<1>6. \A s : Len(s) \in Nat /\ Frames(s) => \A x \in Int : \E y \in Int : Path(x, s, y)
  <2> SUFFICES ASSUME NEW s, Len(s) \in Nat, Frames(s), NEW x \in Int PROVE \E y \in Int : Path(x, s, y)
    OBVIOUS
  <2>1. 0 \in 0 .. Len(s)
    OBVIOUS
  <2>2. \E y \in Int : PathFrom(0, x, s, y)
    BY <2>1, PathTotal
  <2> QED
    BY <2>2 DEF Path
<1>7. PICK y2 \in Int : Path(y1, b.pending, y2)
  BY <1>2, <1>5, <1>6
<1>8. PICK y3 \in Int : Path(y2, dn, y3)
  BY <1>3, <1>6, <1>7
<1>9. PICK y4 \in Int : Path(y3, d.tx, y4)
  BY <1>4, <1>6, <1>8
<1> QED
  BY <1>5, <1>7, <1>8, <1>9

LEMMA QueuedFeedKeeps ==
  ASSUME NEW d, NEW e, NEW f, NEW dn, NEW u, NEW b, NEW h, Typed(d, dn, u, b, h), e \in Daemon,
         QueuedFeed(d, e, f), Good(d, dn, u, b, h)
  PROVE  Good(e, dn, u, b, h) /\ (Ready(d, dn, u, b, h) => Ready(e, dn, u, b, h))
<1>1. /\ Queued(d, e, f) /\ f \in DownFrame /\ Grown(d.tx, e.tx, f) /\ IsFeed(f)
      /\ e.sent = d.sent /\ e.session = d.session /\ e.acked_gen = d.acked_gen /\ e.modes = d.modes
      /\ f.gen = d.minted + 1 /\ e.minted = d.minted + 1 /\ e.sent_gen = d.minted + 1 /\ d.session
      /\ f.base = d.shadow /\ f.text = e.shadow /\ d.rich # <<>> /\ e.rich = d.rich
  BY DEF QueuedFeed, Queued
<1>2. f.type # "VTSINK_RESET" /\ f.type # "PANE_MODES"
  BY <1>1 DEF IsFeed
<1>3. d \in Daemon /\ Len(d.tx) \in Nat /\ Frames(d.tx) /\ d.shadow \in Int /\ d.minted \in Nat /\ d.acked_gen \in Nat
  BY DaemonTyped DEF Typed
<1>4. e.shadow \in Int
  BY DaemonTyped
<1>5. Len(e.tx) = Len(d.tx) + 1 /\ e.tx[Len(d.tx) + 1] = f /\ \A i \in 1 .. Len(d.tx) : e.tx[i] = d.tx[i]
  BY <1>1 DEF Grown
<1>6. \A i \in 1 .. Len(d.tx) : IsFeed(d.tx[i]) => d.tx[i].gen \in Nat
  BY <1>3, GenTyped
<1>7. Token(e, dn, u, b)
  BY <1>1, <1>2, QueuedKeepsPlaces DEF Good
<1>8. Numbered(e, dn)
  <2>1. Numbered(d, dn)
    BY DEF Good
  <2>2. Upto(d.minted, d.tx) /\ Upto(d.minted, dn)
    BY <2>1 DEF Numbered
  <2>3. Upto(e.minted, d.tx)
    BY <1>1, <1>3, <1>6, <2>2 DEF Upto
  <2>4. \A i \in 1 .. Len(d.tx) : IsFeed(d.tx[i]) => d.tx[i].gen < f.gen
    BY <1>1, <1>3, <1>6, <2>2 DEF Upto
  <2>5. Rising(e.tx)
    BY <1>1, <2>1, <2>4, GrownRising DEF Numbered
  <2>6. e.minted \in Nat /\ f.gen <= e.minted
    BY <1>1, <1>3
  <2>7. Upto(e.minted, e.tx)
    BY <1>1, <2>3, <2>6, GrownAbove
  <2>8. \A i \in 1 .. Len(dn) : IsFeed(dn[i]) => dn[i].gen \in Nat
    BY SeqFrames, GenTyped DEF Typed
  <2>9. Upto(e.minted, dn)
    BY <1>1, <1>3, <2>2, <2>8 DEF Upto
  <2>10. ASSUME NEW i \in 1 .. Len(dn), IsFeed(dn[i]) PROVE Above(dn[i].gen, e.tx)
    <3>1. dn[i].gen \in Nat /\ dn[i].gen < f.gen
      BY <1>1, <1>3, <2>2, <2>8, <2>10 DEF Upto
    <3>2. Above(dn[i].gen, d.tx)
      BY <2>1, <2>10 DEF Numbered
    <3> QED
      BY <1>1, <3>1, <3>2, GrownAbove
  <2> QED
    BY <2>1, <2>5, <2>7, <2>9, <2>10 DEF Numbered
<1>9. Reported(e, dn, u, b)
  <2>1. Reported(d, dn, u, b)
    BY DEF Good
  <2>2. b.applied \in Nat
    BY ReceiverTyped DEF Typed
  <2>3. b.applied < f.gen
    BY <1>1, <1>3, <2>1, <2>2 DEF Reported
  <2>4. Above(b.applied, e.tx)
    BY <1>1, <2>1, <2>2, <2>3, GrownAbove DEF Reported
  <2>5. e.acked_gen <= d.acked_gen /\ d.minted <= e.minted
    BY <1>1, <1>3
  <2> QED
    BY <2>1, <2>4, <2>5, ReportedLower
<1>10. Books(e)
  <2>1. e.tx # <<>>
    BY <1>3, <1>5
  <2> QED
    BY <1>1, <2>1 DEF Books
<1>11. Window(e, dn, u, b)
  <2>1. Holds(e.sent_gen, e.tx)
    BY <1>1, QueuedKeepsHolds
  <2> QED
    BY <2>1 DEF Window
<1>12. \A y \in Int : d.shadow = NoText \/ y = d.shadow => Take1(y, f) = e.shadow
  BY <1>1 DEF Take1, Show, Full
<1>13. Screen(e, dn, u, b, h)
  <2>0. 0 \in 0 .. Len(d.tx)
    BY <1>3
  <2>a. \A x, y \in Int : Path(x, d.tx, y) => Path(x, e.tx, Take1(y, f))
    BY <1>1, <2>0, PathGrown DEF Path
  <2>1. CASE d.shadow = NoText
    <3>1. PICK y1, y2, y3, y4 \in Int :
            /\ CallPath(h.text, h.calls, y1) /\ Path(y1, b.pending, y2)
            /\ Path(y2, dn, y3) /\ Path(y3, d.tx, y4)
      BY WayTotal
    <3>2. Path(y3, e.tx, e.shadow)
      BY <1>12, <2>1, <2>a, <3>1
    <3> QED
      BY <3>1, <3>2 DEF Screen
  <2>2. CASE d.shadow # NoText /\ ~Broken(u, b, h)
    <3>1. PICK y1, y2, y3 \in Int :
            /\ CallPath(h.text, h.calls, y1) /\ Path(y1, b.pending, y2)
            /\ Path(y2, dn, y3) /\ Path(y3, d.tx, d.shadow)
      BY <2>2 DEF Good, Screen
    <3>2. Path(y3, e.tx, e.shadow)
      BY <1>3, <1>12, <2>a, <3>1
    <3> QED
      BY <3>1, <3>2 DEF Screen
  <2> QED
    BY <2>1, <2>2 DEF Screen
<1>14. ModesFollow(e, dn, b)
  <2>1. ModesFollow(d, dn, b)
    BY DEF Good
  <2>2. \A m : (LastModes(m, d.tx) => LastModes(m, e.tx)) /\ (HasNo("PANE_MODES", d.tx) => HasNo("PANE_MODES", e.tx))
    BY <1>1, <1>2, QueuedKeepsModes
  <2> QED
    BY <1>1, <2>1, <2>2 DEF ModesFollow
<1>15. Good(e, dn, u, b, h)
  BY <1>7, <1>8, <1>9, <1>10, <1>11, <1>13, <1>14 DEF Good
<1>16. Fresh(d) => Fresh(e)
  <2> SUFFICES ASSUME Fresh(d) PROVE Fresh(e)
    OBVIOUS
  <2>1. PICK j \in 1 .. Len(d.tx) :
          /\ d.tx[j].type = "TRANSACTION"
          /\ d.shadow # NoText => \A x \in Int : PathFrom(j, x, d.tx, d.shadow)
    BY DEF Fresh
  <2>2. j \in 1 .. Len(e.tx) /\ j \in 0 .. Len(d.tx) /\ e.tx[j].type = "TRANSACTION"
    BY <1>3, <1>5, <2>1
  <2>3. Len(e.tx) \in j + 1 .. Len(e.tx) /\ e.tx[Len(e.tx)] = f
    BY <1>3, <1>5
  <2>4. \E k \in j + 1 .. Len(e.tx) : IsFeed(e.tx[k]) /\ e.tx[k].gen = e.sent_gen
    BY <1>1, <2>3
  <2>5. ASSUME NEW x \in Int PROVE PathFrom(j, x, e.tx, e.shadow)
    <3>1. CASE d.shadow = NoText
      <4>1. PICK y \in Int : PathFrom(j, x, d.tx, y)
        BY <1>3, <2>2, PathTotal
      <4>2. PathFrom(j, x, e.tx, Take1(y, f))
        BY <1>1, <2>2, <4>1, PathGrown
      <4> QED
        BY <1>12, <3>1, <4>2
    <3>2. CASE d.shadow # NoText
      <4>1. PathFrom(j, x, d.tx, d.shadow)
        BY <2>1, <3>2
      <4>2. PathFrom(j, x, e.tx, Take1(d.shadow, f))
        BY <1>1, <1>3, <2>2, <4>1, PathGrown
      <4> QED
        BY <1>3, <1>12, <4>2
    <3> QED
      BY <3>1, <3>2
  <2> QED
    BY <2>2, <2>4, <2>5 DEF Fresh
<1>17. Ready(d, dn, u, b, h) => Ready(e, dn, u, b, h)
  BY <1>1, <1>16 DEF Ready, Covers
<1> QED
  BY <1>15, <1>17

LEMMA LeavesModes ==
  ASSUME NEW s, NEW t, NEW x, Leaves(s, 0, t, x), NEW m
  PROVE  LastModes(m, s) => LastModes(m, t)
<1> SUFFICES ASSUME LastModes(m, s) PROVE LastModes(m, t)
  OBVIOUS
<1>1. PICK i \in 1 .. Len(s) : s[i] = Modes(m) /\ \A j \in i + 1 .. Len(s) : s[j].type # "PANE_MODES"
  BY DEF LastModes
<1>2. /\ Len(s) \in Nat /\ Len(t) \in Nat /\ x \in [1 .. Len(t) -> 1 .. Len(s)]
      /\ \A k, l \in 1 .. Len(t) : k < l => x[k] < x[l]
      /\ \A k \in 1 .. Len(t) : t[k] = s[x[k]]
  BY DEF Leaves, Within
<1>3. Control(s[i])
  BY <1>1 DEF Control, Terminal, Modes
<1>4. PICK k \in 1 .. Len(t) : x[k] = i
  BY <1>3 DEF Leaves
<1>5. t[k] = Modes(m)
  BY <1>1, <1>2, <1>4
<1>6. ASSUME NEW l \in k + 1 .. Len(t) PROVE t[l].type # "PANE_MODES"
  <2>1. l \in 1 .. Len(t) /\ k < l
    BY <1>2
  <2>2. x[l] \in 1 .. Len(s) /\ i < x[l]
    BY <1>2, <1>4, <2>1
  <2>3. x[l] \in i + 1 .. Len(s)
    BY <1>2, <2>2
  <2> QED
    BY <1>1, <1>2, <2>1, <2>3
<1> QED
  BY <1>5, <1>6 DEF LastModes

LEMMA RecoveredKeeps ==
  ASSUME NEW d, NEW e, NEW dn, NEW u, NEW b, NEW h, Typed(d, dn, u, b, h), e \in Daemon,
         Recovered(d, e), Good(d, dn, u, b, h)
  PROVE  Good(e, dn, u, b, h) /\ Ready(e, dn, u, b, h)
<1>1. /\ ~e.session /\ e.sent_gen = 0 /\ e.acked_gen = 0 /\ e.shadow = NoText /\ e.rich = <<>>
      /\ d.minted <= e.minted /\ e.modes = d.modes /\ (e.sent > 0 => e.tx # <<>>)
  BY DEF Recovered
<1>2. PICK t, x : /\ Leaves(d.tx, 0, t, x)
                  /\ \/ e.tx = t
                     \/ d.session /\ \E f : f.type = "VTSINK_RESET" /\ Grown(t, e.tx, f)
  BY DEF Recovered
<1>3. d \in Daemon /\ Len(d.tx) \in Nat /\ Frames(d.tx) /\ d.minted \in Nat /\ e.minted \in Nat /\ d.acked_gen \in Nat
  BY DaemonTyped DEF Typed
<1>4. Thinned(d.tx, t) /\ t \in Seq(DownFrame)
  BY <1>2 DEF Leaves, Thinned
<1>5. /\ HasNo("VTSINK_RESET", d.tx) => HasNo("VTSINK_RESET", t)
      /\ HasOne("VTSINK_RESET", d.tx) => HasOne("VTSINK_RESET", t)
      /\ Rising(d.tx) => Rising(t)
      /\ \A g : Above(g, d.tx) => Above(g, t)
      /\ \A g : Upto(g, d.tx) => Upto(g, t)
      /\ HasNo("PANE_MODES", d.tx) => HasNo("PANE_MODES", t)
  BY <1>4, ThinnedKeeps
<1>6. ASSUME NEW f, f.type = "VTSINK_RESET", Grown(t, e.tx, f)
      PROVE  /\ Rising(t) => Rising(e.tx)
             /\ \A g \in Nat : Above(g, t) => Above(g, e.tx)
             /\ \A g \in Nat : Upto(g, t) => Upto(g, e.tx)
             /\ HasNo("PANE_MODES", t) => HasNo("PANE_MODES", e.tx)
             /\ \A m : LastModes(m, t) => LastModes(m, e.tx)
  <2>1. ~IsFeed(f) /\ f.type # "PANE_MODES"
    BY <1>6 DEF IsFeed
  <2>2. Rising(t) => Rising(e.tx)
    BY <1>6, <2>1, GrownRising
  <2>3. \A g \in Nat : (Above(g, t) => Above(g, e.tx)) /\ (Upto(g, t) => Upto(g, e.tx))
    BY <1>6, <2>1, GrownAbove
  <2>4. \A m : (LastModes(m, t) => LastModes(m, e.tx)) /\ (HasNo("PANE_MODES", t) => HasNo("PANE_MODES", e.tx))
    BY <1>6, <2>1, QueuedKeepsModes
  <2> QED
    BY <2>2, <2>3, <2>4
<1>7. /\ Rising(d.tx) => Rising(e.tx)
      /\ \A g \in Nat : Above(g, d.tx) => Above(g, e.tx)
      /\ \A g \in Nat : Upto(g, d.tx) => Upto(g, e.tx)
      /\ HasNo("PANE_MODES", d.tx) => HasNo("PANE_MODES", e.tx)
      /\ \A m : LastModes(m, d.tx) => LastModes(m, e.tx)
  <2>1. \A m : LastModes(m, d.tx) => LastModes(m, t)
    BY <1>2, LeavesModes
  <2> QED
    BY <1>2, <1>5, <1>6, <2>1
<1>8. Token(e, dn, u, b)
  <2>1. Token(d, dn, u, b)
    BY DEF Good
  <2>2. CASE e.tx = t
    <3>1. DaemonOne(e)
      BY <1>1, <1>5, <2>1, <2>2 DEF Token, DaemonOne
    <3>2. DaemonFree(d) => DaemonFree(e)
      BY <1>1, <1>5, <2>2 DEF DaemonFree
    <3> QED
      BY <2>1, <3>1, <3>2 DEF Token
  <2>3. CASE d.session /\ \E f : f.type = "VTSINK_RESET" /\ Grown(t, e.tx, f)
    <3>1. ~DaemonFree(d) /\ HasNo("VTSINK_RESET", d.tx)
      BY <2>1, <2>3 DEF DaemonFree, Token, DaemonOne
    <3>2. HasNo("VTSINK_RESET", dn) /\ BridgeFree(u, b)
      BY <2>1, <3>1 DEF Token
    <3>3. HasNo("VTSINK_RESET", t) /\ HasOne("VTSINK_RESET", t)
      BY <1>5, <3>1 DEF HasNo, HasOne
    <3>4. HasOne("VTSINK_RESET", e.tx)
      BY <2>3, <3>3, GrownHasOne
    <3>5. DaemonOne(e)
      BY <1>1, <3>4 DEF DaemonOne
    <3> QED
      BY <2>1, <3>2, <3>5 DEF Token
  <2> QED
    BY <1>2, <2>2, <2>3
<1>9. Numbered(e, dn)
  <2>1. Numbered(d, dn)
    BY DEF Good
  <2>2. \A i \in 1 .. Len(d.tx) : IsFeed(d.tx[i]) => d.tx[i].gen \in Nat
    BY <1>3, GenTyped
  <2>3. \A i \in 1 .. Len(dn) : IsFeed(dn[i]) => dn[i].gen \in Nat
    BY SeqFrames, GenTyped DEF Typed
  <2>4. Upto(e.minted, d.tx) /\ Upto(e.minted, dn)
    <3>1. Upto(d.minted, d.tx) /\ Upto(d.minted, dn)
      BY <2>1 DEF Numbered
    <3> QED
      BY <1>1, <1>3, <2>2, <2>3, <3>1 DEF Upto
  <2>5. \A i \in 1 .. Len(dn) : IsFeed(dn[i]) => Above(dn[i].gen, e.tx)
    BY <1>7, <2>1, <2>3 DEF Numbered
  <2> QED
    BY <1>3, <1>7, <2>1, <2>4, <2>5 DEF Numbered
<1>10. Reported(e, dn, u, b)
  <2>1. Reported(d, dn, u, b)
    BY DEF Good
  <2>2. b.applied \in Nat
    BY ReceiverTyped DEF Typed
  <2>3. Above(b.applied, e.tx)
    BY <1>7, <2>1, <2>2 DEF Reported
  <2>4. e.acked_gen <= d.acked_gen
    BY <1>1, <1>3
  <2> QED
    BY <1>1, <2>1, <2>3, <2>4, ReportedLower
<1>11. Books(e)
  BY <1>1 DEF Books
<1>12. Window(e, dn, u, b) /\ Screen(e, dn, u, b, h)
  BY <1>1 DEF Window, Screen
<1>13. ModesFollow(e, dn, b)
  BY <1>1, <1>7 DEF Good, ModesFollow
<1>14. Good(e, dn, u, b, h)
  BY <1>8, <1>9, <1>10, <1>11, <1>12, <1>13 DEF Good
<1> QED
  BY <1>1, <1>14 DEF Ready

Moves(d, e) ==
  \/ Still(d, e)
  \/ \E f : QueuedOther(d, e, f)
  \/ \E f : QueuedFeed(d, e, f)
  \/ Recovered(d, e)

LEMMA MovesKeep ==
  ASSUME NEW d, NEW e, NEW dn, NEW u, NEW b, NEW h, Typed(d, dn, u, b, h), e \in Daemon,
         Moves(d, e), Good(d, dn, u, b, h)
  PROVE  Good(e, dn, u, b, h) /\ (Ready(d, dn, u, b, h) => Ready(e, dn, u, b, h))
<1>1. CASE Still(d, e)
  BY <1>1, StillKeeps
<1>2. CASE \E f : QueuedOther(d, e, f)
  BY <1>2, QueuedOtherKeeps
<1>3. CASE \E f : QueuedFeed(d, e, f)
  BY <1>3, QueuedFeedKeeps
<1>4. CASE Recovered(d, e)
  BY <1>4, RecoveredKeeps
<1> QED
  BY <1>1, <1>2, <1>3, <1>4 DEF Moves

(* The frame that is partly sent stays in front. *)
Led(d, e) ==
  /\ e.sent = d.sent
  /\ d.sent > 0 /\ Len(d.tx) > 0 => Len(e.tx) > 0 /\ e.tx[1] = d.tx[1]

LEMMA LedOn ==
  ASSUME NEW d, NEW e, NEW g, Led(d, e), Led(e, g)
  PROVE  Led(d, g)
BY DEF Led

LEMMA LedGrown ==
  ASSUME NEW d \in Daemon, NEW e, NEW f, Grown(d.tx, e.tx, f), e.sent = d.sent
  PROVE  Led(d, e)
BY DEF Led, Grown

LEMMA LedSame ==
  ASSUME NEW d, NEW e, e.tx = d.tx, e.sent = d.sent
  PROVE  Led(d, e)
BY DEF Led

(* Every field but tx and want_close is left alone. *)
LEMMA EnqueueDoes ==
  ASSUME NEW d \in Daemon, NEW f \in DownFrame
  PROVE  /\ Enqueue(d, f) \in Daemon
         /\ CanFit(d, f) => Grown(d.tx, Enqueue(d, f).tx, f) /\ Enqueue(d, f).tx # d.tx
         /\ ~CanFit(d, f) => Enqueue(d, f).tx = d.tx
         /\ Enqueue(d, f).sent = d.sent /\ Enqueue(d, f).session = d.session /\ Enqueue(d, f).minted = d.minted
         /\ Enqueue(d, f).sent_gen = d.sent_gen /\ Enqueue(d, f).acked_gen = d.acked_gen
         /\ Enqueue(d, f).modes = d.modes /\ Enqueue(d, f).shadow = d.shadow /\ Enqueue(d, f).rich = d.rich
         /\ Led(d, Enqueue(d, f))
<1> PICK t : t = Append(d.tx, f)
  OBVIOUS
<1>1. d.tx \in Seq(DownFrame) /\ Len(d.tx) \in Nat
  BY DaemonTyped
<1>2. t \in Seq(DownFrame) /\ Grown(d.tx, t, f)
  BY <1>1, GrownIs
<1>3. t # d.tx
  BY <1>1, <1>2 DEF Grown
<1>4. CASE CanFit(d, f)
  <2>1. Enqueue(d, f) = [d EXCEPT !.tx = t]
    BY <1>4 DEF Enqueue
  <2>2. Enqueue(d, f) \in Daemon /\ Enqueue(d, f).tx = t
    BY <1>2, <2>1 DEF Daemon
  <2>3. /\ Enqueue(d, f).sent = d.sent /\ Enqueue(d, f).session = d.session /\ Enqueue(d, f).minted = d.minted
        /\ Enqueue(d, f).sent_gen = d.sent_gen /\ Enqueue(d, f).acked_gen = d.acked_gen
        /\ Enqueue(d, f).modes = d.modes /\ Enqueue(d, f).shadow = d.shadow /\ Enqueue(d, f).rich = d.rich
    BY <2>1 DEF Daemon
  <2>4. Led(d, Enqueue(d, f))
    BY <1>2, <2>2, <2>3, LedGrown
  <2> QED
    BY <1>2, <1>3, <1>4, <2>2, <2>3, <2>4
<1>5. CASE ~CanFit(d, f)
  <2>1. Enqueue(d, f) = [d EXCEPT !.want_close = TRUE]
    BY <1>5 DEF Enqueue
  <2>2. Enqueue(d, f) \in Daemon /\ Enqueue(d, f).tx = d.tx
    BY <2>1 DEF Daemon
  <2>3. /\ Enqueue(d, f).sent = d.sent /\ Enqueue(d, f).session = d.session /\ Enqueue(d, f).minted = d.minted
        /\ Enqueue(d, f).sent_gen = d.sent_gen /\ Enqueue(d, f).acked_gen = d.acked_gen
        /\ Enqueue(d, f).modes = d.modes /\ Enqueue(d, f).shadow = d.shadow /\ Enqueue(d, f).rich = d.rich
    BY <2>1 DEF Daemon
  <2>4. Led(d, Enqueue(d, f))
    BY <2>2, <2>3, LedSame
  <2> QED
    BY <1>5, <2>2, <2>3, <2>4
<1> QED
  BY <1>4, <1>5

LEMMA FramesTyped ==
  ASSUME pane \in Pane
  PROVE  /\ pane.text \in Nat /\ pane.top \in Nat /\ pane.figure \in Nat /\ pane.modes \in Nat
         /\ Modes(pane.modes) \in DownFrame
         /\ Plain("VTSINK_RESET") \in DownFrame /\ Plain("REFUSE") \in DownFrame
         /\ \A full \in BOOLEAN : Rich(full, pane.figure, pane.top) \in DownFrame
         /\ \A g \in Nat, y \in Int : Feed(g, y, pane.text) \in DownFrame
<1>1. pane.text \in Nat /\ pane.top \in Nat /\ pane.figure \in Nat /\ pane.modes \in Nat
  BY DEF Pane
<1>2. Modes(pane.modes) \in DownFrame
  BY <1>1 DEF DownFrame, ModesFrame, Modes
<1>3. Plain("VTSINK_RESET") \in DownFrame /\ Plain("REFUSE") \in DownFrame
  BY DEF DownFrame, PlainFrame, Plain
<1>4. \A full \in BOOLEAN : Rich(full, pane.figure, pane.top) \in DownFrame
  BY <1>1 DEF DownFrame, RichFrame, Rich
<1>5. \A g \in Nat, y \in Int : Feed(g, y, pane.text) \in DownFrame
  BY <1>1 DEF DownFrame, FeedFrame, Feed
<1> QED
  BY <1>1, <1>2, <1>3, <1>4, <1>5

LEMMA PushModesDoes ==
  ASSUME pane \in Pane, NEW d \in Daemon
  PROVE  PushModes(d) \in Daemon /\ Moves(d, PushModes(d)) /\ Led(d, PushModes(d))
<1> PICK p, m, f : p = Enqueue(d, f) /\ m = pane.modes /\ f = Modes(pane.modes)
  OBVIOUS
<1>1. m \in Nat /\ f \in DownFrame /\ f = Modes(m)
  BY FramesTyped
<1>2. /\ p \in Daemon
      /\ CanFit(d, f) => Grown(d.tx, p.tx, f) /\ p.tx # d.tx
      /\ ~CanFit(d, f) => p.tx = d.tx
      /\ p.sent = d.sent /\ p.session = d.session /\ p.minted = d.minted
      /\ p.sent_gen = d.sent_gen /\ p.acked_gen = d.acked_gen
      /\ p.modes = d.modes /\ p.shadow = d.shadow /\ p.rich = d.rich
      /\ Led(d, p)
  BY <1>1, EnqueueDoes
<1>3. CASE d.modes = <<m>>
  <2>1. PushModes(d) = d
    BY <1>3 DEF PushModes
  <2> QED
    BY <2>1 DEF Moves, Still, Led
<1>4. CASE d.modes # <<m>> /\ p.tx = d.tx
  <2>1. PushModes(d) = p
    BY <1>4 DEF PushModes
  <2>2. Still(d, p)
    BY <1>2, <1>4 DEF Still
  <2> QED
    BY <1>2, <2>1, <2>2 DEF Moves
<1>5. CASE d.modes # <<m>> /\ p.tx # d.tx
  <2> PICK e : e = [p EXCEPT !.modes = <<m>>]
    OBVIOUS
  <2>1. PushModes(d) = e
    BY <1>5 DEF PushModes
  <2>2. <<m>> \in Seq(Nat)
    BY <1>1
  <2>3. e \in Daemon
    BY <1>2, <2>2 DEF Daemon
  <2>4. /\ e.modes = <<m>> /\ e.tx = p.tx /\ e.sent = p.sent /\ e.session = p.session /\ e.minted = p.minted
        /\ e.sent_gen = p.sent_gen /\ e.acked_gen = p.acked_gen /\ e.shadow = p.shadow /\ e.rich = p.rich
    BY <1>2 DEF Daemon
  <2>5. Queued(d, e, f)
    BY <1>1, <1>2, <1>5, <2>4 DEF Queued
  <2>6. QueuedOther(d, e, f)
    BY <1>1, <1>2, <2>4, <2>5 DEF QueuedOther
  <2>7. Led(d, e)
    BY <1>2, <2>4 DEF Led
  <2> QED
    BY <2>1, <2>3, <2>6, <2>7 DEF Moves
<1> QED
  BY <1>3, <1>4, <1>5

(* What the projector forgets. *)
LEMMA ForgetDoes ==
  ASSUME NEW q \in Daemon
  PROVE  /\ ResyncWindow(Invalidate(q)) \in Daemon
         /\ ResyncWindow(Invalidate(q)).tx = q.tx /\ ResyncWindow(Invalidate(q)).sent = q.sent
         /\ ResyncWindow(Invalidate(q)).session = q.session /\ ResyncWindow(Invalidate(q)).minted = q.minted
         /\ ResyncWindow(Invalidate(q)).modes = q.modes
         /\ ResyncWindow(Invalidate(q)).sent_gen = 0 /\ ResyncWindow(Invalidate(q)).acked_gen = 0
         /\ ResyncWindow(Invalidate(q)).shadow = NoText /\ ResyncWindow(Invalidate(q)).rich = <<>>
<1>1. NoText \in Int /\ <<>> \in Seq([figure : Nat, top : Nat])
  BY EmptySeq DEF NoText
<1>2. PICK i : i = Invalidate(q)
  OBVIOUS
<1>3. i = [q EXCEPT !.shadow = NoText, !.rich = <<>>]
  BY <1>2 DEF Invalidate
<1>4. i \in Daemon
  BY <1>1, <1>3 DEF Daemon
<1>5. /\ i.tx = q.tx /\ i.sent = q.sent /\ i.session = q.session /\ i.minted = q.minted /\ i.modes = q.modes
      /\ i.shadow = NoText /\ i.rich = <<>>
  BY <1>3 DEF Daemon
<1>6. PICK e : e = ResyncWindow(i)
  OBVIOUS
<1>7. e = [i EXCEPT !.sent_gen = 0, !.acked_gen = 0]
  BY <1>6 DEF ResyncWindow
<1>8. e \in Daemon
  BY <1>4, <1>7 DEF Daemon
<1>9. /\ e.tx = i.tx /\ e.sent = i.sent /\ e.session = i.session /\ e.minted = i.minted /\ e.modes = i.modes
      /\ e.shadow = i.shadow /\ e.rich = i.rich /\ e.sent_gen = 0 /\ e.acked_gen = 0
  BY <1>4, <1>7 DEF Daemon
<1> QED
  BY <1>2, <1>5, <1>6, <1>8, <1>9

(* The destroyed session is announced. *)
LEMMA ResetDoes ==
  ASSUME NEW c \in Daemon, NEW f \in DownFrame, NEW q, q = Enqueue([c EXCEPT !.session = FALSE], f)
  PROVE  /\ q \in Daemon /\ ~q.session
         /\ q.sent = c.sent /\ q.minted = c.minted /\ q.modes = c.modes
         /\ q.tx = c.tx \/ Grown(c.tx, q.tx, f)
         /\ Led(c, q)
<1>1. PICK n : n = [c EXCEPT !.session = FALSE]
  OBVIOUS
<1>2. n \in Daemon
  BY <1>1 DEF Daemon
<1>3. n.tx = c.tx /\ n.sent = c.sent /\ ~n.session /\ n.minted = c.minted /\ n.modes = c.modes
  BY <1>1 DEF Daemon
<1>4. q = Enqueue(n, f)
  BY <1>1
<1>5. /\ Enqueue(n, f) \in Daemon
      /\ CanFit(n, f) => Grown(n.tx, Enqueue(n, f).tx, f) /\ Enqueue(n, f).tx # n.tx
      /\ ~CanFit(n, f) => Enqueue(n, f).tx = n.tx
      /\ Enqueue(n, f).sent = n.sent /\ Enqueue(n, f).session = n.session /\ Enqueue(n, f).minted = n.minted
      /\ Enqueue(n, f).sent_gen = n.sent_gen /\ Enqueue(n, f).acked_gen = n.acked_gen
      /\ Enqueue(n, f).modes = n.modes /\ Enqueue(n, f).shadow = n.shadow /\ Enqueue(n, f).rich = n.rich
      /\ Led(n, Enqueue(n, f))
  BY <1>2, EnqueueDoes
<1>6. /\ q \in Daemon /\ (q.tx = n.tx \/ Grown(n.tx, q.tx, f))
      /\ q.sent = n.sent /\ q.session = n.session /\ q.minted = n.minted /\ q.modes = n.modes
      /\ Led(n, q)
  BY <1>4, <1>5
<1>7. Led(c, q)
  BY <1>3, <1>6 DEF Led
<1> QED
  BY <1>3, <1>6, <1>7

LEMMA RecoverDoes ==
  ASSUME NEW d \in Daemon, d.sent > 0 => d.tx # <<>>
  PROVE  Recover(d) \in Daemon /\ Recovered(d, Recover(d)) /\ Led(d, Recover(d))
<1> PICK l, t : l = (IF d.sent > 0 THEN 1 ELSE 0) /\ t = Kept(d.tx, l)
  OBVIOUS
<1>a. PICK c : c = [d EXCEPT !.tx = t]
  OBVIOUS
<1> PICK f : f = Plain("VTSINK_RESET")
  OBVIOUS
<1>b. PICK q : q = IF d.session THEN Enqueue([c EXCEPT !.session = FALSE], f) ELSE c
  OBVIOUS
<1>1. DropTerminalFrames(d) = c
  BY <1>a DEF DropTerminalFrames
<1>2. Recover(d) = ResyncWindow(Invalidate(q))
  BY <1>1, <1>b DEF Recover
<1>3. d.tx \in Seq(DownFrame) /\ Len(d.tx) \in Nat /\ l \in {0, 1}
  BY DaemonTyped
<1>4. PICK x : Leaves(d.tx, l, t, x)
  BY <1>3, KeptLeaves
<1>5. /\ t \in Seq(DownFrame) /\ Len(t) \in Nat /\ x \in [1 .. Len(t) -> 1 .. Len(d.tx)]
      /\ \A i, j \in 1 .. Len(t) : i < j => x[i] < x[j]
      /\ \A i \in 1 .. Len(t) : t[i] = d.tx[x[i]]
      /\ \A i \in 1 .. Len(d.tx) : i <= l \/ Control(d.tx[i]) => \E k \in 1 .. Len(t) : x[k] = i
  BY <1>4 DEF Leaves, Within
<1>6. Leaves(d.tx, 0, t, x)
  BY <1>4 DEF Leaves
<1>7. d.sent > 0 /\ Len(d.tx) > 0 => Len(t) > 0 /\ t[1] = d.tx[1]
  <2> SUFFICES ASSUME d.sent > 0, Len(d.tx) > 0 PROVE Len(t) > 0 /\ t[1] = d.tx[1]
    OBVIOUS
  <2>1. 1 \in 1 .. Len(d.tx) /\ 1 <= l
    BY <1>3
  <2>2. PICK k \in 1 .. Len(t) : x[k] = 1
    BY <1>5, <2>1
  <2>3. 1 \in 1 .. Len(t) /\ x[1] \in 1 .. Len(d.tx)
    BY <1>5, <2>2
  <2>4. ~(1 < k)
    BY <1>3, <1>5, <2>2, <2>3
  <2>5. k = 1
    BY <1>5, <2>2, <2>4
  <2> QED
    BY <1>5, <2>2, <2>3, <2>5
<1>8. f \in DownFrame /\ f.type = "VTSINK_RESET"
  BY DEF DownFrame, PlainFrame, Plain
<1>9. c \in Daemon
  BY <1>5, <1>a DEF Daemon
<1>10. c.tx = t /\ c.sent = d.sent /\ c.session = d.session /\ c.minted = d.minted /\ c.modes = d.modes
  BY <1>a DEF Daemon
<1>11. /\ q \in Daemon /\ ~q.session
       /\ q.sent = d.sent /\ q.minted = d.minted /\ q.modes = d.modes
       /\ (q.tx = t \/ (d.session /\ Grown(t, q.tx, f)))
       /\ Led(c, q)
  <2>1. CASE ~d.session
    <3>1. q = c
      BY <1>b, <2>1
    <3>2. Led(c, q)
      BY <3>1 DEF Led
    <3> QED
      BY <1>9, <1>10, <2>1, <3>1, <3>2
  <2>2. CASE d.session
    <3>1. q = Enqueue([c EXCEPT !.session = FALSE], f)
      BY <1>b, <2>2
    <3>2. /\ q \in Daemon /\ ~q.session
          /\ q.sent = c.sent /\ q.minted = c.minted /\ q.modes = c.modes
          /\ q.tx = c.tx \/ Grown(c.tx, q.tx, f)
          /\ Led(c, q)
      BY <1>8, <1>9, <3>1, ResetDoes
    <3> QED
      BY <1>10, <2>2, <3>2
  <2> QED
    BY <2>1, <2>2
<1>12. PICK e : e = ResyncWindow(Invalidate(q))
  OBVIOUS
<1>13. Recover(d) = e
  BY <1>2, <1>12
<1>15. /\ ResyncWindow(Invalidate(q)) \in Daemon
       /\ ResyncWindow(Invalidate(q)).tx = q.tx /\ ResyncWindow(Invalidate(q)).sent = q.sent
       /\ ResyncWindow(Invalidate(q)).session = q.session /\ ResyncWindow(Invalidate(q)).minted = q.minted
       /\ ResyncWindow(Invalidate(q)).modes = q.modes
       /\ ResyncWindow(Invalidate(q)).sent_gen = 0 /\ ResyncWindow(Invalidate(q)).acked_gen = 0
       /\ ResyncWindow(Invalidate(q)).shadow = NoText /\ ResyncWindow(Invalidate(q)).rich = <<>>
  BY <1>11, ForgetDoes
<1>16. /\ e \in Daemon
       /\ e.tx = q.tx /\ e.sent = q.sent /\ e.session = q.session /\ e.minted = q.minted /\ e.modes = q.modes
       /\ e.sent_gen = 0 /\ e.acked_gen = 0 /\ e.shadow = NoText /\ e.rich = <<>>
  BY <1>12, <1>15
<1>17. Led(d, c) /\ Led(c, q) /\ Led(q, e)
  BY <1>7, <1>10, <1>11, <1>16 DEF Led
<1>18. Led(d, e)
  BY <1>17, LedOn
<1>19. e.sent > 0 => e.tx # <<>>
  <2> SUFFICES ASSUME e.sent > 0 PROVE e.tx # <<>>
    OBVIOUS
  <2>1. d.sent > 0 /\ d.tx # <<>>
    BY <1>11, <1>16
  <2>2. Len(d.tx) > 0
    BY <1>3, <2>1, EmptySeq
  <2>3. Len(e.tx) > 0
    BY <1>18, <2>1, <2>2 DEF Led
  <2> QED
    BY <2>3
<1>20. d.minted <= e.minted
  <2>1. d.minted \in Nat /\ e.minted = d.minted
    BY <1>11, <1>16, DaemonTyped
  <2> QED
    BY <2>1
<1>21. e.tx = t \/ (d.session /\ \E g : g.type = "VTSINK_RESET" /\ Grown(t, e.tx, g))
  BY <1>8, <1>11, <1>16
<1>22. ~e.session /\ e.modes = d.modes
  BY <1>11, <1>16
<1>23. Recovered(d, e)
  BY <1>6, <1>16, <1>19, <1>20, <1>21, <1>22 DEF Recovered
<1> QED
  BY <1>13, <1>16, <1>18, <1>23

(* Recovery forgets what only concerns the projection. *)
LEMMA RecoveredFrom ==
  ASSUME NEW d, NEW c, NEW e, Recovered(c, e), c.tx = d.tx, c.session = d.session,
         c.modes = d.modes, d.minted \in Nat, c.minted \in Nat, e.minted \in Nat, d.minted <= c.minted
  PROVE  Recovered(d, e)
<1>1. c.minted <= e.minted
  BY DEF Recovered
<1>2. d.minted <= e.minted
  BY <1>1
<1> QED
  BY <1>2 DEF Recovered

LEMMA StrikeDoes ==
  ASSUME NEW d \in Daemon
  PROVE  /\ Strike(d) \in Daemon /\ Still(d, Strike(d)) /\ Led(d, Strike(d))
         /\ KeepsUp(d) \in Daemon /\ Still(d, KeepsUp(d)) /\ Led(d, KeepsUp(d))
<1>0. RECOVER_LIMIT \in Nat
  BY FeedAssumption
<1>1. PICK n, w : n = (IF d.drained THEN 0 ELSE d.strikes + 1) /\ w = (d.want_close \/ n >= RECOVER_LIMIT)
  OBVIOUS
<1>2. n \in Nat /\ w \in BOOLEAN
  <2>1. n \in Nat
    BY <1>1, DaemonTyped
  <2> QED
    BY <1>1, <2>1
<1>3. PICK e : e = [d EXCEPT !.strikes = n, !.drained = FALSE, !.want_close = w]
  OBVIOUS
<1>4. Strike(d) = e
  BY <1>1, <1>3 DEF Strike, Daemon
<1>5. e \in Daemon
  BY <1>2, <1>3 DEF Daemon
<1>6. Still(d, e) /\ Led(d, e)
  BY <1>3 DEF Daemon, Still, Led
<1>7. KeepsUp(d) \in Daemon
  BY DEF Daemon, KeepsUp
<1>8. Still(d, KeepsUp(d)) /\ Led(d, KeepsUp(d))
  BY DEF Daemon, KeepsUp, Still, Led
<1> QED
  BY <1>4, <1>5, <1>6, <1>7, <1>8

LEMMA RichShadowDoes ==
  ASSUME pane \in Pane, NEW d \in Daemon
  PROVE  LET e == RichShadow(d)
         IN  /\ e \in Daemon /\ e.rich # <<>> /\ Led(d, e)
             /\ e.tx = d.tx /\ e.sent = d.sent /\ e.session = d.session /\ e.minted = d.minted
             /\ e.sent_gen = d.sent_gen /\ e.acked_gen = d.acked_gen /\ e.modes = d.modes
             /\ e.shadow = d.shadow
<1>1. PICK x : x = <<[figure |-> pane.figure, top |-> pane.top]>>
  OBVIOUS
<1>2. x \in Seq([figure : Nat, top : Nat]) /\ x # <<>>
  BY <1>1 DEF Pane
<1>3. RichShadow(d) = [d EXCEPT !.rich = x]
  BY <1>1 DEF RichShadow
<1>4. RichShadow(d) \in Daemon
  BY <1>2, <1>3 DEF Daemon
<1> QED
  BY <1>2, <1>3, <1>4 DEF Daemon, Led

LEMMA PushRichDoes ==
  ASSUME pane \in Pane, NEW d \in Daemon, RichFits(d)
  PROVE  PushRich(d) \in Daemon /\ Moves(d, PushRich(d)) /\ Led(d, PushRich(d)) /\ PushRich(d).rich # <<>>
<1>1. CASE ~RichDue(d)
  <2>1. PushRich(d) = d /\ d.rich # <<>>
    BY <1>1 DEF PushRich, RichDue, FiguresChanged
  <2> QED
    BY <2>1 DEF Moves, Still, Led
<1>2. CASE RichDue(d)
  <2>1. PICK c, f, e : c = RichShadow(d) /\ f = RichBody(d) /\ e = Enqueue(c, f)
    OBVIOUS
  <2>2. PushRich(d) = e
    BY <1>2, <2>1 DEF PushRich
  <2>3. /\ c \in Daemon /\ c.rich # <<>> /\ Led(d, c)
        /\ c.tx = d.tx /\ c.sent = d.sent /\ c.session = d.session /\ c.minted = d.minted
        /\ c.sent_gen = d.sent_gen /\ c.acked_gen = d.acked_gen /\ c.modes = d.modes
        /\ c.shadow = d.shadow
    BY <2>1, RichShadowDoes
  <2>4. FiguresChanged(d) \in BOOLEAN
    BY DEF FiguresChanged
  <2>5. f \in DownFrame /\ f.type = "TRANSACTION"
    BY <2>1, <2>4, FramesTyped DEF RichBody, Rich
  <2>6. CanFit(d, f)
    BY <1>2, <2>1 DEF RichFits
  <2>7. CanFit(c, f)
    BY <2>3, <2>6 DEF CanFit
  <2>8. /\ e \in Daemon
        /\ CanFit(c, f) => Grown(c.tx, e.tx, f) /\ e.tx # c.tx
        /\ ~CanFit(c, f) => e.tx = c.tx
        /\ e.sent = c.sent /\ e.session = c.session /\ e.minted = c.minted
        /\ e.sent_gen = c.sent_gen /\ e.acked_gen = c.acked_gen
        /\ e.modes = c.modes /\ e.shadow = c.shadow /\ e.rich = c.rich
        /\ Led(c, e)
    BY <2>1, <2>3, <2>5, EnqueueDoes
  <2>9. Queued(d, e, f)
    BY <2>3, <2>5, <2>7, <2>8 DEF Queued
  <2>10. QueuedOther(d, e, f)
    BY <2>3, <2>5, <2>8, <2>9 DEF QueuedOther
  <2>11. Led(d, e)
    BY <2>3, <2>8, LedOn
  <2> QED
    BY <2>2, <2>3, <2>8, <2>10, <2>11 DEF Moves
<1> QED
  BY <1>1, <1>2

LEMMA TextShadowDoes ==
  ASSUME pane \in Pane, NEW d \in Daemon
  PROVE  LET e == TextShadow(d)
         IN  /\ e \in Daemon /\ e.shadow = pane.text /\ Led(d, e)
             /\ e.tx = d.tx /\ e.sent = d.sent /\ e.session = d.session /\ e.minted = d.minted
             /\ e.sent_gen = d.sent_gen /\ e.acked_gen = d.acked_gen /\ e.modes = d.modes
             /\ e.rich = d.rich
<1>1. PICK x : x = pane.text
  OBVIOUS
<1>2. x \in Int
  BY <1>1 DEF Pane
<1>3. TextShadow(d) = [d EXCEPT !.shadow = x]
  BY <1>1 DEF TextShadow
<1>4. TextShadow(d) \in Daemon
  BY <1>2, <1>3 DEF Daemon
<1> QED
  BY <1>1, <1>3, <1>4 DEF Daemon, Led

LEMMA PushTextDoes ==
  ASSUME pane \in Pane, NEW d \in Daemon, TextDue(d), CanFit(d, NextFeed(d)), d.rich # <<>>
  PROVE  PushText(d) \in Daemon /\ Moves(d, PushText(d)) /\ Led(d, PushText(d))
<1>1. PICK c, f, q : c = TextShadow(d) /\ f = NextFeed(d) /\ q = Enqueue(c, f)
  OBVIOUS
<1>2. PICK m : m = d.minted + 1
  OBVIOUS
<1>3. d.minted \in Nat /\ d.shadow \in Int /\ m \in Nat
  BY <1>2, DaemonTyped
<1>4. /\ c \in Daemon /\ c.shadow = pane.text /\ Led(d, c)
      /\ c.tx = d.tx /\ c.sent = d.sent /\ c.session = d.session /\ c.minted = d.minted
      /\ c.sent_gen = d.sent_gen /\ c.acked_gen = d.acked_gen /\ c.modes = d.modes
      /\ c.rich = d.rich
  BY <1>1, TextShadowDoes
<1>5. f \in DownFrame
  BY <1>1, <1>2, <1>3, FramesTyped DEF NextFeed
<1>6. IsFeed(f) /\ f.gen = m /\ f.base = d.shadow /\ f.text = pane.text
  BY <1>1, <1>2 DEF NextFeed, Feed, IsFeed
<1>7. CanFit(c, f)
  BY <1>1, <1>4 DEF CanFit
<1>8. /\ q \in Daemon
      /\ CanFit(c, f) => Grown(c.tx, q.tx, f) /\ q.tx # c.tx
      /\ ~CanFit(c, f) => q.tx = c.tx
      /\ q.sent = c.sent /\ q.session = c.session /\ q.minted = c.minted
      /\ q.sent_gen = c.sent_gen /\ q.acked_gen = c.acked_gen
      /\ q.modes = c.modes /\ q.shadow = c.shadow /\ q.rich = c.rich
      /\ Led(c, q)
  BY <1>1, <1>4, <1>5, EnqueueDoes
<1>9. PICK e : e = [q EXCEPT !.minted = m, !.sent_gen = m]
  OBVIOUS
<1>10. PushText(d) = e
  <2>1. q.minted + 1 = m
    BY <1>2, <1>4, <1>8
  <2>2. PushText(d) = [q EXCEPT !.minted = @ + 1, !.sent_gen = d.minted + 1]
    BY <1>1 DEF PushText
  <2> QED
    BY <1>2, <1>8, <1>9, <2>1, <2>2 DEF Daemon
<1>11. e \in Daemon
  BY <1>3, <1>8, <1>9 DEF Daemon
<1>12. /\ e.tx = q.tx /\ e.sent = q.sent /\ e.session = q.session /\ e.minted = m
       /\ e.sent_gen = m /\ e.acked_gen = q.acked_gen
       /\ e.modes = q.modes /\ e.shadow = q.shadow /\ e.rich = q.rich
  BY <1>8, <1>9 DEF Daemon
<1>13. Queued(d, e, f)
  BY <1>4, <1>5, <1>7, <1>8, <1>12 DEF Queued
<1>14. d.session
  BY DEF TextDue
<1>15. QueuedFeed(d, e, f)
  BY <1>2, <1>4, <1>6, <1>8, <1>12, <1>13, <1>14 DEF QueuedFeed
<1>16. Led(q, e)
  BY <1>12 DEF Led
<1>17. Led(d, e)
  BY <1>4, <1>8, <1>16, LedOn
<1> QED
  BY <1>10, <1>11, <1>15, <1>17 DEF Moves

(* Recovery after the projection's shadow was committed. *)
LEMMA RecoverAfter ==
  ASSUME NEW d \in Daemon, d.sent > 0 => d.tx # <<>>, NEW c \in Daemon,
         c.tx = d.tx, c.sent = d.sent, c.session = d.session, c.modes = d.modes, d.minted <= c.minted
  PROVE  Recover(c) \in Daemon /\ Moves(d, Recover(c)) /\ Led(d, Recover(c))
<1>1. Recover(c) \in Daemon /\ Recovered(c, Recover(c)) /\ Led(c, Recover(c))
  BY RecoverDoes
<1>2. d.minted \in Nat /\ c.minted \in Nat /\ Recover(c).minted \in Nat
  BY <1>1, DaemonTyped
<1>3. Recovered(d, Recover(c))
  BY <1>1, <1>2, RecoveredFrom
<1>4. Led(d, c)
  BY DEF Led
<1>5. Led(d, Recover(c))
  BY <1>1, <1>4, LedOn
<1> QED
  BY <1>1, <1>3, <1>5 DEF Moves

LEMMA RecoverShadowDoes ==
  ASSUME pane \in Pane, NEW d \in Daemon, d.sent > 0 => d.tx # <<>>
  PROVE  /\ Recover(RichShadow(d)) \in Daemon /\ Moves(d, Recover(RichShadow(d)))
         /\ Led(d, Recover(RichShadow(d)))
         /\ Recover(TextShadow(d)) \in Daemon /\ Moves(d, Recover(TextShadow(d)))
         /\ Led(d, Recover(TextShadow(d)))
         /\ FeedFailed(d) \in Daemon /\ Moves(d, FeedFailed(d)) /\ Led(d, FeedFailed(d))
<1>1. d.minted \in Nat
  BY DaemonTyped
<1>2. PICK c : c = RichShadow(d)
  OBVIOUS
<1>3. /\ c \in Daemon /\ c.tx = d.tx /\ c.sent = d.sent /\ c.session = d.session
      /\ c.minted = d.minted /\ c.modes = d.modes
  BY <1>2, RichShadowDoes
<1>4. d.minted <= c.minted
  BY <1>1, <1>3
<1>5. Recover(c) \in Daemon /\ Moves(d, Recover(c)) /\ Led(d, Recover(c))
  BY <1>3, <1>4, RecoverAfter
<1>6. PICK t : t = TextShadow(d)
  OBVIOUS
<1>7. /\ t \in Daemon /\ t.tx = d.tx /\ t.sent = d.sent /\ t.session = d.session
      /\ t.minted = d.minted /\ t.modes = d.modes
  BY <1>6, TextShadowDoes
<1>8. d.minted <= t.minted
  BY <1>1, <1>7
<1>9. Recover(t) \in Daemon /\ Moves(d, Recover(t)) /\ Led(d, Recover(t))
  BY <1>7, <1>8, RecoverAfter
<1>10. PICK m : m = t.minted + 1
  OBVIOUS
<1>11. PICK v : v = [t EXCEPT !.minted = m]
  OBVIOUS
<1>12. m \in Nat
  BY <1>1, <1>7, <1>10
<1>13. v \in Daemon
  BY <1>7, <1>11, <1>12 DEF Daemon
<1>14. v.tx = t.tx /\ v.sent = t.sent /\ v.session = t.session /\ v.minted = m /\ v.modes = t.modes
  BY <1>7, <1>11 DEF Daemon
<1>15. v.tx = d.tx /\ v.sent = d.sent /\ v.session = d.session /\ v.modes = d.modes /\ d.minted <= v.minted
  BY <1>1, <1>7, <1>10, <1>14
<1>16. Recover(v) \in Daemon /\ Moves(d, Recover(v)) /\ Led(d, Recover(v))
  BY <1>13, <1>15, RecoverAfter
<1>17. FeedFailed(d) = Recover(v)
  BY <1>6, <1>7, <1>10, <1>11 DEF FeedFailed
<1> QED
  BY <1>2, <1>5, <1>6, <1>9, <1>16, <1>17

-----------------------------------------------------------------------------
(* The daemon's steps.                                                      *)

LEMMA GoodBooks ==
  ASSUME NEW d, NEW dn, NEW u, NEW b, NEW h, Good(d, dn, u, b, h)
  PROVE  d.sent > 0 => d.tx # <<>>
BY DEF Good, Books

LEMMA ProjectKeeps ==
  ASSUME TypeInv, Good(daemon, down, up, bridge, host), Project
  PROVE  /\ daemon' \in Daemon /\ faults' \in Nat /\ Led(daemon, daemon')
         /\ UNCHANGED <<pane, down, up, bridge, host>>
         /\ Good(daemon', down, up, bridge, host)
         /\ Ready(daemon, down, up, bridge, host) => Ready(daemon', down, up, bridge, host)
<1>1. /\ pane \in Pane /\ daemon \in Daemon /\ down \in Seq(DownFrame) /\ up \in Seq(UpFrame)
      /\ bridge \in Receiver /\ host \in HostEnd /\ faults \in Nat
  BY DEF TypeInv
<1> DEFINE Fine(e) == /\ e \in Daemon /\ Led(daemon, e) /\ Good(e, down, up, bridge, host)
                      /\ Ready(daemon, down, up, bridge, host) => Ready(e, down, up, bridge, host)
<1>2. ASSUME NEW d, NEW e, Fine(d), e \in Daemon, Moves(d, e), Led(d, e) PROVE Fine(e)
  <2>1. Typed(d, down, up, bridge, host)
    BY <1>1, <1>2 DEF Typed
  <2>2. Good(e, down, up, bridge, host) /\ (Ready(d, down, up, bridge, host) => Ready(e, down, up, bridge, host))
    BY <1>2, <2>1, MovesKeep
  <2>3. Led(daemon, e)
    BY <1>2, LedOn
  <2> QED
    BY <1>2, <2>2, <2>3
<1>3. Fine(daemon)
  BY <1>1 DEF Led
<1>4. PICK p : p = PushModes(daemon)
  OBVIOUS
<1>5. Fine(p)
  <2>1. p \in Daemon /\ Moves(daemon, p) /\ Led(daemon, p)
    BY <1>1, <1>4, PushModesDoes
  <2> QED
    BY <1>2, <1>3, <2>1
<1>6. CASE ProjectNothing
  <2>1. daemon' = p /\ UNCHANGED <<pane, down, up, bridge, host, faults>>
    BY <1>4, <1>6 DEF ProjectNothing
  <2> QED
    BY <1>1, <1>5, <2>1
<1>7. CASE ProjectBacklogged
  <2>1. daemon' = Strike(Recover(p)) /\ UNCHANGED <<pane, down, up, bridge, host, faults>>
    BY <1>4, <1>7 DEF ProjectBacklogged
  <2>2. PICK c : c = Recover(p)
    OBVIOUS
  <2>3. p \in Daemon /\ (p.sent > 0 => p.tx # <<>>)
    BY <1>5, GoodBooks
  <2>4. c \in Daemon /\ Recovered(p, c) /\ Led(p, c)
    BY <2>2, <2>3, RecoverDoes
  <2>5. Fine(c)
    BY <1>2, <1>5, <2>4 DEF Moves
  <2>6. Strike(c) \in Daemon /\ Still(c, Strike(c)) /\ Led(c, Strike(c))
    BY <2>4, StrikeDoes
  <2>7. Fine(Strike(c))
    BY <1>2, <2>5, <2>6 DEF Moves
  <2> QED
    BY <1>1, <2>1, <2>2, <2>7
<1>8. CASE ProjectContent
  <2>1. PICK d, r : d = KeepsUp(p) /\ r = PushRich(d)
    OBVIOUS
  <2>2. /\ \/ ~RichFits(d) /\ daemon' = Recover(RichShadow(d)) /\ UNCHANGED faults
           \/ RichFits(d) /\ ~TextDue(r) /\ daemon' = r /\ UNCHANGED faults
           \/ RichFits(d) /\ TextDue(r) /\ ~CanFit(r, NextFeed(r)) /\ daemon' = Recover(TextShadow(r)) /\ UNCHANGED faults
           \/ RichFits(d) /\ TextDue(r) /\ CanFit(r, NextFeed(r)) /\ daemon' = PushText(r) /\ UNCHANGED faults
           \/ RichFits(d) /\ TextDue(r) /\ daemon' = FeedFailed(r) /\ faults' = faults + 1
        /\ UNCHANGED <<pane, down, up, bridge, host>>
    <3>1. \E d1 \in {KeepsUp(PushModes(daemon))} : \E r1 \in {PushRich(d1)} :
           /\ \/ ~RichFits(d1) /\ daemon' = Recover(RichShadow(d1)) /\ UNCHANGED faults
              \/ RichFits(d1) /\ ~TextDue(r1) /\ daemon' = r1 /\ UNCHANGED faults
              \/ RichFits(d1) /\ TextDue(r1) /\ ~CanFit(r1, NextFeed(r1)) /\ daemon' = Recover(TextShadow(r1)) /\ UNCHANGED faults
              \/ RichFits(d1) /\ TextDue(r1) /\ CanFit(r1, NextFeed(r1)) /\ daemon' = PushText(r1) /\ UNCHANGED faults
              \/ RichFits(d1) /\ TextDue(r1) /\ daemon' = FeedFailed(r1) /\ faults' = faults + 1
           /\ UNCHANGED <<pane, down, up, bridge, host>>
      BY <1>8, Zenon DEF ProjectContent
    <3> QED
      BY <1>4, <2>1, <3>1
  <2>3. p \in Daemon
    BY <1>5
  <2>4. d \in Daemon /\ Still(p, d) /\ Led(p, d)
    BY <2>1, <2>3, StrikeDoes
  <2>5. Fine(d)
    BY <1>2, <1>5, <2>4 DEF Moves
  <2>6. d.sent > 0 => d.tx # <<>>
    BY <2>5, GoodBooks
  <2>7. CASE ~RichFits(d) /\ daemon' = Recover(RichShadow(d)) /\ UNCHANGED faults
    <3>1. Recover(RichShadow(d)) \in Daemon /\ Moves(d, Recover(RichShadow(d))) /\ Led(d, Recover(RichShadow(d)))
      BY <1>1, <2>4, <2>6, RecoverShadowDoes
    <3>2. Fine(Recover(RichShadow(d)))
      BY <1>2, <2>5, <3>1
    <3> QED
      BY <1>1, <2>2, <2>7, <3>2
  <2>8. CASE RichFits(d)
    <3>1. r \in Daemon /\ Moves(d, r) /\ Led(d, r) /\ r.rich # <<>>
      BY <1>1, <2>1, <2>4, <2>8, PushRichDoes
    <3>2. Fine(r)
      BY <1>2, <2>5, <3>1
    <3>3. r.sent > 0 => r.tx # <<>>
      BY <3>2, GoodBooks
    <3>4. /\ Recover(TextShadow(r)) \in Daemon /\ Moves(r, Recover(TextShadow(r))) /\ Led(r, Recover(TextShadow(r)))
          /\ FeedFailed(r) \in Daemon /\ Moves(r, FeedFailed(r)) /\ Led(r, FeedFailed(r))
      BY <1>1, <3>1, <3>3, RecoverShadowDoes
    <3>5. Fine(Recover(TextShadow(r))) /\ Fine(FeedFailed(r))
      BY <1>2, <3>2, <3>4
    <3>6. CASE ~TextDue(r) /\ daemon' = r /\ UNCHANGED faults
      BY <1>1, <2>2, <3>2, <3>6
    <3>7. CASE TextDue(r) /\ daemon' = Recover(TextShadow(r)) /\ UNCHANGED faults
      BY <1>1, <2>2, <3>5, <3>7
    <3>8. CASE TextDue(r) /\ CanFit(r, NextFeed(r)) /\ daemon' = PushText(r) /\ UNCHANGED faults
      <4>1. PushText(r) \in Daemon /\ Moves(r, PushText(r)) /\ Led(r, PushText(r))
        BY <1>1, <3>1, <3>8, PushTextDoes
      <4>2. Fine(PushText(r))
        BY <1>2, <3>2, <4>1
      <4> QED
        BY <1>1, <2>2, <3>8, <4>2
    <3>9. CASE TextDue(r) /\ daemon' = FeedFailed(r) /\ faults' = faults + 1
      BY <1>1, <2>2, <3>5, <3>9
    <3> QED
      BY <2>2, <2>8, <3>6, <3>7, <3>8, <3>9
  <2> QED
    BY <2>2, <2>7, <2>8
<1> QED
  BY <1>6, <1>7, <1>8 DEF Project

LEMMA UpThinned ==
  ASSUME NEW d, NEW dn, NEW u, NEW t, NEW b, NEW h, Typed(d, dn, u, b, h), t \in Seq(UpFrame), Thinned(u, t)
  PROVE  /\ Token(d, dn, u, b) => Token(d, dn, t, b)
         /\ Reported(d, dn, u, b) => Reported(d, dn, t, b)
<1>1. /\ HasNo("VTSINK_PUBLISH", u) => HasNo("VTSINK_PUBLISH", t)
      /\ HasOne("VTSINK_PUBLISH", u) => HasOne("VTSINK_PUBLISH", t)
      /\ \A i \in 1 .. Len(t) : \E j \in 1 .. Len(u) : t[i] = u[j]
  BY ThinnedKeeps
<1>2. Token(d, dn, u, b) => Token(d, dn, t, b)
  BY <1>1 DEF Token, BridgeOne, BridgeFree
<1>3. \A g : Newer(g, d, u, b) => Newer(g, d, t, b)
  BY <1>1 DEF Newer
<1>4. AcksRise(d, u) => AcksRise(d, t)
  <2>1. PICK e : Within(u, t, e)
    BY DEF Thinned
  <2>2. \A i \in 1 .. Len(t) : e[i] \in 1 .. Len(u) /\ t[i] = u[e[i]]
    BY <2>1 DEF Within
  <2>3. \A i, j \in 1 .. Len(t) : i < j => e[i] < e[j]
    BY <2>1 DEF Within
  <2> SUFFICES ASSUME AcksRise(d, u) PROVE AcksRise(d, t)
    OBVIOUS
  <2>4. \A i, j \in 1 .. Len(t) : t[i].type = "ACK" /\ t[j].type = "ACK" /\ i < j
                                   => t[i].gen < t[j].gen
    BY <2>2, <2>3 DEF AcksRise
  <2>5. \A i \in 1 .. Len(t) : t[i].type = "ACK" => d.acked_gen < t[i].gen
    BY <2>2 DEF AcksRise
  <2> QED
    BY <2>4, <2>5 DEF AcksRise
<1>5. Reported(d, dn, u, b) => Reported(d, dn, t, b)
  BY <1>3, <1>4 DEF Reported
<1> QED
  BY <1>2, <1>5

LEMMA AckKeeps ==
  ASSUME NEW d, NEW e, NEW dn, NEW u, NEW t, NEW b, NEW h, Typed(d, dn, u, b, h), t \in Seq(UpFrame),
         Tailed(u, t), u[1].type = "ACK", e = [d EXCEPT !.acked_gen = u[1].gen],
         Good(d, dn, u, b, h)
  PROVE  /\ e \in Daemon /\ Led(d, e) /\ Good(e, dn, t, b, h)
         /\ Ready(d, dn, u, b, h) => Ready(e, dn, t, b, h)
<1>1. Len(t) \in Nat /\ Len(u) = Len(t) + 1 /\ \A i \in 1 .. Len(t) : t[i] = u[i + 1]
  BY DEF Tailed
<1>2. 1 \in 1 .. Len(u) /\ \A i \in 1 .. Len(t) : i + 1 \in 1 .. Len(u) /\ 1 < i + 1
  BY <1>1
<1>3. PICK g : g = u[1].gen
  OBVIOUS
<1>4. \A i \in 1 .. Len(u) : u[i].type = "ACK" => u[i].gen \in Nat
  BY UpTyped DEF Typed
<1>5. g \in Nat
  BY <1>2, <1>3, <1>4
<1>6. d \in Daemon /\ e \in Daemon
  BY <1>3, <1>5 DEF Typed, Daemon
<1>7. /\ e.tx = d.tx /\ e.sent = d.sent /\ e.session = d.session /\ e.minted = d.minted
      /\ e.sent_gen = d.sent_gen /\ e.acked_gen = g /\ e.modes = d.modes
      /\ e.shadow = d.shadow /\ e.rich = d.rich
  BY <1>3, <1>6 DEF Daemon
<1>8. Thinned(u, t)
  BY TailedThins
<1>9. Token(d, dn, t, b) /\ Reported(d, dn, u, b)
  BY <1>8, UpThinned DEF Good
<1>10. Token(e, dn, t, b)
  BY <1>7, <1>9 DEF Token, DaemonOne, DaemonFree
<1>11. Numbered(e, dn)
  BY <1>7 DEF Good, Numbered
<1>12. Books(e)
  BY <1>7 DEF Good, Books
<1>13. \A x : Newer(x, d, u, b) => Newer(x, e, t, b)
  BY <1>1, <1>2, <1>3, <1>7 DEF Newer
<1>14. AcksRise(e, t)
  <2>1. AcksRise(d, u)
    BY <1>9 DEF Reported
  <2>2. \A i \in 1 .. Len(t) : t[i].type = "ACK" => g < t[i].gen
    BY <1>1, <1>2, <1>3, <2>1 DEF AcksRise
  <2>3. \A i, j \in 1 .. Len(t) : t[i].type = "ACK" /\ t[j].type = "ACK" /\ i < j => t[i].gen < t[j].gen
    <3> SUFFICES ASSUME NEW i \in 1 .. Len(t), NEW j \in 1 .. Len(t), t[i].type = "ACK", t[j].type = "ACK", i < j
                 PROVE  t[i].gen < t[j].gen
      OBVIOUS
    <3>1. i + 1 \in 1 .. Len(u) /\ j + 1 \in 1 .. Len(u) /\ i + 1 < j + 1
      BY <1>1
    <3> QED
      BY <1>1, <2>1, <3>1 DEF AcksRise
  <2> QED
    BY <1>7, <2>2, <2>3 DEF AcksRise
<1>15. Reported(e, dn, t, b)
  BY <1>7, <1>9, <1>13, <1>14 DEF Reported
<1>16. NoResync(u) <=> NoResync(t)
  <2>1. NoResync(u) => NoResync(t)
    BY <1>8, ThinnedKeeps DEF NoResync
  <2>2. ASSUME NoResync(t), NEW i \in 1 .. Len(u) PROVE u[i].type # "RESYNC"
    <3>1. CASE i = 1
      BY <3>1
    <3>2. CASE i # 1
      <4>1. i - 1 \in 1 .. Len(t) /\ (i - 1) + 1 = i
        BY <1>1, <3>2
      <4> QED
        BY <1>1, <2>2, <4>1 DEF NoResync, HasNo
    <3> QED
      BY <3>1, <3>2
  <2> QED
    BY <2>1, <2>2 DEF NoResync, HasNo
<1>17. Window(e, dn, t, b)
  <2>1. Window(d, dn, u, b)
    BY DEF Good
  <2>2. ASSUME d.acked_gen = d.sent_gen, d.sent_gen # 0 PROVE FALSE
    <3>1. d.acked_gen \in Nat /\ d.sent_gen \in Nat /\ d.minted \in Nat
      BY <1>6, DaemonTyped
    <3>2. b.applied \in Nat
      BY ReceiverTyped DEF Typed
    <3>3. d.acked_gen = d.minted
      BY <2>2 DEF Good, Books
    <3>4. d.acked_gen < g
      BY <1>2, <1>3, <1>9 DEF Reported, AcksRise
    <3>5. g < b.applied + 1 /\ b.applied <= d.minted
      BY <1>2, <1>3, <1>9 DEF Reported, Newer
    <3> QED
      BY <1>5, <3>1, <3>2, <3>3, <3>4, <3>5
  <2>3. ASSUME NEW i \in 1 .. Len(u), u[i].type = "ACK", u[i].gen = d.sent_gen
        PROVE  g = d.sent_gen \/ \E j \in 1 .. Len(t) : t[j].type = "ACK" /\ t[j].gen = d.sent_gen
    <3>1. CASE i = 1
      BY <1>3, <2>3, <3>1
    <3>2. CASE i # 1
      <4>1. i - 1 \in 1 .. Len(t) /\ (i - 1) + 1 = i
        BY <1>1, <3>2
      <4> QED
        BY <1>1, <2>3, <4>1
    <3> QED
      BY <3>1, <3>2
  <2> QED
    BY <1>7, <1>16, <2>1, <2>2, <2>3 DEF Window
<1>18. Screen(e, dn, t, b, h)
  <2>1. Screen(d, dn, u, b, h)
    BY DEF Good
  <2>2. Broken(u, b, h) => Broken(t, b, h)
    BY <1>16 DEF Broken
  <2> QED
    BY <1>7, <2>1, <2>2 DEF Screen
<1>19. ModesFollow(e, dn, b)
  BY <1>7 DEF Good, ModesFollow
<1>20. Good(e, dn, t, b, h)
  BY <1>10, <1>11, <1>12, <1>15, <1>17, <1>18, <1>19 DEF Good
<1>21. Fresh(d) => Fresh(e)
  BY <1>7 DEF Fresh
<1>22. Ready(d, dn, u, b, h) => Ready(e, dn, t, b, h)
  BY <1>7, <1>16, <1>21 DEF Ready, Covers
<1>23. Led(d, e)
  BY <1>7 DEF Led
<1> QED
  BY <1>6, <1>20, <1>22, <1>23

(* A PUBLISH or a RESYNC makes the daemon start over. *)
LEMMA ForgetKeeps ==
  ASSUME NEW d, NEW e, NEW dn, NEW u, NEW t, NEW b, NEW h, Typed(d, dn, u, b, h), e \in Daemon,
         t \in Seq(UpFrame), Thinned(u, t), Good(d, dn, u, b, h), Token(e, dn, t, b),
         e.tx = d.tx, e.sent = d.sent, e.minted = d.minted, e.modes = d.modes,
         e.sent_gen = 0, e.acked_gen = 0, e.shadow = NoText, e.rich = <<>>
  PROVE  Led(d, e) /\ Good(e, dn, t, b, h) /\ Ready(e, dn, t, b, h)
<1>1. d.acked_gen \in Nat /\ d.minted \in Nat
  BY DaemonTyped DEF Typed
<1>2. Reported(d, dn, t, b)
  BY UpThinned DEF Good
<1>3. Typed(d, dn, t, b, h)
  BY DEF Typed
<1>4. Reported(e, dn, t, b)
  <2>1. Above(b.applied, e.tx)
    BY <1>2 DEF Reported
  <2>2. e.acked_gen <= d.acked_gen /\ d.minted <= e.minted
    BY <1>1
  <2> QED
    BY <1>2, <1>3, <2>1, <2>2, ReportedLower
<1>5. Numbered(e, dn)
  BY DEF Good, Numbered
<1>6. Books(e)
  BY DEF Good, Books
<1>7. Window(e, dn, t, b) /\ Screen(e, dn, t, b, h)
  BY DEF Window, Screen
<1>8. ModesFollow(e, dn, b)
  BY DEF Good, ModesFollow
<1>9. Good(e, dn, t, b, h)
  BY <1>4, <1>5, <1>6, <1>7, <1>8 DEF Good
<1>10. Led(d, e)
  BY DEF Led
<1> QED
  BY <1>9, <1>10 DEF Ready

LEMMA ResyncKeeps ==
  ASSUME NEW d, NEW dn, NEW u, NEW t, NEW b, NEW h, Typed(d, dn, u, b, h), t \in Seq(UpFrame),
         Tailed(u, t), Good(d, dn, u, b, h)
  PROVE  /\ Resync(d) \in Daemon /\ Led(d, Resync(d)) /\ Good(Resync(d), dn, t, b, h)
         /\ Ready(Resync(d), dn, t, b, h)
<1>1. PICK e : e = Resync(d)
  OBVIOUS
<1>2. e = ResyncWindow(Invalidate(d))
  BY <1>1 DEF Resync
<1>3. d \in Daemon
  BY DEF Typed
<1>4. /\ ResyncWindow(Invalidate(d)) \in Daemon
      /\ ResyncWindow(Invalidate(d)).tx = d.tx /\ ResyncWindow(Invalidate(d)).sent = d.sent
      /\ ResyncWindow(Invalidate(d)).session = d.session /\ ResyncWindow(Invalidate(d)).minted = d.minted
      /\ ResyncWindow(Invalidate(d)).modes = d.modes
      /\ ResyncWindow(Invalidate(d)).sent_gen = 0 /\ ResyncWindow(Invalidate(d)).acked_gen = 0
      /\ ResyncWindow(Invalidate(d)).shadow = NoText /\ ResyncWindow(Invalidate(d)).rich = <<>>
  BY <1>3, ForgetDoes
<1>5. /\ e \in Daemon
      /\ e.tx = d.tx /\ e.sent = d.sent /\ e.session = d.session /\ e.minted = d.minted /\ e.modes = d.modes
      /\ e.sent_gen = 0 /\ e.acked_gen = 0 /\ e.shadow = NoText /\ e.rich = <<>>
  BY <1>2, <1>4
<1>6. Thinned(u, t)
  BY TailedThins
<1>7. Token(d, dn, t, b)
  BY <1>6, UpThinned DEF Good
<1>8. Token(e, dn, t, b)
  BY <1>5, <1>7 DEF Token, DaemonOne, DaemonFree
<1>9. Led(d, e) /\ Good(e, dn, t, b, h) /\ Ready(e, dn, t, b, h)
  BY <1>5, <1>6, <1>8, ForgetKeeps
<1> QED
  BY <1>1, <1>5, <1>9

LEMMA PublishKeeps ==
  ASSUME NEW d, NEW dn, NEW u, NEW t, NEW b, NEW h, Typed(d, dn, u, b, h), t \in Seq(UpFrame),
         Tailed(u, t), u[1].type = "VTSINK_PUBLISH", Good(d, dn, u, b, h)
  PROVE  /\ Publish(d) \in Daemon /\ Led(d, Publish(d)) /\ Good(Publish(d), dn, t, b, h)
         /\ Ready(Publish(d), dn, t, b, h)
<1>1. Len(t) \in Nat /\ Len(u) = Len(t) + 1 /\ \A i \in 1 .. Len(t) : t[i] = u[i + 1]
  BY DEF Tailed
<1>2. 1 \in 1 .. Len(u) /\ \A i \in 1 .. Len(t) : i + 1 \in 1 .. Len(u) /\ i + 1 # 1
  BY <1>1
<1>3. Token(d, dn, u, b)
  BY DEF Good
<1>4. ~HasNo("VTSINK_PUBLISH", u)
  BY <1>2 DEF HasNo
<1>5. ~d.session /\ HasNo("VTSINK_RESET", d.tx) /\ HasNo("VTSINK_RESET", dn) /\ ~b.retry
  BY <1>3, <1>4 DEF Token, BridgeFree, BridgeOne, DaemonFree
<1>6. HasNo("VTSINK_PUBLISH", t)
  <2>1. HasOne("VTSINK_PUBLISH", u)
    BY <1>3 DEF Token, BridgeOne
  <2> QED
    BY <1>1, <1>2, <2>1 DEF HasOne, HasNo
<1>7. PICK c, e : c = [d EXCEPT !.session = TRUE] /\ e = ResyncWindow(Invalidate(c))
  OBVIOUS
<1>8. Publish(d) = e
  BY <1>5, <1>7 DEF Publish
<1>9. c \in Daemon
  BY <1>7 DEF Typed, Daemon
<1>10. c.tx = d.tx /\ c.sent = d.sent /\ c.minted = d.minted /\ c.modes = d.modes
  BY <1>7 DEF Typed, Daemon
<1>11. /\ ResyncWindow(Invalidate(c)) \in Daemon
       /\ ResyncWindow(Invalidate(c)).tx = c.tx /\ ResyncWindow(Invalidate(c)).sent = c.sent
       /\ ResyncWindow(Invalidate(c)).session = c.session /\ ResyncWindow(Invalidate(c)).minted = c.minted
       /\ ResyncWindow(Invalidate(c)).modes = c.modes
       /\ ResyncWindow(Invalidate(c)).sent_gen = 0 /\ ResyncWindow(Invalidate(c)).acked_gen = 0
       /\ ResyncWindow(Invalidate(c)).shadow = NoText /\ ResyncWindow(Invalidate(c)).rich = <<>>
  BY <1>9, ForgetDoes
<1>12. /\ e \in Daemon
       /\ e.tx = d.tx /\ e.sent = d.sent /\ e.minted = d.minted /\ e.modes = d.modes
       /\ e.sent_gen = 0 /\ e.acked_gen = 0 /\ e.shadow = NoText /\ e.rich = <<>>
  BY <1>7, <1>10, <1>11
<1>13. Thinned(u, t)
  BY TailedThins
<1>14. DaemonOne(e)
  BY <1>3, <1>5, <1>12 DEF Token, DaemonOne
<1>15. BridgeFree(t, b) /\ BridgeOne(t, b)
  BY <1>5, <1>6 DEF BridgeFree, BridgeOne, HasNo, HasOne
<1>16. Token(e, dn, t, b)
  BY <1>3, <1>5, <1>14, <1>15 DEF Token
<1>17. Led(d, e) /\ Good(e, dn, t, b, h) /\ Ready(e, dn, t, b, h)
  BY <1>12, <1>13, <1>16, ForgetKeeps
<1> QED
  BY <1>8, <1>12, <1>17

LEMMA DaemonReceiveKeeps ==
  ASSUME TypeInv, Good(daemon, down, up, bridge, host), DaemonReceive
  PROVE  /\ daemon' \in Daemon /\ up' \in Seq(UpFrame) /\ Led(daemon, daemon')
         /\ UNCHANGED <<pane, down, bridge, host, faults>>
         /\ Good(daemon', down, up', bridge, host)
         /\ Ready(daemon, down, up, bridge, host) => Ready(daemon', down, up', bridge, host)
<1>1. Typed(daemon, down, up, bridge, host) /\ up \in Seq(UpFrame)
  BY DEF TypeInv, Typed
<1>2. up # <<>> /\ up' = Tail(up) /\ UNCHANGED <<pane, down, bridge, host, faults>>
  BY DEF DaemonReceive
<1>3. up' \in Seq(UpFrame) /\ Tailed(up, up') /\ Head(up) = up[1]
  BY <1>1, <1>2, TailedIs
<1>4. \/ up[1].type = "ACK" /\ daemon' = [daemon EXCEPT !.acked_gen = up[1].gen]
      \/ up[1].type = "VTSINK_PUBLISH" /\ daemon' = Publish(daemon)
      \/ up[1].type = "RESYNC" /\ daemon' = Resync(daemon)
  BY <1>3 DEF DaemonReceive
<1>5. PICK t : t = up'
  OBVIOUS
<1>6. t \in Seq(UpFrame) /\ Tailed(up, t)
  BY <1>3, <1>5
<1>7. CASE up[1].type = "ACK" /\ daemon' = [daemon EXCEPT !.acked_gen = up[1].gen]
  <2>1. PICK e : e = [daemon EXCEPT !.acked_gen = up[1].gen]
    OBVIOUS
  <2>2. /\ e \in Daemon /\ Led(daemon, e) /\ Good(e, down, t, bridge, host)
        /\ Ready(daemon, down, up, bridge, host) => Ready(e, down, t, bridge, host)
    BY <1>1, <1>6, <1>7, <2>1, AckKeeps
  <2> QED
    BY <1>2, <1>5, <1>6, <1>7, <2>1, <2>2
<1>8. CASE up[1].type = "VTSINK_PUBLISH" /\ daemon' = Publish(daemon)
  <2>1. /\ Publish(daemon) \in Daemon /\ Led(daemon, Publish(daemon)) /\ Good(Publish(daemon), down, t, bridge, host)
        /\ Ready(Publish(daemon), down, t, bridge, host)
    BY <1>1, <1>6, <1>8, PublishKeeps
  <2> QED
    BY <1>2, <1>5, <1>6, <1>8, <2>1
<1>9. CASE daemon' = Resync(daemon)
  <2>1. /\ Resync(daemon) \in Daemon /\ Led(daemon, Resync(daemon)) /\ Good(Resync(daemon), down, t, bridge, host)
        /\ Ready(Resync(daemon), down, t, bridge, host)
    BY <1>1, <1>6, ResyncKeeps
  <2> QED
    BY <1>2, <1>5, <1>6, <1>9, <2>1
<1> QED
  BY <1>4, <1>7, <1>8, <1>9

(* A frame leaves the transmit queue for the socket. *)
LEMMA SendKeeps ==
  ASSUME NEW d, NEW e, NEW f, NEW dn, NEW n, NEW u, NEW b, NEW h, Typed(d, dn, u, b, h),
         e \in Daemon, n \in Seq(DownFrame),
         Tailed(d.tx, e.tx), f = d.tx[1], Grown(dn, n, f), e.sent = 0,
         e.session = d.session, e.minted = d.minted, e.sent_gen = d.sent_gen,
         e.acked_gen = d.acked_gen, e.modes = d.modes, e.shadow = d.shadow, e.rich = d.rich,
         Good(d, dn, u, b, h)
  PROVE  /\ Good(e, n, u, b, h)
         /\ Ready(d, dn, u, b, h) => Ready(e, n, u, b, h)
<1>1. /\ Len(e.tx) \in Nat /\ Len(d.tx) = Len(e.tx) + 1
      /\ \A i \in 1 .. Len(e.tx) : e.tx[i] = d.tx[i + 1]
  BY DEF Tailed
<1>2. /\ 1 \in 1 .. Len(d.tx)
      /\ \A i \in 1 .. Len(e.tx) : i + 1 \in 1 .. Len(d.tx) /\ 1 < i + 1
      /\ \A i \in 1 .. Len(d.tx) : i # 1 => i - 1 \in 1 .. Len(e.tx) /\ e.tx[i - 1] = d.tx[i]
  BY <1>1
<1>3. /\ Len(dn) \in Nat /\ Len(n) = Len(dn) + 1 /\ n[Len(dn) + 1] = f
      /\ \A i \in 1 .. Len(dn) : n[i] = dn[i]
  BY DEF Grown
<1>4. Thinned(d.tx, e.tx)
  BY TailedThins
<1>5. /\ \A type : HasNo(type, d.tx) => HasNo(type, e.tx)
      /\ \A type : HasOne(type, d.tx) => HasOne(type, e.tx)
      /\ Rising(d.tx) => Rising(e.tx)
      /\ \A g : Above(g, d.tx) => Above(g, e.tx)
      /\ \A g : Upto(g, d.tx) => Upto(g, e.tx)
  BY <1>4, ThinnedKeeps
<1>6. \A type : HasNo(type, d.tx) => f.type # type
  BY <1>2 DEF HasNo
<1>7. \A type : f.type # type /\ HasNo(type, dn) => HasNo(type, n)
  BY <1>3 DEF HasNo
<1>8. f \in DownFrame
  BY <1>2, DaemonTyped DEF Typed, Frames
<1>9. Token(e, n, u, b)
  <2>1. Token(d, dn, u, b)
    BY DEF Good
  <2>2. DaemonOne(e)
    BY <1>5, <2>1 DEF Token, DaemonOne
  <2>3. DaemonFree(d) => DaemonFree(e)
    BY <1>5 DEF DaemonFree
  <2>4. CASE f.type # "VTSINK_RESET"
    <3>1. HasOne("VTSINK_RESET", n) /\ (HasNo("VTSINK_RESET", dn) => HasNo("VTSINK_RESET", n))
      BY <1>7, <2>1, <2>4, GrownHasOne DEF Token
    <3> QED
      BY <2>1, <2>2, <2>3, <3>1 DEF Token
  <2>5. CASE f.type = "VTSINK_RESET"
    <3>1. ~HasNo("VTSINK_RESET", d.tx)
      BY <1>6, <2>5
    <3>2. ~d.session /\ HasOne("VTSINK_RESET", d.tx)
      BY <2>1, <3>1 DEF Token, DaemonOne
    <3>3. HasNo("VTSINK_RESET", dn) /\ BridgeFree(u, b)
      BY <2>1, <3>1 DEF Token, DaemonFree
    <3>4. HasOne("VTSINK_RESET", n)
      BY <2>1, <3>3, GrownHasOne DEF Token
    <3>5. HasNo("VTSINK_RESET", e.tx)
      <4> SUFFICES ASSUME NEW i \in 1 .. Len(e.tx), e.tx[i].type = "VTSINK_RESET" PROVE FALSE
        BY DEF HasNo
      <4>1. i + 1 \in 1 .. Len(d.tx) /\ d.tx[i + 1].type = "VTSINK_RESET" /\ i + 1 # 1
        BY <1>1, <1>2
      <4> QED
        BY <1>2, <2>5, <3>2, <4>1 DEF HasOne
    <3>6. DaemonFree(e)
      BY <3>2, <3>5 DEF DaemonFree
    <3> QED
      BY <2>1, <2>2, <3>3, <3>4, <3>6 DEF Token
  <2> QED
    BY <2>4, <2>5
<1>10. Numbered(e, n)
  <2>1. Numbered(d, dn)
    BY DEF Good
  <2>2. \A i \in 1 .. Len(dn) : IsFeed(dn[i]) => Above(dn[i].gen, d.tx)
    BY <2>1 DEF Numbered
  <2>3. IsFeed(f) => \A i \in 1 .. Len(dn) : IsFeed(dn[i]) => dn[i].gen < f.gen
    BY <1>2, <2>2 DEF Above
  <2>4. Rising(n)
    BY <2>1, <2>3, GrownRising DEF Numbered
  <2>5. d.minted \in Nat
    BY DaemonTyped DEF Typed
  <2>6. IsFeed(f) => f.gen <= d.minted
    BY <1>2, <2>1 DEF Numbered, Upto
  <2>7. Upto(e.minted, n)
    BY <2>1, <2>5, <2>6, GrownAbove DEF Numbered
  <2>8. ASSUME IsFeed(f) PROVE Above(f.gen, e.tx)
    <3> SUFFICES ASSUME NEW i \in 1 .. Len(e.tx), IsFeed(e.tx[i]) PROVE f.gen < e.tx[i].gen
      BY DEF Above
    <3>1. i + 1 \in 1 .. Len(d.tx) /\ IsFeed(d.tx[i + 1]) /\ e.tx[i] = d.tx[i + 1]
      BY <1>1, <1>2
    <3> QED
      BY <1>2, <2>1, <2>8, <3>1 DEF Numbered, Rising
  <2>9. ASSUME NEW i \in 1 .. Len(n), IsFeed(n[i]) PROVE Above(n[i].gen, e.tx)
    <3>1. CASE i = Len(dn) + 1
      BY <1>3, <2>8, <2>9, <3>1
    <3>2. CASE i # Len(dn) + 1
      <4>1. i \in 1 .. Len(dn) /\ n[i] = dn[i]
        BY <1>3, <3>2
      <4> QED
        BY <1>5, <2>2, <2>9, <4>1
    <3> QED
      BY <3>1, <3>2
  <2> QED
    BY <1>5, <2>1, <2>4, <2>7, <2>9 DEF Numbered
<1>11. Reported(e, n, u, b)
  <2>1. Reported(d, dn, u, b)
    BY DEF Good
  <2>2. b.applied \in Nat
    BY ReceiverTyped DEF Typed
  <2>3. IsFeed(f) => b.applied < f.gen
    BY <1>2, <2>1 DEF Reported, Above
  <2>4. Above(b.applied, n)
    BY <2>1, <2>2, <2>3, GrownAbove DEF Reported
  <2>5. Above(b.applied, e.tx)
    BY <1>5, <2>1 DEF Reported
  <2>6. \A g : Newer(g, d, u, b) => Newer(g, e, u, b)
    BY DEF Newer
  <2>7. AcksRise(d, u) => AcksRise(e, u)
    BY DEF AcksRise
  <2> QED
    BY <2>1, <2>4, <2>5, <2>6, <2>7 DEF Reported
<1>12. Books(e)
  BY DEF Good, Books
<1>13. Window(e, n, u, b)
  <2>1. Window(d, dn, u, b)
    BY DEF Good
  <2>2. Holds(d.sent_gen, dn) => Holds(d.sent_gen, n)
    BY QueuedKeepsHolds
  <2>3. ASSUME Holds(d.sent_gen, d.tx) PROVE Holds(d.sent_gen, e.tx) \/ Holds(d.sent_gen, n)
    <3>1. PICK i \in 1 .. Len(d.tx) : IsFeed(d.tx[i]) /\ d.tx[i].gen = d.sent_gen
      BY <2>3 DEF Holds
    <3>2. CASE i = 1
      BY <3>1, <3>2, QueuedKeepsHolds
    <3>3. CASE i # 1
      <4>1. i - 1 \in 1 .. Len(e.tx) /\ e.tx[i - 1] = d.tx[i]
        BY <1>2, <3>3
      <4>2. IsFeed(e.tx[i - 1]) /\ e.tx[i - 1].gen = d.sent_gen
        BY <3>1, <4>1
      <4> QED
        BY <4>1, <4>2, Zenon DEF Holds
    <3> QED
      BY <3>2, <3>3
  <2> QED
    BY <2>1, <2>2, <2>3 DEF Window
<1>14. Screen(e, n, u, b, h)
  <2>1. CASE d.shadow # NoText /\ ~Broken(u, b, h)
    <3>1. PICK y1, y2, y3 \in Int :
            /\ CallPath(h.text, h.calls, y1) /\ Path(y1, b.pending, y2)
            /\ Path(y2, dn, y3) /\ Path(y3, d.tx, d.shadow)
      BY <2>1 DEF Good, Screen
    <3>2. PICK y : y = Take1(y3, f)
      OBVIOUS
    <3>3. y \in Int
      BY <1>8, <3>1, <3>2, Take1Int
    <3>4. 0 \in 0 .. Len(dn)
      BY <1>3
    <3>5. Path(y2, n, y)
      BY <1>8, <3>1, <3>2, <3>4, PathGrown DEF Path
    <3>6. d.shadow \in Int
      BY DaemonTyped DEF Typed
    <3>7. Path(y, e.tx, d.shadow)
      BY <1>8, <3>1, <3>2, <3>6, PathTailed
    <3> QED
      BY <3>1, <3>3, <3>5, <3>7 DEF Screen
  <2> QED
    BY <2>1 DEF Screen
<1>15. ModesFollow(e, n, b)
  <2>1. ModesFollow(d, dn, b)
    BY DEF Good
  <2> SUFFICES ASSUME NEW m \in Nat, e.modes = <<m>>
               PROVE  \/ LastModes(m, e.tx)
                      \/ HasNo("PANE_MODES", e.tx) /\ LastModes(m, n)
                      \/ HasNo("PANE_MODES", e.tx) /\ HasNo("PANE_MODES", n) /\ b.modes = m
    BY DEF ModesFollow
  <2>2. CASE LastModes(m, d.tx)
    <3>1. PICK i \in 1 .. Len(d.tx) : d.tx[i] = Modes(m) /\ \A j \in i + 1 .. Len(d.tx) : d.tx[j].type # "PANE_MODES"
      BY <2>2 DEF LastModes
    <3>2. CASE i = 1
      <4>1. HasNo("PANE_MODES", e.tx)
        <5> SUFFICES ASSUME NEW j \in 1 .. Len(e.tx) PROVE e.tx[j].type # "PANE_MODES"
          BY DEF HasNo
        <5>1. j + 1 \in i + 1 .. Len(d.tx) /\ e.tx[j] = d.tx[j + 1]
          BY <1>1, <3>2
        <5> QED
          BY <3>1, <5>1
      <4>2. Len(n) \in 1 .. Len(n) /\ n[Len(n)] = Modes(m)
        BY <1>3, <3>1, <3>2
      <4>3. \A j \in Len(n) + 1 .. Len(n) : FALSE
        BY <1>3
      <4>4. LastModes(m, n)
        BY <4>2, <4>3 DEF LastModes
      <4> QED
        BY <4>1, <4>4
    <3>3. CASE i # 1
      <4>1. i - 1 \in 1 .. Len(e.tx) /\ e.tx[i - 1] = Modes(m)
        BY <1>2, <3>1, <3>3
      <4>2. ASSUME NEW j \in (i - 1) + 1 .. Len(e.tx) PROVE e.tx[j].type # "PANE_MODES"
        <5>1. j + 1 \in i + 1 .. Len(d.tx) /\ e.tx[j] = d.tx[j + 1]
          BY <1>1, <4>1
        <5> QED
          BY <3>1, <5>1
      <4> QED
        BY <4>1, <4>2 DEF LastModes
    <3> QED
      BY <3>2, <3>3
  <2>3. CASE HasNo("PANE_MODES", d.tx)
    <3>1. HasNo("PANE_MODES", e.tx) /\ f.type # "PANE_MODES"
      BY <1>5, <1>6, <2>3
    <3>2. LastModes(m, dn) => LastModes(m, n)
      BY <3>1, QueuedKeepsModes
    <3>3. HasNo("PANE_MODES", dn) => HasNo("PANE_MODES", n)
      BY <1>7, <3>1
    <3>4. LastModes(m, d.tx) \/ LastModes(m, dn) \/ (HasNo("PANE_MODES", dn) /\ b.modes = m)
      BY <2>1 DEF ModesFollow
    <3> QED
      BY <2>2, <3>1, <3>2, <3>3, <3>4
  <2>4. LastModes(m, d.tx) \/ HasNo("PANE_MODES", d.tx)
    BY <2>1 DEF ModesFollow
  <2> QED
    BY <2>2, <2>3, <2>4
<1>16. Good(e, n, u, b, h)
  BY <1>9, <1>10, <1>11, <1>12, <1>13, <1>14, <1>15 DEF Good
<1>17. Fresh(d) => Fresh(e) \/ ~HasNo("TRANSACTION", n)
  <2> SUFFICES ASSUME Fresh(d) PROVE Fresh(e) \/ ~HasNo("TRANSACTION", n)
    OBVIOUS
  <2>1. PICK j \in 1 .. Len(d.tx) :
          /\ d.tx[j].type = "TRANSACTION"
          /\ d.sent_gen # 0 => \E k \in j + 1 .. Len(d.tx) : IsFeed(d.tx[k]) /\ d.tx[k].gen = d.sent_gen
          /\ d.shadow # NoText => \A x \in Int : PathFrom(j, x, d.tx, d.shadow)
    BY DEF Fresh
  <2>2. CASE j = 1
    <3>1. Len(n) \in 1 .. Len(n) /\ n[Len(n)].type = "TRANSACTION"
      BY <1>3, <2>1, <2>2
    <3> QED
      BY <3>1 DEF HasNo
  <2>3. CASE j # 1
    <3>1. j - 1 \in 1 .. Len(e.tx) /\ e.tx[j - 1].type = "TRANSACTION"
      BY <1>2, <2>1, <2>3
    <3>2. e.sent_gen # 0 => \E k \in (j - 1) + 1 .. Len(e.tx) : IsFeed(e.tx[k]) /\ e.tx[k].gen = e.sent_gen
      <4> SUFFICES ASSUME e.sent_gen # 0
                   PROVE  \E k \in (j - 1) + 1 .. Len(e.tx) : IsFeed(e.tx[k]) /\ e.tx[k].gen = e.sent_gen
        OBVIOUS
      <4>1. PICK k \in j + 1 .. Len(d.tx) : IsFeed(d.tx[k]) /\ d.tx[k].gen = d.sent_gen
        BY <2>1
      <4>2. k - 1 \in (j - 1) + 1 .. Len(e.tx) /\ k \in 1 .. Len(d.tx) /\ k # 1
        BY <1>1, <2>1, <4>1
      <4> QED
        BY <1>2, <4>1, <4>2
    <3>3. e.shadow # NoText => \A x \in Int : PathFrom(j - 1, x, e.tx, e.shadow)
      BY <2>1, <2>3, PathFromTailed
    <3>4. Fresh(e)
      BY <3>1, <3>2, <3>3 DEF Fresh
    <3> QED
      BY <3>4
  <2> QED
    BY <2>2, <2>3
<1>18. HasNo("TRANSACTION", n) => HasNo("TRANSACTION", dn)
  BY <1>3 DEF HasNo
<1>19. Covers(d, dn, u, b, h) => Covers(e, n, u, b, h)
  BY <1>17, <1>18 DEF Covers
<1> QED
  BY <1>16, <1>19 DEF Ready

LEMMA DaemonSendKeeps ==
  ASSUME TypeInv, Good(daemon, down, up, bridge, host), DaemonSend
  PROVE  /\ daemon' \in Daemon /\ down' \in Seq(DownFrame)
         /\ daemon.sent > 0 => Led(daemon, daemon') \/ daemon'.tx = daemon.tx \/ down' = Append(down, Head(daemon.tx))
         /\ UNCHANGED <<pane, up, bridge, host, faults>>
         /\ Good(daemon', down', up, bridge, host)
         /\ Ready(daemon, down, up, bridge, host) => Ready(daemon', down', up, bridge, host)
<1>1. Typed(daemon, down, up, bridge, host) /\ daemon \in Daemon /\ down \in Seq(DownFrame)
  BY DEF TypeInv, Typed
<1>2. daemon.tx # <<>> /\ UNCHANGED <<pane, up, bridge, host, faults>>
  BY DEF DaemonSend
<1>3. daemon.tx \in Seq(DownFrame) /\ daemon.sent \in Nat
  BY <1>1, DaemonTyped
<1>4. PICK f : f = Head(daemon.tx)
  OBVIOUS
<1>5. /\ Tail(daemon.tx) \in Seq(DownFrame) /\ Tailed(daemon.tx, Tail(daemon.tx))
      /\ f = daemon.tx[1] /\ f \in DownFrame
  BY <1>2, <1>3, <1>4, TailedIs
<1>6. \/ daemon' = [daemon EXCEPT !.sent = @ + 1, !.drained = TRUE] /\ down' = down
      \/ /\ daemon' = [daemon EXCEPT !.tx = Tail(@), !.sent = 0, !.drained = TRUE]
         /\ down' = Append(down, f)
  BY <1>4 DEF DaemonSend
<1>7. CASE daemon' = [daemon EXCEPT !.sent = @ + 1, !.drained = TRUE] /\ down' = down
  <2>1. PICK e : e = [daemon EXCEPT !.sent = @ + 1, !.drained = TRUE]
    OBVIOUS
  <2>2. e \in Daemon
    <3>1. daemon.sent + 1 \in Nat
      BY <1>3
    <3> QED
      BY <1>1, <2>1, <3>1 DEF Daemon
  <2>3. e.tx = daemon.tx /\ Still(daemon, e)
    BY <1>1, <1>2, <2>1 DEF Daemon, Still
  <2>4. /\ Good(e, down, up, bridge, host)
        /\ Ready(daemon, down, up, bridge, host) => Ready(e, down, up, bridge, host)
    BY <2>3, StillKeeps
  <2> QED
    BY <1>1, <1>2, <1>7, <2>1, <2>2, <2>3, <2>4
<1>8. CASE daemon' = [daemon EXCEPT !.tx = Tail(@), !.sent = 0, !.drained = TRUE] /\ down' = Append(down, f)
  <2>1. PICK t, n, e : t = Tail(daemon.tx) /\ n = Append(down, f) /\ e = [daemon EXCEPT !.tx = t, !.sent = 0, !.drained = TRUE]
    OBVIOUS
  <2>2. t \in Seq(DownFrame) /\ Tailed(daemon.tx, t)
    BY <1>5, <2>1
  <2>3. n \in Seq(DownFrame) /\ Grown(down, n, f)
    BY <1>1, <1>5, <2>1, GrownIs
  <2>4. e \in Daemon
    BY <1>1, <2>1, <2>2 DEF Daemon
  <2>5. /\ e.tx = t /\ e.sent = 0 /\ e.session = daemon.session /\ e.minted = daemon.minted
        /\ e.sent_gen = daemon.sent_gen /\ e.acked_gen = daemon.acked_gen /\ e.modes = daemon.modes
        /\ e.shadow = daemon.shadow /\ e.rich = daemon.rich
    BY <1>1, <2>1 DEF Daemon
  <2>6. Tailed(daemon.tx, e.tx)
    BY <2>2, <2>5
  <2>7. /\ Good(e, n, up, bridge, host)
        /\ Ready(daemon, down, up, bridge, host) => Ready(e, n, up, bridge, host)
    BY <1>1, <1>5, <2>3, <2>4, <2>5, <2>6, SendKeeps
  <2>8. daemon' = e /\ down' = n
    BY <1>8, <2>1
  <2> QED
    BY <1>2, <1>4, <1>8, <2>3, <2>4, <2>7, <2>8
<1> QED
  BY <1>6, <1>7, <1>8

LEMMA DaemonCloseKeeps ==
  ASSUME TypeInv, Good(daemon, down, up, bridge, host), DaemonClose
  PROVE  /\ daemon' \in Daemon /\ Led(daemon, daemon')
         /\ UNCHANGED <<pane, down, up, bridge, host, faults>>
         /\ Good(daemon', down, up, bridge, host)
         /\ Ready(daemon, down, up, bridge, host) => Ready(daemon', down, up, bridge, host)
<1>1. daemon \in Daemon
  BY DEF TypeInv
<1>2. PICK e : e = [daemon EXCEPT !.open = FALSE]
  OBVIOUS
<1>3. daemon' = e /\ UNCHANGED <<pane, down, up, bridge, host, faults>>
  BY <1>2 DEF DaemonClose
<1>4. e \in Daemon /\ Still(daemon, e) /\ Led(daemon, e)
  BY <1>1, <1>2 DEF Daemon, Still, Led
<1>5. /\ Good(e, down, up, bridge, host)
      /\ Ready(daemon, down, up, bridge, host) => Ready(e, down, up, bridge, host)
  BY <1>4, StillKeeps
<1> QED
  BY <1>3, <1>4, <1>5

LEMMA ApplicationKeeps ==
  ASSUME TypeInv, Application
  PROVE  pane' \in Pane /\ UNCHANGED <<daemon, down, up, bridge, host, faults>>
<1>1. pane \in Pane
  BY DEF TypeInv
<1>2. CASE ShowText
  BY <1>1, <1>2 DEF ShowText, Pane
<1>3. CASE ScrollLine
  <2>1. pane' = [pane EXCEPT !.text = @ + 1, !.top = @ + 1] /\ UNCHANGED <<daemon, down, up, bridge, host, faults>>
    BY <1>3 DEF ScrollLine
  <2>2. pane.text + 1 \in Nat /\ pane.top + 1 \in Nat
    BY <1>1 DEF Pane
  <2>3. [pane EXCEPT !.text = @ + 1, !.top = @ + 1] \in Pane
    BY <1>1, <2>2 DEF Pane
  <2> QED
    BY <2>1, <2>3
<1>4. CASE DrawFigure
  BY <1>1, <1>4 DEF DrawFigure, Pane
<1>5. CASE ChangeModes
  BY <1>1, <1>5 DEF ChangeModes, Pane
<1> QED
  BY <1>2, <1>3, <1>4, <1>5 DEF Application

-----------------------------------------------------------------------------
(* What the bridge does to its record, and what it keeps.                   *)

AcksSame(u, v) ==
  \A i \in 1 .. Len(v) : v[i].type = "ACK" => i \in 1 .. Len(u) /\ v[i] = u[i]

(* A receiver with no more to report than before. *)
Lighter(b, c) ==
  /\ c.applied = b.applied /\ c.acked <= b.acked /\ c.reported <= b.reported
  /\ c.covered = c.reported
  /\ \/ Len(c.ring) = 0
     \/ Len(c.ring) = Len(b.ring) /\ \A i \in 1 .. Len(b.ring) : c.ring[i].gen = b.ring[i].gen
  /\ Len(c.pending) = 0 \/ c.pending = b.pending

LEMMA ReportedLighter ==
  ASSUME NEW d, NEW dn, NEW u, NEW b, NEW h, Typed(d, dn, u, b, h),
         NEW v \in Seq(UpFrame), NEW c \in Receiver,
         Reported(d, dn, u, b), AcksSame(u, v), Lighter(b, c)
  PROVE  Reported(d, dn, v, c)
<1>1. /\ b.acked \in Nat /\ b.reported \in Nat /\ b.applied \in Nat
      /\ c.acked \in Nat /\ c.reported \in Nat
      /\ \A i \in 1 .. Len(b.ring) : b.ring[i].gen \in Nat
      /\ \A i \in 1 .. Len(b.pending) : b.pending[i].gen \in Nat
  BY ReceiverTyped DEF Typed
<1>2. \A g \in Nat : Newer(g, d, u, b) => Newer(g, d, v, c)
  <2> SUFFICES ASSUME NEW g \in Nat, Newer(g, d, u, b) PROVE Newer(g, d, v, c)
    OBVIOUS
  <2>1. c.acked < g /\ c.reported < g
    <3>1. b.acked < g /\ b.reported < g /\ c.acked <= b.acked /\ c.reported <= b.reported
      BY DEF Newer, Lighter
    <3> QED
      BY <1>1, <3>1
  <2>2. \A i \in 1 .. Len(v) : v[i].type = "ACK" => v[i].gen < g
    BY DEF Newer, AcksSame
  <2> QED
    BY <2>1, <2>2 DEF Newer
<1>3. AcksRise(d, v)
  <2>1. AcksRise(d, u)
    BY DEF Reported
  <2> QED
    BY <2>1 DEF AcksRise, AcksSame
<1>4. c.applied = b.applied /\ c.covered = c.reported
  BY DEF Lighter
<1>5. c.applied <= d.minted /\ Above(c.applied, dn) /\ Above(c.applied, d.tx)
  BY <1>4 DEF Reported
<1>6. Newer(c.applied + 1, d, v, c)
  <2>1. b.applied + 1 \in Nat /\ Newer(b.applied + 1, d, u, b)
    BY <1>1 DEF Reported
  <2> QED
    BY <1>2, <1>4, <2>1
<1>7. /\ Len(c.ring) <= RING
      /\ \A i \in 1 .. Len(c.ring) : c.ring[i].gen <= c.applied /\ Newer(c.ring[i].gen, d, v, c)
      /\ \A i, j \in 1 .. Len(c.ring) : i < j => c.ring[i].gen < c.ring[j].gen
  <2>1. CASE Len(c.ring) = 0
    BY <2>1, FeedAssumption
  <2>2. CASE Len(c.ring) = Len(b.ring) /\ \A i \in 1 .. Len(b.ring) : c.ring[i].gen = b.ring[i].gen
    BY <1>1, <1>2, <1>4, <2>2 DEF Reported
  <2> QED
    BY <2>1, <2>2 DEF Lighter
<1>8. \A i \in 1 .. Len(c.pending) :
        /\ c.pending[i].gen <= c.applied /\ Newer(c.pending[i].gen, d, v, c)
        /\ \A j \in 1 .. Len(c.ring) : c.ring[j].gen < c.pending[i].gen
  <2>1. CASE Len(c.pending) = 0
    BY <2>1
  <2>2. CASE c.pending = b.pending
    <3>1. \A i \in 1 .. Len(c.pending) : c.pending[i].gen <= c.applied /\ Newer(c.pending[i].gen, d, v, c)
      BY <1>1, <1>2, <1>4, <2>2 DEF Reported
    <3>2. ASSUME NEW i \in 1 .. Len(c.pending), NEW j \in 1 .. Len(c.ring)
          PROVE  c.ring[j].gen < c.pending[i].gen
      <4>1. \A k \in 1 .. Len(b.ring) : b.ring[k].gen < b.pending[i].gen
        BY <2>2 DEF Reported
      <4>2. Len(c.ring) = Len(b.ring) /\ c.ring[j].gen = b.ring[j].gen
        <5>1. Len(c.ring) # 0
          BY <3>2
        <5> QED
          BY <5>1 DEF Lighter
      <4> QED
        BY <2>2, <4>1, <4>2
    <3> QED
      BY <3>1, <3>2
  <2> QED
    BY <2>1, <2>2 DEF Lighter
<1> QED
  BY <1>3, <1>4, <1>5, <1>6, <1>7, <1>8 DEF Reported

LEMMA GrownAcks ==
  ASSUME NEW u, NEW v, NEW f, Grown(u, v, f), f.type # "ACK"
  PROVE  AcksSame(u, v)
BY DEF Grown, AcksSame

Wants(b) == b.requested /\ ~b.done
Iteration == [b : Receiver, up : Seq(UpFrame), h : HostEnd]
Kept1(d, dn, r) == Good(d, dn, r.up, r.b, r.h)
Safe1(d, dn, r) == Safe(d, dn, r.up, r.b, r.h)
Broken1(r) == Broken(r.up, r.b, r.h)

LEMMA ResetReceiverDoes ==
  ASSUME NEW b \in Receiver
  PROVE  LET c == ResetReceiver(b)
         IN  /\ c \in Receiver
             /\ c.acked = b.acked /\ c.retry = b.retry /\ c.body = b.body /\ c.modes = b.modes
             /\ c.arrived = b.arrived /\ c.applied = b.applied /\ c.ring = b.ring
             /\ c.covered = b.covered /\ c.reported = b.reported
             /\ c.desynced \/ (c.pending = b.pending /\ (b.desynced => c.desynced))
             /\ c.pending = b.pending \/ Len(c.pending) = 0
             /\ b.desynced => c.desynced
             /\ b.done => ~c.requested
             /\ (Wants(b) => b.desynced) => (Wants(c) => c.desynced)
<1>1. CASE b.done
  <2>1. PICK c : c = [b EXCEPT !.done = FALSE, !.requested = FALSE]
    OBVIOUS
  <2>2. ResetReceiver(b) = c
    BY <1>1, <2>1 DEF ResetReceiver
  <2>3. c \in Receiver
    BY <2>1 DEF Receiver
  <2>4. /\ c.acked = b.acked /\ c.retry = b.retry /\ c.body = b.body /\ c.modes = b.modes
        /\ c.arrived = b.arrived /\ c.applied = b.applied /\ c.ring = b.ring
        /\ c.covered = b.covered /\ c.reported = b.reported /\ c.pending = b.pending
        /\ c.desynced = b.desynced /\ ~c.requested
    BY <2>1 DEF Receiver
  <2> QED
    BY <2>2, <2>3, <2>4 DEF Wants
<1>2. CASE ~b.done /\ ~b.requested
  <2>1. PICK c : c = [b EXCEPT !.requested = TRUE, !.pending = <<>>, !.desynced = TRUE]
    OBVIOUS
  <2>2. ResetReceiver(b) = c
    BY <1>2, <2>1 DEF ResetReceiver
  <2>3. <<>> \in Seq(FeedFrame) /\ Len(<<>>) = 0
    BY EmptySeq
  <2>4. c \in Receiver
    BY <2>1, <2>3 DEF Receiver
  <2>5. /\ c.acked = b.acked /\ c.retry = b.retry /\ c.body = b.body /\ c.modes = b.modes
        /\ c.arrived = b.arrived /\ c.applied = b.applied /\ c.ring = b.ring
        /\ c.covered = b.covered /\ c.reported = b.reported /\ c.pending = <<>>
        /\ c.desynced
    BY <2>1 DEF Receiver
  <2> QED
    BY <1>2, <2>2, <2>3, <2>4, <2>5 DEF Wants
<1>3. CASE ~b.done /\ b.requested
  <2>1. ResetReceiver(b) = b
    BY <1>3 DEF ResetReceiver
  <2> QED
    BY <1>3, <2>1
<1> QED
  BY <1>1, <1>2, <1>3

(* Nothing of what is under way is lost. *)
Whole(r, s) ==
  /\ s.b.pending = r.b.pending /\ Len(s.b.ring) = Len(r.b.ring)
  /\ \A i \in 1 .. Len(r.b.ring) : s.b.ring[i].gen = r.b.ring[i].gen
  /\ \A i \in 1 .. Len(r.up) : r.up[i].type = "ACK" => i \in 1 .. Len(s.up) /\ s.up[i] = r.up[i]
  /\ r.b.desynced => s.b.desynced
  /\ NoResync(s.up) => NoResync(r.up)
Lightened(r, s) ==
  /\ AcksSame(r.up, s.up) /\ Lighter(r.b, s.b)
  /\ s.b.modes = r.b.modes /\ s.h.text = r.h.text /\ s.h.calls = r.h.calls
  /\ Broken1(r) => Broken1(s)
  /\ s.b.desynced \/ ~NoResync(s.up) \/ Whole(r, s)
  /\ Wants(s.b) => s.b.desynced

LEMMA IterationTyped ==
  ASSUME NEW r \in Iteration
  PROVE  r.b \in Receiver /\ r.up \in Seq(UpFrame) /\ r.h \in HostEnd
BY DEF Iteration

LEMMA LighterKeeps ==
  ASSUME NEW d \in Daemon, NEW dn \in Seq(DownFrame), NEW r \in Iteration, NEW s \in Iteration,
         Kept1(d, dn, r), Token(d, dn, s.up, s.b), Lightened(r, s)
  PROVE  Kept1(d, dn, s)
<1>1. Typed(d, dn, r.up, r.b, r.h)
  BY IterationTyped DEF Typed
<1>2. s.b \in Receiver /\ s.up \in Seq(UpFrame)
  BY IterationTyped
<1>3. Good(d, dn, r.up, r.b, r.h)
  BY DEF Kept1
<1>4. Reported(d, dn, s.up, s.b)
  BY <1>1, <1>2, <1>3, ReportedLighter DEF Good, Lightened
<1>5. Numbered(d, dn) /\ Books(d)
  BY <1>3 DEF Good
<1>6. Window(d, dn, s.up, s.b)
  <2>1. Window(d, dn, r.up, r.b)
    BY <1>3 DEF Good
  <2>2. CASE s.b.desynced \/ ~NoResync(s.up)
    BY <2>2 DEF Window
  <2>3. CASE Whole(r, s)
    <3>1. ASSUME NEW i \in 1 .. Len(r.b.ring), r.b.ring[i].gen = d.sent_gen
          PROVE  \E j \in 1 .. Len(s.b.ring) : s.b.ring[j].gen = d.sent_gen
      BY <2>3, <3>1 DEF Whole
    <3>2. ASSUME NEW i \in 1 .. Len(r.up), r.up[i].type = "ACK", r.up[i].gen = d.sent_gen
          PROVE  \E j \in 1 .. Len(s.up) : s.up[j].type = "ACK" /\ s.up[j].gen = d.sent_gen
      BY <2>3, <3>2 DEF Whole
    <3>3. s.b.pending = r.b.pending /\ (r.b.desynced => s.b.desynced) /\ (~NoResync(r.up) => ~NoResync(s.up))
      BY <2>3 DEF Whole
    <3> QED
      BY <2>1, <3>1, <3>2, <3>3 DEF Window
  <2> QED
    BY <2>2, <2>3 DEF Lightened
<1>7. Screen(d, dn, s.up, s.b, s.h)
  <2>1. Screen(d, dn, r.up, r.b, r.h)
    BY <1>3 DEF Good
  <2>2. CASE s.b.desynced \/ ~NoResync(s.up)
    BY <2>2 DEF Screen, Broken
  <2>3. CASE Whole(r, s)
    <3>1. s.b.pending = r.b.pending /\ s.h.text = r.h.text /\ s.h.calls = r.h.calls
      BY <2>3 DEF Whole, Lightened
    <3>2. Broken(r.up, r.b, r.h) => Broken(s.up, s.b, s.h)
      BY DEF Lightened, Broken1
    <3> QED
      BY <2>1, <3>1, <3>2 DEF Screen
  <2> QED
    BY <2>2, <2>3 DEF Lightened
<1>8. ModesFollow(d, dn, s.b)
  BY <1>3 DEF Good, ModesFollow, Lightened
<1>9. s.b.requested /\ ~s.b.done => s.b.desynced
  BY DEF Lightened, Wants
<1> QED
  BY <1>4, <1>5, <1>6, <1>7, <1>8, <1>9 DEF Kept1, Good

(* A RESYNC goes up. *)
LEMMA AskedUp ==
  ASSUME NEW u \in Seq(UpFrame), NEW v, v = Append(u, Plain("RESYNC"))
  PROVE  /\ v \in Seq(UpFrame) /\ AcksSame(u, v) /\ ~NoResync(v)
         /\ \A d, dn, b : Token(d, dn, u, b) => Token(d, dn, v, b)
<1>1. PICK f : f = Plain("RESYNC")
  OBVIOUS
<1>2. f \in UpFrame /\ f.type = "RESYNC"
  BY <1>1 DEF Plain, UpFrame, AskFrame
<1>3. v \in Seq(UpFrame) /\ Grown(u, v, f)
  BY <1>1, <1>2, GrownIs
<1>4. AcksSame(u, v)
  BY <1>2, <1>3, GrownAcks
<1>5. ~NoResync(v)
  BY <1>2, <1>3, GrownHasNo DEF NoResync
<1>6. /\ HasNo("VTSINK_PUBLISH", u) => HasNo("VTSINK_PUBLISH", v)
      /\ HasOne("VTSINK_PUBLISH", u) => HasOne("VTSINK_PUBLISH", v)
  BY <1>2, <1>3, GrownHasNo, GrownHasOne
<1>7. \A d, dn, b : Token(d, dn, u, b) => Token(d, dn, v, b)
  BY <1>6 DEF Token, BridgeOne, BridgeFree
<1> QED
  BY <1>3, <1>4, <1>5, <1>7

LEMMA RequestResyncKeeps ==
  ASSUME NEW d \in Daemon, NEW dn \in Seq(DownFrame), NEW r \in Iteration, Kept1(d, dn, r)
  PROVE  LET s == RequestResync(r)
         IN  /\ s \in Iteration /\ Kept1(d, dn, s) /\ (Wants(s.b) => ~NoResync(s.up))
             /\ s.h = r.h /\ s.b.body = r.b.body
             /\ s.b.pending = r.b.pending \/ Len(s.b.pending) = 0
<1>1. r.b \in Receiver /\ r.up \in Seq(UpFrame) /\ r.h \in HostEnd
  BY IterationTyped
<1>2. Wants(r.b) => r.b.desynced
  BY DEF Kept1, Good, Wants
<1>3. CASE ~r.b.desynced
  <2>1. RequestResync(r) = r
    BY <1>3 DEF RequestResync
  <2> QED
    BY <1>2, <1>3, <2>1
<1>4. CASE r.b.desynced
  <2>1. PICK c, v : c = ResetReceiver(r.b) /\ v = Append(r.up, Plain("RESYNC"))
    OBVIOUS
  <2>2. PICK s : s = [r EXCEPT !.b = c, !.up = v]
    OBVIOUS
  <2>3. RequestResync(r) = s
    BY <1>4, <2>1, <2>2 DEF RequestResync, Iteration
  <2>4. /\ v \in Seq(UpFrame) /\ AcksSame(r.up, v) /\ ~NoResync(v)
        /\ \A e, t, b : Token(e, t, r.up, b) => Token(e, t, v, b)
    BY <1>1, <2>1, AskedUp
  <2>5. /\ c \in Receiver
        /\ c.acked = r.b.acked /\ c.retry = r.b.retry /\ c.body = r.b.body /\ c.modes = r.b.modes
        /\ c.arrived = r.b.arrived /\ c.applied = r.b.applied /\ c.ring = r.b.ring
        /\ c.covered = r.b.covered /\ c.reported = r.b.reported
        /\ c.pending = r.b.pending \/ Len(c.pending) = 0
        /\ (Wants(r.b) => r.b.desynced) => (Wants(c) => c.desynced)
    BY <1>1, <2>1, ResetReceiverDoes
  <2>6. s \in Iteration /\ s.b = c /\ s.up = v /\ s.h = r.h
    BY <2>2, <2>4, <2>5 DEF Iteration
  <2>7. Token(d, dn, v, r.b)
    BY <2>4 DEF Kept1, Good
  <2>8. Token(d, dn, s.up, s.b)
    BY <2>5, <2>6, <2>7 DEF Token, BridgeOne, BridgeFree
  <2>9. Lighter(r.b, c)
    <3>1. r.b.covered = r.b.reported
      BY DEF Kept1, Good, Reported
    <3>2. r.b.acked \in Nat /\ r.b.reported \in Nat
      BY <1>1, ReceiverTyped
    <3> QED
      BY <2>5, <3>1, <3>2 DEF Lighter
  <2>10. Lightened(r, s)
    BY <1>2, <2>4, <2>5, <2>6, <2>9 DEF Lightened, Broken1, Broken
  <2>11. Kept1(d, dn, s)
    BY <2>6, <2>8, <2>10, LighterKeeps
  <2> QED
    BY <2>3, <2>4, <2>5, <2>6, <2>11
<1> QED
  BY <1>3, <1>4

LEMMA ReadPaneWireKeeps ==
  ASSUME NEW d \in Daemon, NEW dn \in Seq(DownFrame), NEW r \in Iteration, Kept1(d, dn, r)
  PROVE  LET s == ReadPaneWire(r)
         IN  /\ s \in Iteration /\ Kept1(d, dn, s) /\ s.up = r.up
             /\ s.b.body = r.b.body /\ s.b.pending = r.b.pending /\ (Wants(s.b) <=> Wants(r.b))
<1>1. r.b \in Receiver /\ r.up \in Seq(UpFrame) /\ r.h \in HostEnd
  BY IterationTyped
<1>2. r.b.arrived \in Seq(BOOLEAN) /\ r.h.replies \in Seq(BOOLEAN)
  BY <1>1, ReceiverTyped, HostTyped
<1>3. PICK t : t = r.b.arrived \o r.h.replies
  OBVIOUS
<1>4. /\ t \in Seq(BOOLEAN) /\ Len(t) = Len(r.b.arrived) + Len(r.h.replies)
      /\ \A i \in 1 .. Len(r.b.arrived) + Len(r.h.replies) :
           t[i] = IF i <= Len(r.b.arrived) THEN r.b.arrived[i] ELSE r.h.replies[i - Len(r.b.arrived)]
  BY <1>2, <1>3, ConcatProperties
<1>5. PICK m, n : m = Len(r.b.arrived) /\ n = Len(r.h.replies)
  OBVIOUS
<1>6. m \in Nat /\ n \in Nat
  BY <1>2, <1>5, LenProperties
<1>7. Failed(r.b.arrived) => Failed(t)
  <2>1. \A i \in 1 .. m : i \in 1 .. m + n /\ i <= m
    BY <1>6
  <2>2. \A i \in 1 .. m : i \in 1 .. Len(t) /\ t[i] = r.b.arrived[i]
    BY <1>4, <1>5, <2>1
  <2> QED
    BY <1>5, <2>2 DEF Failed
<1>8. Failed(r.h.replies) => Failed(t)
  <2>1. \A i \in 1 .. n : i + m \in 1 .. m + n /\ ~(i + m <= m) /\ (i + m) - m = i
    BY <1>6
  <2>2. \A i \in 1 .. n : i + m \in 1 .. Len(t) /\ t[i + m] = r.h.replies[i]
    BY <1>4, <1>5, <2>1
  <2> QED
    BY <1>5, <2>2 DEF Failed
<1>9. PICK b, h : b = [r.b EXCEPT !.arrived = t] /\ h = [r.h EXCEPT !.replies = <<>>]
  OBVIOUS
<1>10. PICK s : s = [r EXCEPT !.b = b, !.h = h]
  OBVIOUS
<1>11. ReadPaneWire(r) = s
  BY <1>3, <1>9, <1>10 DEF ReadPaneWire, Iteration, Receiver, HostEnd
<1>12. b \in Receiver
  BY <1>1, <1>4, <1>9 DEF Receiver
<1>13. h \in HostEnd
  <2>1. <<>> \in Seq(BOOLEAN)
    BY EmptySeq
  <2> QED
    BY <1>1, <1>9, <2>1 DEF HostEnd
<1>14. s \in Iteration /\ s.b = b /\ s.h = h /\ s.up = r.up
  BY <1>10, <1>12, <1>13 DEF Iteration
<1>15. /\ b.arrived = t /\ b.pending = r.b.pending /\ b.body = r.b.body /\ b.ring = r.b.ring
       /\ b.acked = r.b.acked /\ b.reported = r.b.reported /\ b.covered = r.b.covered /\ b.applied = r.b.applied
       /\ b.retry = r.b.retry /\ b.desynced = r.b.desynced /\ b.requested = r.b.requested /\ b.done = r.b.done
       /\ b.modes = r.b.modes
  BY <1>1, <1>9 DEF Receiver
<1>16. h.calls = r.h.calls /\ h.text = r.h.text /\ h.replies = <<>>
  BY <1>1, <1>9 DEF HostEnd
<1>17. Token(d, dn, s.up, s.b)
  <2>1. Token(d, dn, r.up, r.b)
    BY DEF Kept1, Good
  <2> QED
    BY <1>14, <1>15, <2>1 DEF Token, BridgeOne, BridgeFree
<1>18. Lighter(r.b, b)
  <2>1. r.b.covered = r.b.reported
    BY DEF Kept1, Good, Reported
  <2>2. r.b.acked \in Nat /\ r.b.reported \in Nat
    BY <1>1, ReceiverTyped
  <2> QED
    BY <1>15, <2>1, <2>2 DEF Lighter
<1>19. AcksSame(r.up, s.up)
  BY <1>14 DEF AcksSame
<1>20. Whole(r, s)
  BY <1>14, <1>15 DEF Whole
<1>21. Broken1(r) => Broken1(s)
  BY <1>7, <1>8, <1>14, <1>15 DEF Broken1, Broken
<1>22. Wants(s.b) <=> Wants(r.b)
  BY <1>14, <1>15 DEF Wants
<1>23. Wants(s.b) => s.b.desynced
  BY <1>14, <1>15, <1>22 DEF Kept1, Good, Wants
<1>24. Lightened(r, s)
  BY <1>14, <1>15, <1>16, <1>18, <1>19, <1>20, <1>21, <1>23 DEF Lightened
<1>25. Kept1(d, dn, s)
  BY <1>14, <1>17, <1>24, LighterKeeps
<1> QED
  BY <1>11, <1>14, <1>15, <1>22, <1>25

LEMMA PumpDoes ==
  ASSUME NEW b \in Receiver
  PROVE  LET c == Pump(b)
         IN  /\ c \in Receiver /\ c.arrived = <<>> /\ Len(c.ring) = Len(b.ring)
             /\ \A i \in 1 .. Len(b.ring) : c.ring[i].gen = b.ring[i].gen
             /\ b.desynced => c.desynced
             /\ Failed(b.arrived) => c.desynced
             /\ b.covered = b.reported => c.covered = c.reported
             /\ c.reported = b.reported /\ c.acked = b.acked /\ c.applied = b.applied
             /\ c.retry = b.retry /\ c.pending = b.pending /\ c.body = b.body /\ c.modes = b.modes
             /\ c.requested = b.requested /\ c.done = b.done
<1>1. PICK n, failed : n = Len(b.arrived) /\ failed = (\E i \in DOMAIN b.arrived : ~b.arrived[i])
  OBVIOUS
<1>2. PICK g : g = [i \in DOMAIN b.ring |-> [b.ring[i] EXCEPT !.left = IF @ > n THEN @ - n ELSE 0]]
  OBVIOUS
<1>3. PICK y, z : y = (b.desynced \/ failed) /\ z = IF failed THEN b.reported ELSE b.covered
  OBVIOUS
<1>4. PICK c : c = [b EXCEPT !.arrived = <<>>, !.ring = g, !.desynced = y, !.covered = z]
  OBVIOUS
<1>5. Pump(b) = c
  BY <1>1, <1>2, <1>3, <1>4 DEF Pump, Receiver
<1>6. /\ b.ring \in Seq(Entry) /\ Len(b.ring) \in Nat /\ b.arrived \in Seq(BOOLEAN) /\ n \in Nat
      /\ \A i \in 1 .. Len(b.ring) : b.ring[i] \in Entry /\ b.ring[i].left \in Nat
  BY <1>1, ReceiverTyped
<1>7. DOMAIN b.ring = 1 .. Len(b.ring) /\ DOMAIN b.arrived = 1 .. Len(b.arrived)
  BY <1>6, LenProperties
<1>8. failed <=> Failed(b.arrived)
  BY <1>1, <1>7 DEF Failed
<1>9. \A i \in 1 .. Len(b.ring) : g[i] \in Entry /\ g[i].gen = b.ring[i].gen
  <2> SUFFICES ASSUME NEW i \in 1 .. Len(b.ring) PROVE g[i] \in Entry /\ g[i].gen = b.ring[i].gen
    OBVIOUS
  <2>1. g[i] = [b.ring[i] EXCEPT !.left = IF @ > n THEN @ - n ELSE 0]
    BY <1>2, <1>7
  <2>2. PICK e, l : e = b.ring[i] /\ l = IF e.left > n THEN e.left - n ELSE 0
    OBVIOUS
  <2>3. e \in Entry /\ e.left \in Nat
    BY <1>6, <2>2
  <2>4. l \in Nat
    BY <1>6, <2>2, <2>3
  <2>5. g[i] = [e EXCEPT !.left = l]
    BY <2>1, <2>2, <2>3 DEF Entry
  <2>6. g[i] \in Entry /\ g[i].gen = e.gen
    BY <2>3, <2>4, <2>5 DEF Entry
  <2> QED
    BY <2>2, <2>6
<1>10. g \in Seq(Entry) /\ Len(g) = Len(b.ring)
  <2>1. g \in [1 .. Len(b.ring) -> Entry]
    BY <1>2, <1>7, <1>9
  <2>2. g \in Seq(Entry)
    BY <1>6, <2>1, SeqDef
  <2> QED
    BY <1>6, <2>1, <2>2, LenProperties
<1>11. y \in BOOLEAN /\ z \in Nat
  BY <1>3, ReceiverTyped
<1>12. c \in Receiver
  <2>1. <<>> \in Seq(BOOLEAN)
    BY EmptySeq
  <2> QED
    BY <1>4, <1>10, <1>11, <2>1 DEF Receiver
<1>13. /\ c.arrived = <<>> /\ c.ring = g /\ c.desynced = y /\ c.covered = z
       /\ c.reported = b.reported /\ c.acked = b.acked /\ c.applied = b.applied
       /\ c.retry = b.retry /\ c.pending = b.pending /\ c.body = b.body /\ c.modes = b.modes
       /\ c.requested = b.requested /\ c.done = b.done
  BY <1>4 DEF Receiver
<1> QED
  BY <1>3, <1>5, <1>8, <1>9, <1>10, <1>12, <1>13

LEMMA PumpKeeps ==
  ASSUME NEW d \in Daemon, NEW dn \in Seq(DownFrame), NEW r \in Iteration, Kept1(d, dn, r)
  PROVE  LET s == [r EXCEPT !.b = Pump(@)]
         IN  /\ s \in Iteration /\ Kept1(d, dn, s) /\ s.up = r.up /\ s.h = r.h /\ s.b = Pump(r.b)
             /\ Safe1(d, dn, r) => Safe1(d, dn, s)
<1>1. r.b \in Receiver /\ r.up \in Seq(UpFrame) /\ r.h \in HostEnd
  BY IterationTyped
<1>2. PICK c : c = Pump(r.b)
  OBVIOUS
<1>3. /\ c \in Receiver /\ c.arrived = <<>> /\ Len(c.ring) = Len(r.b.ring)
      /\ \A i \in 1 .. Len(r.b.ring) : c.ring[i].gen = r.b.ring[i].gen
      /\ r.b.desynced => c.desynced
      /\ Failed(r.b.arrived) => c.desynced
      /\ r.b.covered = r.b.reported => c.covered = c.reported
      /\ c.reported = r.b.reported /\ c.acked = r.b.acked /\ c.applied = r.b.applied
      /\ c.retry = r.b.retry /\ c.pending = r.b.pending /\ c.body = r.b.body /\ c.modes = r.b.modes
      /\ c.requested = r.b.requested /\ c.done = r.b.done
  BY <1>1, <1>2, PumpDoes
<1>4. PICK s : s = [r EXCEPT !.b = Pump(@)]
  OBVIOUS
<1>5. s \in Iteration /\ s.b = c /\ s.up = r.up /\ s.h = r.h
  BY <1>2, <1>3, <1>4 DEF Iteration
<1>6. Token(d, dn, s.up, s.b)
  <2>1. Token(d, dn, r.up, r.b)
    BY DEF Kept1, Good
  <2> QED
    BY <1>3, <1>5, <2>1 DEF Token, BridgeOne, BridgeFree
<1>7. Lighter(r.b, c)
  <2>1. r.b.covered = r.b.reported
    BY DEF Kept1, Good, Reported
  <2>2. r.b.acked \in Nat /\ r.b.reported \in Nat
    BY <1>1, ReceiverTyped
  <2> QED
    BY <1>3, <2>1, <2>2 DEF Lighter
<1>8. AcksSame(r.up, s.up) /\ Whole(r, s)
  BY <1>3, <1>5 DEF AcksSame, Whole
<1>9. Broken1(r) => Broken1(s)
  BY <1>3, <1>5 DEF Broken1, Broken
<1>10. Wants(s.b) => s.b.desynced
  BY <1>3, <1>5 DEF Kept1, Good, Wants
<1>11. Lightened(r, s)
  BY <1>3, <1>5, <1>7, <1>8, <1>9, <1>10 DEF Lightened
<1>12. Kept1(d, dn, s)
  BY <1>5, <1>6, <1>11, LighterKeeps
<1>13. Safe1(d, dn, r) => Safe1(d, dn, s)
  BY <1>3, <1>5 DEF Safe1, Safe, Covers
<1> QED
  BY <1>2, <1>4, <1>5, <1>12, <1>13

(* The bridge holds the token. *)
Held(d, dn, u) == DaemonFree(d) /\ HasNo("VTSINK_RESET", dn) /\ HasNo("VTSINK_PUBLISH", u)

LEMMA HeldIdle ==
  ASSUME NEW d, NEW dn, NEW u, Held(d, dn, u), Books(d)
  PROVE  Idle(d)
BY DEF Held, DaemonFree, Books, Idle

LEMMA RepublishDoes ==
  ASSUME NEW r \in Iteration
  PROVE  LET s == Republish(r)
         IN  /\ s \in Iteration /\ s.h = r.h /\ Grown(r.up, s.up, Plain("VTSINK_PUBLISH"))
             /\ s.b.acked = 0 /\ ~s.b.retry
             /\ s.b.applied = r.b.applied /\ s.b.reported = r.b.reported /\ s.b.covered = r.b.covered
             /\ s.b.ring = r.b.ring /\ s.b.pending = r.b.pending /\ s.b.modes = r.b.modes
             /\ s.b.desynced = r.b.desynced /\ s.b.arrived = r.b.arrived /\ s.b.body = r.b.body
             /\ s.b.requested = r.b.requested /\ s.b.done = r.b.done
<1>1. r.b \in Receiver /\ r.up \in Seq(UpFrame)
  BY IterationTyped
<1>2. PICK f, v, c : f = Plain("VTSINK_PUBLISH") /\ v = Append(r.up, f) /\ c = [r.b EXCEPT !.acked = 0, !.retry = FALSE]
  OBVIOUS
<1>3. f \in UpFrame
  BY <1>2 DEF Plain, UpFrame, AskFrame
<1>4. v \in Seq(UpFrame) /\ Grown(r.up, v, f)
  BY <1>1, <1>2, <1>3, GrownIs
<1>5. c \in Receiver
  BY <1>1, <1>2 DEF Receiver
<1>6. /\ c.acked = 0 /\ ~c.retry
      /\ c.applied = r.b.applied /\ c.reported = r.b.reported /\ c.covered = r.b.covered
      /\ c.ring = r.b.ring /\ c.pending = r.b.pending /\ c.modes = r.b.modes
      /\ c.desynced = r.b.desynced /\ c.arrived = r.b.arrived /\ c.body = r.b.body
      /\ c.requested = r.b.requested /\ c.done = r.b.done
  BY <1>1, <1>2 DEF Receiver
<1>7. PICK s : s = [r EXCEPT !.b = c, !.up = v]
  OBVIOUS
<1>8. Republish(r) = s
  BY <1>2, <1>7 DEF Republish, Iteration, Receiver
<1>9. s \in Iteration /\ s.b = c /\ s.up = v /\ s.h = r.h
  BY <1>4, <1>5, <1>7 DEF Iteration
<1> QED
  BY <1>2, <1>4, <1>6, <1>8, <1>9

LEMMA ResetFromDaemonKeeps ==
  ASSUME NEW d \in Daemon, NEW dn \in Seq(DownFrame), NEW r \in Iteration, Kept1(d, dn, r),
         Held(d, dn, r.up)
  PROVE  LET s == ResetFromDaemon(r)
         IN  s \in Iteration /\ Kept1(d, dn, s) /\ Safe1(d, dn, s)
<1>1. r.b \in Receiver /\ r.up \in Seq(UpFrame) /\ r.h \in HostEnd
  BY IterationTyped
<1>2. /\ Wants(r.b) => r.b.desynced
      /\ r.b.covered = r.b.reported /\ r.b.acked \in Nat /\ r.b.reported \in Nat
  BY <1>1, ReceiverTyped DEF Kept1, Good, Wants, Reported
<1>3. Idle(d)
  BY HeldIdle DEF Kept1, Good
<1>4. Token(d, dn, r.up, r.b)
  BY DEF Kept1, Good
<1>5. PICK c, q : c = ResetReceiver(r.b) /\ q = [r EXCEPT !.b = ResetReceiver(@)]
  OBVIOUS
<1>6. /\ c \in Receiver
      /\ c.acked = r.b.acked /\ c.retry = r.b.retry /\ c.body = r.b.body /\ c.modes = r.b.modes
      /\ c.arrived = r.b.arrived /\ c.applied = r.b.applied /\ c.ring = r.b.ring
      /\ c.covered = r.b.covered /\ c.reported = r.b.reported
      /\ c.desynced \/ (c.pending = r.b.pending /\ (r.b.desynced => c.desynced))
      /\ c.pending = r.b.pending \/ Len(c.pending) = 0
      /\ r.b.desynced => c.desynced
      /\ (Wants(r.b) => r.b.desynced) => (Wants(c) => c.desynced)
  BY <1>1, <1>5, ResetReceiverDoes
<1>7. q \in Iteration /\ q.b = c /\ q.up = r.up /\ q.h = r.h
  BY <1>5, <1>6 DEF Iteration
<1>8. ASSUME NEW s \in Iteration, s.h = r.h, AcksSame(r.up, s.up),
             \A i \in 1 .. Len(r.up) : i \in 1 .. Len(s.up) /\ s.up[i] = r.up[i],
             s.b.acked <= r.b.acked,
             s.b.applied = c.applied, s.b.reported = c.reported, s.b.covered = c.covered,
             s.b.ring = c.ring, s.b.pending = c.pending, s.b.modes = c.modes, s.b.desynced = c.desynced,
             s.b.arrived = c.arrived, s.b.requested = c.requested, s.b.done = c.done,
             Token(d, dn, s.up, s.b)
      PROVE  Kept1(d, dn, s) /\ Safe1(d, dn, s)
  <2>1. NoResync(s.up) => NoResync(r.up)
    BY <1>8 DEF NoResync, HasNo
  <2>2. Lighter(r.b, s.b)
    BY <1>2, <1>6, <1>8 DEF Lighter
  <2>3. c.desynced \/ Whole(r, s)
    BY <1>6, <1>8, <2>1 DEF Whole
  <2>4. Broken1(r) => Broken1(s)
    BY <1>6, <1>8, <2>1 DEF Broken1, Broken
  <2>5. Wants(s.b) => s.b.desynced
    BY <1>2, <1>6, <1>8 DEF Wants
  <2>6. Lightened(r, s)
    BY <1>6, <1>8, <2>2, <2>3, <2>4, <2>5 DEF Lightened
  <2>7. Kept1(d, dn, s)
    BY <1>8, <2>6, LighterKeeps
  <2>8. Safe1(d, dn, s)
    BY <1>3 DEF Safe1, Safe
  <2> QED
    BY <2>7, <2>8
<1>9. CASE r.b.done
  <2>1. PICK s : s = Republish(q)
    OBVIOUS
  <2>2. ResetFromDaemon(r) = s
    BY <1>5, <1>9, <2>1 DEF ResetFromDaemon
  <2>3. /\ s \in Iteration /\ s.h = q.h /\ Grown(q.up, s.up, Plain("VTSINK_PUBLISH"))
        /\ s.b.acked = 0 /\ ~s.b.retry
        /\ s.b.applied = q.b.applied /\ s.b.reported = q.b.reported /\ s.b.covered = q.b.covered
        /\ s.b.ring = q.b.ring /\ s.b.pending = q.b.pending /\ s.b.modes = q.b.modes
        /\ s.b.desynced = q.b.desynced /\ s.b.arrived = q.b.arrived /\ s.b.body = q.b.body
        /\ s.b.requested = q.b.requested /\ s.b.done = q.b.done
    BY <1>7, <2>1, RepublishDoes
  <2>4. PICK f : f = Plain("VTSINK_PUBLISH")
    OBVIOUS
  <2>5. f.type = "VTSINK_PUBLISH" /\ Grown(r.up, s.up, f)
    BY <1>7, <2>3, <2>4 DEF Plain
  <2>6. AcksSame(r.up, s.up)
    BY <2>5, GrownAcks
  <2>7. \A i \in 1 .. Len(r.up) : i \in 1 .. Len(s.up) /\ s.up[i] = r.up[i]
    BY <2>5 DEF Grown
  <2>8. Token(d, dn, s.up, s.b)
    <3>1. HasNo("VTSINK_PUBLISH", r.up)
      BY DEF Held
    <3>2. HasOne("VTSINK_PUBLISH", r.up)
      BY <1>4 DEF Token, BridgeOne
    <3>3. HasOne("VTSINK_PUBLISH", s.up)
      BY <2>5, <3>1, <3>2, GrownHasOne
    <3>4. BridgeOne(s.up, s.b)
      BY <2>3, <3>3 DEF BridgeOne
    <3> QED
      BY <1>4, <3>4 DEF Token, Held
  <2>9. s.b.acked <= r.b.acked
    BY <1>2, <2>3
  <2>10. Kept1(d, dn, s) /\ Safe1(d, dn, s)
    BY <1>7, <1>8, <2>3, <2>6, <2>7, <2>8, <2>9
  <2> QED
    BY <2>2, <2>3, <2>10
<1>10. CASE ~r.b.done
  <2>1. PICK e, s : e = [c EXCEPT !.retry = TRUE] /\ s = [q EXCEPT !.b = e]
    OBVIOUS
  <2>2. ResetFromDaemon(r) = s
    BY <1>5, <1>7, <1>10, <2>1 DEF ResetFromDaemon, Iteration
  <2>3. e \in Receiver
    BY <1>6, <2>1 DEF Receiver
  <2>4. s \in Iteration /\ s.b = e /\ s.up = r.up /\ s.h = r.h
    BY <1>7, <2>1, <2>3 DEF Iteration
  <2>5. /\ e.acked = c.acked /\ e.applied = c.applied /\ e.reported = c.reported /\ e.covered = c.covered
        /\ e.ring = c.ring /\ e.pending = c.pending /\ e.modes = c.modes /\ e.desynced = c.desynced
        /\ e.arrived = c.arrived /\ e.requested = c.requested /\ e.done = c.done
    BY <1>6, <2>1 DEF Receiver
  <2>6. AcksSame(r.up, s.up) /\ \A i \in 1 .. Len(r.up) : i \in 1 .. Len(s.up) /\ s.up[i] = r.up[i]
    BY <2>4 DEF AcksSame
  <2>7. s.b.acked <= r.b.acked
    BY <1>2, <1>6, <2>4, <2>5
  <2>8. Token(d, dn, s.up, s.b)
    <3>1. HasNo("VTSINK_PUBLISH", s.up)
      BY <2>4 DEF Held
    <3>2. HasOne("VTSINK_PUBLISH", s.up)
      BY <1>4, <2>4 DEF Token, BridgeOne
    <3>3. BridgeOne(s.up, s.b)
      BY <3>1, <3>2 DEF BridgeOne
    <3> QED
      BY <1>4, <3>3 DEF Token, Held
  <2>9. Kept1(d, dn, s) /\ Safe1(d, dn, s)
    BY <1>8, <2>4, <2>5, <2>6, <2>7, <2>8
  <2> QED
    BY <2>2, <2>4, <2>9
<1> QED
  BY <1>9, <1>10

LEMMA RetryResetKeeps ==
  ASSUME NEW d \in Daemon, NEW dn \in Seq(DownFrame), NEW r \in Iteration, Kept1(d, dn, r),
         Ready(d, dn, r.up, r.b, r.h)
  PROVE  LET s == RetryReset(r)
         IN  s \in Iteration /\ Kept1(d, dn, s) /\ Safe1(d, dn, s)
<1>1. CASE r.b.retry
  <2>1. RetryReset(r) = ResetFromDaemon(r)
    BY <1>1 DEF RetryReset
  <2>2. Token(d, dn, r.up, r.b)
    BY DEF Kept1, Good
  <2>3. HasNo("VTSINK_PUBLISH", r.up) /\ ~BridgeFree(r.up, r.b)
    BY <1>1, <2>2 DEF Token, BridgeOne, BridgeFree
  <2>4. Held(d, dn, r.up)
    BY <2>2, <2>3 DEF Token, Held
  <2> QED
    BY <2>1, <2>4, ResetFromDaemonKeeps
<1>2. CASE ~r.b.retry
  <2>1. RetryReset(r) = r
    BY <1>2 DEF RetryReset
  <2>2. d.rich = <<>> => Idle(d)
    BY DEF Kept1, Good, Books, Idle
  <2>3. Safe1(d, dn, r)
    BY <2>2 DEF Safe1, Safe, Ready
  <2> QED
    BY <2>1, <2>3
<1> QED
  BY <1>1, <1>2

-----------------------------------------------------------------------------
(* What the client library brings, frame by frame.                          *)

LEMMA TailedHasNo ==
  ASSUME NEW type, NEW s, NEW t, Tailed(s, t)
  PROVE  /\ HasNo(type, s) => HasNo(type, t)
         /\ s[1].type # type /\ HasNo(type, t) => HasNo(type, s)
         /\ HasOne(type, s) /\ s[1].type = type => HasNo(type, t)
<1>1. Len(t) \in Nat /\ Len(s) = Len(t) + 1 /\ \A i \in 1 .. Len(t) : i + 1 \in 1 .. Len(s) /\ t[i] = s[i + 1]
  BY DEF Tailed
<1>2. 1 \in 1 .. Len(s) /\ \A i \in 1 .. Len(s) : i = 1 \/ (i - 1 \in 1 .. Len(t) /\ s[i] = t[i - 1])
  <2> SUFFICES ASSUME NEW i \in 1 .. Len(s), i # 1 PROVE i - 1 \in 1 .. Len(t) /\ s[i] = t[i - 1]
    BY <1>1
  <2>1. i - 1 \in 1 .. Len(t) /\ (i - 1) + 1 = i
    BY <1>1
  <2> QED
    BY <1>1, <2>1
<1>3. HasNo(type, s) => HasNo(type, t)
  BY <1>1 DEF HasNo
<1>4. s[1].type # type /\ HasNo(type, t) => HasNo(type, s)
  BY <1>2 DEF HasNo
<1>5. HasOne(type, s) /\ s[1].type = type => HasNo(type, t)
  <2>1. \A i \in 1 .. Len(t) : i + 1 # 1
    BY <1>1
  <2> QED
    BY <1>1, <1>2, <2>1 DEF HasNo, HasOne
<1> QED
  BY <1>3, <1>4, <1>5

(* A frame of another type need not be looked for. *)
LEMMA TailedHolds ==
  ASSUME NEW g, NEW s, NEW t, Tailed(s, t), Holds(g, s)
  PROVE  Holds(g, t) \/ (IsFeed(s[1]) /\ s[1].gen = g)
<1>1. Len(t) \in Nat /\ Len(s) = Len(t) + 1 /\ \A i \in 1 .. Len(t) : t[i] = s[i + 1]
  BY DEF Tailed
<1>2. PICK i \in 1 .. Len(s) : IsFeed(s[i]) /\ s[i].gen = g
  BY DEF Holds
<1>3. CASE i = 1
  BY <1>2, <1>3
<1>4. CASE i # 1
  <2>1. i - 1 \in 1 .. Len(t) /\ (i - 1) + 1 = i
    BY <1>1, <1>4
  <2>2. t[i - 1] = s[i]
    BY <1>1, <2>1
  <2> QED
    BY <1>2, <2>1, <2>2 DEF Holds
<1> QED
  BY <1>3, <1>4

LEMMA TailedRising ==
  ASSUME NEW s, NEW t, Tailed(s, t), Rising(s), IsFeed(s[1])
  PROVE  Above(s[1].gen, t)
<1>1. Len(t) \in Nat /\ Len(s) = Len(t) + 1 /\ \A i \in 1 .. Len(t) : t[i] = s[i + 1]
  BY DEF Tailed
<1>2. ASSUME NEW i \in 1 .. Len(t) PROVE i + 1 \in 1 .. Len(s) /\ 1 \in 1 .. Len(s) /\ 1 < i + 1
  BY <1>1
<1> QED
  BY <1>1, <1>2 DEF Rising, Above

(* What holds of the frames still to be taken once the first is gone. *)
LEMMA DownTaken ==
  ASSUME NEW d \in Daemon, NEW dn \in Seq(DownFrame), NEW t \in Seq(DownFrame), Tailed(dn, t),
         NEW r \in Iteration, Kept1(d, dn, r)
  PROVE  /\ Token(d, t, r.up, r.b) /\ Numbered(d, t) /\ Reported(d, t, r.up, r.b) /\ Books(d)
         /\ Wants(r.b) => r.b.desynced
         /\ ~IsFeed(dn[1]) => Window(d, t, r.up, r.b) /\ Screen(d, t, r.up, r.b, r.h)
         /\ dn[1].type # "PANE_MODES" => ModesFollow(d, t, r.b)
         /\ dn[1].type # "TRANSACTION" /\ Safe1(d, dn, r) => Safe1(d, t, r)
<1>1. Good(d, dn, r.up, r.b, r.h)
  BY DEF Kept1
<1>2. Thinned(dn, t)
  BY TailedThins
<1>3. /\ \A i \in 1 .. Len(t) : \E j \in 1 .. Len(dn) : t[i] = dn[j]
      /\ \A type : HasNo(type, dn) => HasNo(type, t)
      /\ \A type : HasOne(type, dn) => HasOne(type, t)
      /\ Rising(dn) => Rising(t)
      /\ \A g : Above(g, dn) => Above(g, t)
      /\ \A g : Upto(g, dn) => Upto(g, t)
  BY <1>2, ThinnedKeeps
<1>4. Token(d, t, r.up, r.b)
  <2>1. Token(d, dn, r.up, r.b)
    BY <1>1 DEF Good
  <2> QED
    BY <1>3, <2>1 DEF Token
<1>5. Numbered(d, t)
  <2>1. Numbered(d, dn)
    BY <1>1 DEF Good
  <2>2. \A i \in 1 .. Len(t) : IsFeed(t[i]) => Above(t[i].gen, d.tx)
    BY <1>3, <2>1 DEF Numbered
  <2> QED
    BY <1>3, <2>1, <2>2 DEF Numbered
<1>6. Reported(d, t, r.up, r.b)
  <2>1. Reported(d, dn, r.up, r.b)
    BY <1>1 DEF Good
  <2>2. Above(r.b.applied, dn) => Above(r.b.applied, t)
    BY <1>3
  <2> QED
    BY <2>1, <2>2 DEF Reported
<1>7. Books(d) /\ (Wants(r.b) => r.b.desynced)
  BY <1>1 DEF Good, Wants
<1>8. ASSUME ~IsFeed(dn[1]) PROVE Window(d, t, r.up, r.b)
  <2>1. Window(d, dn, r.up, r.b)
    BY <1>1 DEF Good
  <2>2. Holds(d.sent_gen, dn) => Holds(d.sent_gen, t)
    BY <1>8, TailedHolds
  <2> QED
    BY <2>1, <2>2 DEF Window
<1>9. dn[1] \in DownFrame
  <2>1. Len(dn) \in Nat /\ Frames(dn)
    BY SeqFrames
  <2>2. 1 \in 1 .. Len(dn)
    BY <2>1 DEF Tailed
  <2> QED
    BY <2>1, <2>2 DEF Frames
<1>10. ASSUME ~IsFeed(dn[1]) PROVE Screen(d, t, r.up, r.b, r.h)
  <2>1. Screen(d, dn, r.up, r.b, r.h)
    BY <1>1 DEF Good
  <2>2. ASSUME NEW y2 \in Int, NEW y3 \in Int, Path(y2, dn, y3) PROVE Path(y2, t, y3)
    <3>1. Path(Take1(y2, dn[1]), t, y3)
      BY <1>9, <2>2, PathTailed
    <3>2. Take1(y2, dn[1]) = y2
      BY <1>10 DEF Take1
    <3> QED
      BY <3>1, <3>2
  <2> QED
    BY <2>1, <2>2 DEF Screen
<1>11. ASSUME dn[1].type # "PANE_MODES" PROVE ModesFollow(d, t, r.b)
  <2>1. ModesFollow(d, dn, r.b)
    BY <1>1 DEF Good
  <2>2. ASSUME NEW m \in Nat, LastModes(m, dn) PROVE LastModes(m, t)
    <3>1. PICK i \in 1 .. Len(dn) : /\ dn[i] = Modes(m)
                                   /\ \A j \in i + 1 .. Len(dn) : dn[j].type # "PANE_MODES"
      BY <2>2 DEF LastModes
    <3>2. dn[i].type = "PANE_MODES"
      BY <3>1 DEF Modes
    <3>3. i # 1
      BY <1>11, <3>2
    <3>4. Len(t) \in Nat /\ Len(dn) = Len(t) + 1 /\ \A k \in 1 .. Len(t) : t[k] = dn[k + 1]
      BY DEF Tailed
    <3>5. i - 1 \in 1 .. Len(t) /\ (i - 1) + 1 = i
      BY <3>3, <3>4
    <3>6. t[i - 1] = Modes(m)
      BY <3>1, <3>4, <3>5
    <3>7. \A j \in (i - 1) + 1 .. Len(t) : j \in 1 .. Len(t) /\ j + 1 \in i + 1 .. Len(dn)
      BY <3>4, <3>5
    <3>8. \A j \in (i - 1) + 1 .. Len(t) : t[j].type # "PANE_MODES"
      BY <3>1, <3>4, <3>7
    <3> QED
      BY <3>5, <3>6, <3>8 DEF LastModes
  <2>3. HasNo("PANE_MODES", dn) => HasNo("PANE_MODES", t)
    BY <1>3
  <2> QED
    BY <2>1, <2>2, <2>3 DEF ModesFollow
<1>12. ASSUME dn[1].type # "TRANSACTION", Safe1(d, dn, r) PROVE Safe1(d, t, r)
  <2>1. HasNo("TRANSACTION", t) => HasNo("TRANSACTION", dn)
    BY <1>12, TailedHasNo
  <2> QED
    BY <1>12, <2>1 DEF Safe1, Safe, Covers
<1> QED
  BY <1>4, <1>5, <1>6, <1>7, <1>8, <1>10, <1>11, <1>12

LEMMA NewerUp ==
  ASSUME NEW d \in Daemon, NEW u \in Seq(UpFrame), NEW b \in Receiver,
         NEW g \in Nat, NEW k \in Nat, g <= k, Newer(g, d, u, b)
  PROVE  Newer(k, d, u, b)
<1>1. d.acked_gen \in Nat /\ b.acked \in Nat /\ b.reported \in Nat
  BY DaemonTyped, ReceiverTyped
<1>2. \A i \in 1 .. Len(u) : u[i].type = "ACK" => u[i].gen \in Nat
  BY UpTyped
<1>3. d.acked_gen < g /\ b.acked < g /\ b.reported < g
  BY DEF Newer
<1>4. \A i \in 1 .. Len(u) : u[i].type = "ACK" => u[i].gen < g
  BY DEF Newer
<1>5. d.acked_gen < k /\ b.acked < k /\ b.reported < k
  BY <1>1, <1>3
<1>6. \A i \in 1 .. Len(u) : u[i].type = "ACK" => u[i].gen < k
  BY <1>2, <1>4
<1> QED
  BY <1>5, <1>6 DEF Newer

(* The books of a receiver that has taken feed f, kept or lost. *)
LEMMA TakenReported ==
  ASSUME NEW d \in Daemon, NEW dn \in Seq(DownFrame), NEW t \in Seq(DownFrame), Tailed(dn, t),
         NEW u \in Seq(UpFrame), NEW b \in Receiver, NEW c \in Receiver, NEW f \in FeedFrame,
         f = dn[1], Numbered(d, dn), Reported(d, dn, u, b), Reported(d, t, u, b),
         c.applied = f.gen, c.acked = b.acked, c.reported = b.reported, c.covered = b.covered,
         c.ring = b.ring, c.pending = b.pending \/ Grown(b.pending, c.pending, f)
  PROVE  Reported(d, t, u, c)
<1>1. IsFeed(f) /\ f.gen \in Nat /\ 1 \in 1 .. Len(dn)
  BY DEF FeedFrame, IsFeed, Tailed
<1>2. /\ b.acked \in Nat /\ b.reported \in Nat /\ b.applied \in Nat
      /\ \A i \in 1 .. Len(b.ring) : b.ring[i].gen \in Nat
      /\ \A i \in 1 .. Len(b.pending) : b.pending[i].gen \in Nat
  BY ReceiverTyped
<1>3. b.applied < f.gen
  BY <1>1 DEF Reported, Above
<1>13. \A g \in Nat : g <= b.applied => g < f.gen /\ g <= f.gen
  <2>1. \A x, y, g \in Nat : x < y /\ g <= x => g < y /\ g <= y
    OBVIOUS
  <2> QED
    BY <1>1, <1>2, <1>3, <2>1
<1>4. \A g : Newer(g, d, u, b) => Newer(g, d, u, c)
  BY DEF Newer
<1>5. \A g \in Nat : f.gen <= g => Newer(g, d, u, c)
  <2>1. Newer(b.applied + 1, d, u, b) /\ b.applied + 1 \in Nat
    BY <1>2 DEF Reported
  <2>2. \A g \in Nat : f.gen <= g => b.applied + 1 <= g
    BY <1>1, <1>2, <1>3
  <2> QED
    BY <1>4, <2>1, <2>2, NewerUp
<1>6. c.applied <= d.minted /\ Above(c.applied, t) /\ Above(c.applied, d.tx)
  <2>1. f.gen <= d.minted /\ Above(f.gen, d.tx) /\ Rising(dn)
    BY <1>1 DEF Numbered, Upto
  <2> QED
    BY <1>1, <2>1, TailedRising
<1>7. Newer(c.applied + 1, d, u, c)
  <2>1. f.gen + 1 \in Nat /\ f.gen <= f.gen + 1
    BY <1>1
  <2> QED
    BY <1>5, <2>1
<1>8. AcksRise(d, u) /\ c.covered = c.reported /\ Len(c.ring) <= RING
  BY DEF Reported
<1>9. \A i \in 1 .. Len(c.ring) : c.ring[i].gen < f.gen /\ c.ring[i].gen <= c.applied /\ Newer(c.ring[i].gen, d, u, c)
  <2> SUFFICES ASSUME NEW i \in 1 .. Len(b.ring)
               PROVE  b.ring[i].gen < f.gen /\ b.ring[i].gen <= f.gen /\ Newer(b.ring[i].gen, d, u, c)
    OBVIOUS
  <2>1. b.ring[i].gen <= b.applied /\ Newer(b.ring[i].gen, d, u, b)
    BY DEF Reported
  <2>2. b.ring[i].gen \in Nat
    BY <1>2
  <2>3. b.ring[i].gen < f.gen /\ b.ring[i].gen <= f.gen
    BY <1>13, <2>1, <2>2
  <2> QED
    BY <1>4, <2>1, <2>3
<1>10. \A i, j \in 1 .. Len(c.ring) : i < j => c.ring[i].gen < c.ring[j].gen
  BY DEF Reported
<1>11. \A i \in 1 .. Len(b.pending) :
         /\ b.pending[i].gen <= c.applied /\ Newer(b.pending[i].gen, d, u, c)
         /\ \A j \in 1 .. Len(c.ring) : c.ring[j].gen < b.pending[i].gen
  <2> SUFFICES ASSUME NEW i \in 1 .. Len(b.pending)
               PROVE  /\ b.pending[i].gen <= f.gen /\ Newer(b.pending[i].gen, d, u, c)
                      /\ \A j \in 1 .. Len(b.ring) : b.ring[j].gen < b.pending[i].gen
    OBVIOUS
  <2>1. /\ b.pending[i].gen <= b.applied /\ Newer(b.pending[i].gen, d, u, b)
        /\ \A j \in 1 .. Len(b.ring) : b.ring[j].gen < b.pending[i].gen
    BY DEF Reported
  <2>2. b.pending[i].gen \in Nat
    BY <1>2
  <2>3. b.pending[i].gen <= f.gen
    BY <1>13, <2>1, <2>2
  <2> QED
    BY <1>4, <2>1, <2>3
<1>12. \A i \in 1 .. Len(c.pending) :
         /\ c.pending[i].gen <= c.applied /\ Newer(c.pending[i].gen, d, u, c)
         /\ \A j \in 1 .. Len(c.ring) : c.ring[j].gen < c.pending[i].gen
  <2>1. CASE c.pending = b.pending
    BY <1>11, <2>1
  <2>2. CASE Grown(b.pending, c.pending, f)
    <3>1. ASSUME NEW i \in 1 .. Len(c.pending), i \notin 1 .. Len(b.pending)
          PROVE  c.pending[i] = f
      BY <2>2, <3>1 DEF Grown
    <3>2. \A i \in 1 .. Len(b.pending) : c.pending[i] = b.pending[i]
      BY <2>2 DEF Grown
    <3>3. f.gen <= c.applied /\ Newer(f.gen, d, u, c)
      BY <1>1, <1>5
    <3> QED
      BY <1>9, <1>11, <3>1, <3>2, <3>3
  <2> QED
    BY <2>1, <2>2
<1> QED
  BY <1>6, <1>7, <1>8, <1>9, <1>10, <1>12 DEF Reported

LEMMA TakeFeedKeeps ==
  ASSUME NEW d \in Daemon, NEW dn \in Seq(DownFrame), NEW t \in Seq(DownFrame), Tailed(dn, t),
         NEW f \in DownFrame, f = dn[1], IsFeed(f), NEW lost \in BOOLEAN,
         NEW r \in Iteration, Kept1(d, dn, r), Safe1(d, dn, r)
  PROVE  LET s == TakeFrame(r, f, lost)
         IN  s \in Iteration /\ Kept1(d, t, s) /\ Safe1(d, t, s)
<1>1. r.b \in Receiver /\ r.up \in Seq(UpFrame) /\ r.h \in HostEnd
  BY IterationTyped
<1>2. f \in FeedFrame /\ f.gen \in Nat /\ f.type = "VTSINK_RPC"
  BY FeedTyped DEF IsFeed
<1>3. /\ Token(d, t, r.up, r.b) /\ Numbered(d, t) /\ Reported(d, t, r.up, r.b) /\ Books(d)
      /\ Wants(r.b) => r.b.desynced
      /\ ModesFollow(d, t, r.b) /\ Safe1(d, t, r)
  BY <1>2, DownTaken
<1>4. Numbered(d, dn) /\ Reported(d, dn, r.up, r.b) /\ Window(d, dn, r.up, r.b) /\ Screen(d, dn, r.up, r.b, r.h)
  BY DEF Kept1, Good
<1>5. ASSUME NEW c \in Receiver, NEW s,
             s = [r EXCEPT !.b = c],
             c.applied = f.gen, c.acked = r.b.acked, c.reported = r.b.reported, c.covered = r.b.covered,
             c.ring = r.b.ring, c.pending = r.b.pending \/ Grown(r.b.pending, c.pending, f),
             c.retry = r.b.retry, c.modes = r.b.modes, c.requested = r.b.requested, c.done = r.b.done,
             c.body = r.b.body, c.arrived = r.b.arrived, r.b.desynced => c.desynced,
             Window(d, t, r.up, c), Screen(d, t, r.up, c, r.h)
      PROVE  s \in Iteration /\ Kept1(d, t, s) /\ Safe1(d, t, s)
  <2>1. s \in Iteration /\ s.b = c /\ s.up = r.up /\ s.h = r.h
    BY <1>5 DEF Iteration
  <2>2. Reported(d, t, r.up, c)
    BY <1>1, <1>2, <1>3, <1>4, <1>5, TakenReported
  <2>3. Token(d, t, r.up, c)
    BY <1>3, <1>5 DEF Token, BridgeOne, BridgeFree
  <2>4. ModesFollow(d, t, c)
    BY <1>3, <1>5 DEF ModesFollow
  <2>5. c.requested /\ ~c.done => c.desynced
    BY <1>3, <1>5 DEF Wants
  <2>6. Safe1(d, t, s)
    BY <1>3, <1>5, <2>1 DEF Safe1, Safe, Covers
  <2>7. Kept1(d, t, s)
    BY <1>3, <1>5, <2>1, <2>2, <2>3, <2>4, <2>5 DEF Kept1, Good
  <2> QED
    BY <2>1, <2>6, <2>7
<1>6. CASE lost
  <2>1. PICK c, s : c = [r.b EXCEPT !.desynced = TRUE, !.applied = f.gen] /\ s = [r EXCEPT !.b = c]
    OBVIOUS
  <2>2. TakeFrame(r, f, lost) = s
    BY <1>2, <1>6, <2>1 DEF TakeFrame, Iteration, Receiver
  <2>3. c \in Receiver
    BY <1>1, <1>2, <2>1 DEF Receiver
  <2>4. /\ c.applied = f.gen /\ c.acked = r.b.acked /\ c.reported = r.b.reported /\ c.covered = r.b.covered
        /\ c.ring = r.b.ring /\ c.pending = r.b.pending
        /\ c.retry = r.b.retry /\ c.modes = r.b.modes /\ c.requested = r.b.requested /\ c.done = r.b.done
        /\ c.body = r.b.body /\ c.arrived = r.b.arrived /\ c.desynced
    BY <1>1, <2>1 DEF Receiver
  <2>5. Window(d, t, r.up, c) /\ Screen(d, t, r.up, c, r.h)
    BY <2>4 DEF Window, Screen, Broken
  <2>6. s \in Iteration /\ Kept1(d, t, s) /\ Safe1(d, t, s)
    BY <1>5, <2>1, <2>3, <2>4, <2>5
  <2> QED
    BY <2>2, <2>6
<1>7. CASE ~lost
  <2>10. PICK p : p = Append(r.b.pending, f)
    OBVIOUS
  <2>11. PICK c, s : c = [r.b EXCEPT !.pending = p, !.applied = f.gen] /\ s = [r EXCEPT !.b = c]
    OBVIOUS
  <2>1. p = Append(r.b.pending, f) /\ c = [r.b EXCEPT !.pending = p, !.applied = f.gen] /\ s = [r EXCEPT !.b = c]
    BY <2>10, <2>11
  <2>2. TakeFrame(r, f, lost) = s
    BY <1>2, <1>7, <2>1 DEF TakeFrame, Iteration, Receiver
  <2>3. r.b.pending \in Seq(FeedFrame)
    BY <1>1, ReceiverTyped
  <2>4. p \in Seq(FeedFrame) /\ Grown(r.b.pending, p, f)
    BY <1>2, <2>1, <2>3, GrownIs
  <2>5. c \in Receiver
    BY <1>1, <1>2, <2>1, <2>4 DEF Receiver
  <2>6. /\ c.applied = f.gen /\ c.acked = r.b.acked /\ c.reported = r.b.reported /\ c.covered = r.b.covered
        /\ c.ring = r.b.ring /\ c.pending = p
        /\ c.retry = r.b.retry /\ c.modes = r.b.modes /\ c.requested = r.b.requested /\ c.done = r.b.done
        /\ c.body = r.b.body /\ c.arrived = r.b.arrived /\ c.desynced = r.b.desynced
    BY <1>1, <2>1 DEF Receiver
  <2>7. Window(d, t, r.up, c)
    <3>1. Holds(d.sent_gen, dn) => Holds(d.sent_gen, t) \/ Holds(d.sent_gen, p)
      <4>1. IsFeed(dn[1]) /\ dn[1].gen = d.sent_gen => Holds(d.sent_gen, p)
        <5>1. Len(r.b.pending) + 1 \in 1 .. Len(p) /\ p[Len(r.b.pending) + 1] = f
          BY <2>4 DEF Grown
        <5> QED
          BY <5>1 DEF Holds
      <4> QED
        BY <4>1, TailedHolds
    <3>2. Holds(d.sent_gen, r.b.pending) => Holds(d.sent_gen, p)
      <4>1. \A i \in 1 .. Len(r.b.pending) : i \in 1 .. Len(p) /\ p[i] = r.b.pending[i]
        BY <2>4 DEF Grown
      <4> QED
        BY <4>1 DEF Holds
    <3> QED
      BY <1>4, <2>6, <3>1, <3>2 DEF Window
  <2>8. Screen(d, t, r.up, c, r.h)
    <3>1. ASSUME NEW y1 \in Int, NEW y2 \in Int, NEW y3 \in Int, Path(y1, r.b.pending, y2), Path(y2, dn, y3)
          PROVE  Take1(y2, f) \in Int /\ Path(y1, p, Take1(y2, f)) /\ Path(Take1(y2, f), t, y3)
      <4>1. Take1(y2, f) \in Int
        BY Take1Int
      <4>2. Path(Take1(y2, f), t, y3)
        BY <3>1, PathTailed
      <4>3. 0 \in 0 .. Len(r.b.pending)
        BY <1>1, ReceiverTyped
      <4>4. Path(y1, p, Take1(y2, f))
        BY <2>4, <3>1, <4>3, PathGrown DEF Path
      <4> QED
        BY <4>1, <4>2, <4>4
    <3>2. Broken(r.up, r.b, r.h) => Broken(r.up, c, r.h)
      BY <2>6 DEF Broken
    <3>3. CASE d.shadow = NoText \/ Broken(r.up, r.b, r.h)
      BY <3>2, <3>3 DEF Screen
    <3>4. CASE ~(d.shadow = NoText \/ Broken(r.up, r.b, r.h))
      <4>1. PICK y1, y2, y3 \in Int :
              /\ CallPath(r.h.text, r.h.calls, y1) /\ Path(y1, r.b.pending, y2)
              /\ Path(y2, dn, y3) /\ Path(y3, d.tx, d.shadow)
        BY <1>4, <3>4 DEF Screen
      <4>2. PICK z : z = Take1(y2, f)
        OBVIOUS
      <4>3. z \in Int /\ Path(y1, p, z) /\ Path(z, t, y3)
        BY <3>1, <4>1, <4>2
      <4> QED
        BY <2>6, <4>1, <4>3 DEF Screen
    <3> QED
      BY <3>3, <3>4
  <2>9. s \in Iteration /\ Kept1(d, t, s) /\ Safe1(d, t, s)
    BY <1>5, <2>1, <2>4, <2>5, <2>6, <2>7, <2>8
  <2> QED
    BY <2>2, <2>9
<1> QED
  BY <1>6, <1>7

LEMMA TakeRichKeeps ==
  ASSUME NEW d \in Daemon, NEW dn \in Seq(DownFrame), NEW t \in Seq(DownFrame), Tailed(dn, t),
         NEW f \in DownFrame, f = dn[1], f.type = "TRANSACTION", NEW lost \in BOOLEAN,
         NEW r \in Iteration, Kept1(d, dn, r), Safe1(d, dn, r)
  PROVE  LET s == TakeFrame(r, f, lost)
         IN  s \in Iteration /\ Kept1(d, t, s) /\ Safe1(d, t, s)
<1>1. r.b \in Receiver /\ r.up \in Seq(UpFrame) /\ r.h \in HostEnd
  BY IterationTyped
<1>2. ~IsFeed(f) /\ f.type # "PANE_MODES"
  BY DEF IsFeed
<1>3. /\ Token(d, t, r.up, r.b) /\ Numbered(d, t) /\ Reported(d, t, r.up, r.b) /\ Books(d)
      /\ Wants(r.b) => r.b.desynced
      /\ Window(d, t, r.up, r.b) /\ Screen(d, t, r.up, r.b, r.h) /\ ModesFollow(d, t, r.b)
  BY <1>2, DownTaken
<1>4. Kept1(d, t, r)
  BY <1>3 DEF Kept1, Good, Wants
<1>5. CASE lost
  <2>1. PICK v, s : v = Append(r.up, Plain("RESYNC")) /\ s = [r EXCEPT !.up = v]
    OBVIOUS
  <2>2. TakeFrame(r, f, lost) = s
    BY <1>5, <2>1 DEF TakeFrame, Iteration
  <2>3. /\ v \in Seq(UpFrame) /\ AcksSame(r.up, v) /\ ~NoResync(v)
        /\ \A e, n, b : Token(e, n, r.up, b) => Token(e, n, v, b)
    BY <1>1, <2>1, AskedUp
  <2>4. s \in Iteration /\ s.b = r.b /\ s.up = v /\ s.h = r.h
    BY <2>1, <2>3 DEF Iteration
  <2>5. Token(d, t, s.up, s.b)
    BY <1>3, <2>3, <2>4
  <2>6. Lighter(r.b, s.b)
    <3>1. r.b.covered = r.b.reported /\ r.b.acked \in Nat /\ r.b.reported \in Nat
      BY <1>1, <1>3, ReceiverTyped DEF Reported
    <3> QED
      BY <2>4, <3>1 DEF Lighter
  <2>7. Lightened(r, s)
    BY <1>3, <2>3, <2>4, <2>6 DEF Lightened, Broken1, Broken
  <2>8. Kept1(d, t, s)
    BY <1>4, <2>4, <2>5, <2>7, LighterKeeps
  <2>9. Safe1(d, t, s)
    BY <2>3, <2>4 DEF Safe1, Safe, Covers
  <2> QED
    BY <2>2, <2>4, <2>8, <2>9
<1>6. CASE ~lost
  <2>1. PICK c : c = [r.b EXCEPT !.body = <<f>>]
    OBVIOUS
  <2>2. PICK s : s = [r EXCEPT !.b = c]
    OBVIOUS
  <2>3. TakeFrame(r, f, lost) = s
    BY <1>6, <2>1, <2>2 DEF TakeFrame, Iteration, Receiver
  <2>4. f \in RichFrame
    BY DEF DownFrame, FeedFrame, ModesFrame, PlainFrame
  <2>5. <<f>> \in Seq(RichFrame) /\ <<f>> # <<>>
    BY <2>4
  <2>6. c \in Receiver
    BY <1>1, <2>1, <2>5 DEF Receiver
  <2>7. /\ c.applied = r.b.applied /\ c.acked = r.b.acked /\ c.reported = r.b.reported /\ c.covered = r.b.covered
        /\ c.ring = r.b.ring /\ c.pending = r.b.pending
        /\ c.retry = r.b.retry /\ c.modes = r.b.modes /\ c.requested = r.b.requested /\ c.done = r.b.done
        /\ c.body # <<>> /\ c.arrived = r.b.arrived /\ c.desynced = r.b.desynced
    BY <1>1, <2>1, <2>5 DEF Receiver
  <2>8. s \in Iteration /\ s.b = c /\ s.up = r.up /\ s.h = r.h
    BY <2>2, <2>6 DEF Iteration
  <2>9. Token(d, t, s.up, s.b)
    BY <1>3, <2>7, <2>8 DEF Token, BridgeOne, BridgeFree
  <2>10. Lighter(r.b, s.b)
    <3>1. r.b.covered = r.b.reported /\ r.b.acked \in Nat /\ r.b.reported \in Nat
      BY <1>1, <1>3, ReceiverTyped DEF Reported
    <3> QED
      BY <2>7, <2>8, <3>1 DEF Lighter
  <2>11. AcksSame(r.up, s.up) /\ Whole(r, s)
    BY <2>7, <2>8 DEF AcksSame, Whole
  <2>12. Broken1(r) => Broken1(s)
    BY <2>7, <2>8 DEF Broken1, Broken
  <2>13. Wants(s.b) => s.b.desynced
    BY <1>3, <2>7, <2>8 DEF Wants
  <2>14. Lightened(r, s)
    BY <2>7, <2>8, <2>10, <2>11, <2>12, <2>13 DEF Lightened
  <2>15. Kept1(d, t, s)
    BY <1>4, <2>8, <2>9, <2>14, LighterKeeps
  <2>16. Safe1(d, t, s)
    BY <2>7, <2>8 DEF Safe1, Safe, Covers
  <2> QED
    BY <2>3, <2>8, <2>15, <2>16
<1> QED
  BY <1>5, <1>6

LEMMA TakeResetKeeps ==
  ASSUME NEW d \in Daemon, NEW dn \in Seq(DownFrame), NEW t \in Seq(DownFrame), Tailed(dn, t),
         NEW f \in DownFrame, f = dn[1], f.type = "VTSINK_RESET", NEW lost \in BOOLEAN,
         NEW r \in Iteration, Kept1(d, dn, r)
  PROVE  LET s == TakeFrame(r, f, lost)
         IN  s \in Iteration /\ Kept1(d, t, s) /\ Safe1(d, t, s)
<1>1. ~IsFeed(f) /\ f.type # "PANE_MODES"
  BY DEF IsFeed
<1>2. /\ Token(d, t, r.up, r.b) /\ Numbered(d, t) /\ Reported(d, t, r.up, r.b) /\ Books(d)
      /\ Wants(r.b) => r.b.desynced
      /\ Window(d, t, r.up, r.b) /\ Screen(d, t, r.up, r.b, r.h) /\ ModesFollow(d, t, r.b)
  BY <1>1, DownTaken
<1>3. Kept1(d, t, r)
  BY <1>2 DEF Kept1, Good, Wants
<1>4. Token(d, dn, r.up, r.b)
  BY DEF Kept1, Good
<1>5. ~HasNo("VTSINK_RESET", dn)
  BY DEF HasNo, Tailed
<1>6. HasNo("VTSINK_RESET", t)
  BY <1>4, TailedHasNo DEF Token
<1>7. Held(d, t, r.up)
  BY <1>4, <1>5, <1>6 DEF Token, Held, BridgeFree
<1>8. TakeFrame(r, f, lost) = ResetFromDaemon(r)
  BY DEF TakeFrame
<1> QED
  BY <1>3, <1>7, <1>8, ResetFromDaemonKeeps

LEMMA TakeModesKeeps ==
  ASSUME NEW d \in Daemon, NEW dn \in Seq(DownFrame), NEW t \in Seq(DownFrame), Tailed(dn, t),
         NEW f \in DownFrame, f = dn[1], f.type = "PANE_MODES", NEW lost \in BOOLEAN,
         NEW r \in Iteration, Kept1(d, dn, r), Safe1(d, dn, r)
  PROVE  LET s == TakeFrame(r, f, lost)
         IN  s \in Iteration /\ Kept1(d, t, s) /\ Safe1(d, t, s)
<1>1. r.b \in Receiver /\ r.up \in Seq(UpFrame) /\ r.h \in HostEnd
  BY IterationTyped
<1>2. ~IsFeed(f) /\ f.type # "TRANSACTION" /\ f.modes \in Nat
  BY DEF IsFeed, DownFrame, FeedFrame, RichFrame, ModesFrame, PlainFrame
<1>3. /\ Token(d, t, r.up, r.b) /\ Numbered(d, t) /\ Reported(d, t, r.up, r.b) /\ Books(d)
      /\ Wants(r.b) => r.b.desynced
      /\ Window(d, t, r.up, r.b) /\ Screen(d, t, r.up, r.b, r.h) /\ Safe1(d, t, r)
  BY <1>2, DownTaken
<1>4. PICK c : c = [r.b EXCEPT !.modes = f.modes]
  OBVIOUS
<1>5. PICK s : s = [r EXCEPT !.b = c]
  OBVIOUS
<1>6. TakeFrame(r, f, lost) = s
  BY <1>4, <1>5 DEF TakeFrame, Iteration, Receiver
<1>7. c \in Receiver
  BY <1>1, <1>2, <1>4 DEF Receiver
<1>8. /\ c.applied = r.b.applied /\ c.acked = r.b.acked /\ c.reported = r.b.reported /\ c.covered = r.b.covered
      /\ c.ring = r.b.ring /\ c.pending = r.b.pending /\ c.body = r.b.body
      /\ c.retry = r.b.retry /\ c.modes = f.modes /\ c.requested = r.b.requested /\ c.done = r.b.done
      /\ c.arrived = r.b.arrived /\ c.desynced = r.b.desynced
  BY <1>1, <1>4 DEF Receiver
<1>9. s \in Iteration /\ s.b = c /\ s.up = r.up /\ s.h = r.h
  BY <1>5, <1>7 DEF Iteration
<1>10. Token(d, t, r.up, c)
  BY <1>3, <1>8 DEF Token, BridgeOne, BridgeFree
<1>11. Reported(d, t, r.up, c)
  BY <1>3, <1>8 DEF Reported, Newer
<1>12. Window(d, t, r.up, c) /\ Screen(d, t, r.up, c, r.h)
  BY <1>3, <1>8 DEF Window, Screen, Broken
<1>13. ModesFollow(d, t, c)
  <2> SUFFICES ASSUME NEW m \in Nat, d.modes = <<m>>
               PROVE  \/ LastModes(m, d.tx)
                      \/ HasNo("PANE_MODES", d.tx) /\ LastModes(m, t)
                      \/ HasNo("PANE_MODES", d.tx) /\ HasNo("PANE_MODES", t) /\ c.modes = m
    BY DEF ModesFollow
  <2>1. \/ LastModes(m, d.tx)
        \/ HasNo("PANE_MODES", d.tx) /\ LastModes(m, dn)
        \/ HasNo("PANE_MODES", d.tx) /\ HasNo("PANE_MODES", dn) /\ r.b.modes = m
    BY DEF Kept1, Good, ModesFollow
  <2>2. ~HasNo("PANE_MODES", dn)
    BY DEF HasNo, Tailed
  <2>3. ASSUME LastModes(m, dn) PROVE LastModes(m, t) \/ (HasNo("PANE_MODES", t) /\ c.modes = m)
    <3>1. PICK i \in 1 .. Len(dn) : /\ dn[i] = Modes(m)
                                   /\ \A j \in i + 1 .. Len(dn) : dn[j].type # "PANE_MODES"
      BY <2>3 DEF LastModes
    <3>2. Len(t) \in Nat /\ Len(dn) = Len(t) + 1 /\ \A k \in 1 .. Len(t) : t[k] = dn[k + 1]
      BY DEF Tailed
    <3>3. CASE i = 1
      <4>1. c.modes = m
        BY <1>8, <3>1, <3>3 DEF Modes
      <4>2. \A j \in 1 .. Len(t) : j + 1 \in i + 1 .. Len(dn)
        BY <3>2, <3>3
      <4>3. HasNo("PANE_MODES", t)
        BY <3>1, <3>2, <4>2 DEF HasNo
      <4> QED
        BY <4>1, <4>3
    <3>4. CASE i # 1
      <4>1. i - 1 \in 1 .. Len(t) /\ (i - 1) + 1 = i
        BY <3>2, <3>4
      <4>2. t[i - 1] = Modes(m)
        BY <3>1, <3>2, <4>1
      <4>3. \A j \in (i - 1) + 1 .. Len(t) : j \in 1 .. Len(t) /\ j + 1 \in i + 1 .. Len(dn)
        BY <3>2, <4>1
      <4>4. \A j \in (i - 1) + 1 .. Len(t) : t[j].type # "PANE_MODES"
        BY <3>1, <3>2, <4>3
      <4> QED
        BY <4>1, <4>2, <4>4 DEF LastModes
    <3> QED
      BY <3>3, <3>4
  <2> QED
    BY <2>1, <2>2, <2>3
<1>14. Kept1(d, t, s)
  BY <1>3, <1>8, <1>9, <1>10, <1>11, <1>12, <1>13 DEF Kept1, Good, Wants
<1>15. Safe1(d, t, s)
  BY <1>3, <1>8, <1>9 DEF Safe1, Safe, Covers
<1> QED
  BY <1>6, <1>9, <1>14, <1>15

LEMMA TakeFrameKeeps ==
  ASSUME NEW d \in Daemon, NEW dn \in Seq(DownFrame), NEW t \in Seq(DownFrame), Tailed(dn, t),
         NEW f \in DownFrame, f = dn[1], NEW lost \in BOOLEAN,
         NEW r \in Iteration, Kept1(d, dn, r), Safe1(d, dn, r)
  PROVE  LET s == TakeFrame(r, f, lost)
         IN  s \in Iteration /\ Kept1(d, t, s) /\ Safe1(d, t, s)
<1>1. CASE IsFeed(f)
  BY <1>1, TakeFeedKeeps
<1>2. CASE f.type = "TRANSACTION"
  BY <1>2, TakeRichKeeps
<1>3. CASE f.type = "VTSINK_RESET"
  BY <1>3, TakeResetKeeps
<1>4. CASE f.type = "PANE_MODES"
  BY <1>4, TakeModesKeeps
<1>5. CASE f.type = "REFUSE"
  <2>1. TakeFrame(r, f, lost) = r
    BY <1>5 DEF TakeFrame
  <2>2. ~IsFeed(f) /\ f.type # "PANE_MODES" /\ f.type # "TRANSACTION"
    BY <1>5 DEF IsFeed
  <2>3. Kept1(d, t, r) /\ Safe1(d, t, r)
    BY <2>2, DownTaken DEF Kept1, Good, Wants
  <2> QED
    BY <2>1, <2>3
<1>6. IsFeed(f) \/ f.type \in {"TRANSACTION", "VTSINK_RESET", "PANE_MODES", "REFUSE"}
  BY DEF IsFeed, DownFrame, FeedFrame, RichFrame, ModesFrame, PlainFrame
<1> QED
  BY <1>1, <1>2, <1>3, <1>4, <1>5, <1>6

(* The frames after the first k. *)
Rest(s, k) == [i \in 1 .. Len(s) - k |-> s[i + k]]

LEMMA RestIs ==
  ASSUME NEW s \in Seq(DownFrame)
  PROVE  /\ Rest(s, 0) = s /\ Rest(s, Len(s)) = <<>>
         /\ \A k \in 0 .. Len(s) : Rest(s, k) \in Seq(DownFrame)
         /\ \A k \in 0 .. Len(s) : k < Len(s) =>
              Tailed(Rest(s, k), Rest(s, k + 1)) /\ Rest(s, k)[1] = s[k + 1]
<1> PICK n : n = Len(s)
  OBVIOUS
<1>1. n \in Nat /\ s \in [1 .. n -> DownFrame] /\ DOMAIN s = 1 .. n
  BY LenProperties
<1>2. ASSUME NEW k \in 0 .. n
      PROVE  /\ n - k \in Nat /\ Rest(s, k) \in [1 .. n - k -> DownFrame]
             /\ Rest(s, k) \in Seq(DownFrame) /\ Len(Rest(s, k)) = n - k
             /\ \A i \in 1 .. n - k : Rest(s, k)[i] = s[i + k]
  <2>1. n - k \in Nat /\ \A i \in 1 .. n - k : i + k \in 1 .. n
    BY <1>1
  <2>2. Rest(s, k) = [i \in 1 .. n - k |-> s[i + k]]
    BY DEF Rest
  <2>3. Rest(s, k) \in [1 .. n - k -> DownFrame]
    BY <1>1, <2>1, <2>2
  <2>4. Rest(s, k) \in Seq(DownFrame)
    BY <2>1, <2>3, SeqDef
  <2>5. Len(Rest(s, k)) = n - k
    <3>1. DOMAIN Rest(s, k) = 1 .. n - k /\ DOMAIN Rest(s, k) = 1 .. Len(Rest(s, k)) /\ Len(Rest(s, k)) \in Nat
      BY <2>3, <2>4, LenProperties
    <3> QED
      BY <2>1, <3>1
  <2> QED
    BY <2>1, <2>2, <2>3, <2>4, <2>5
<1>3. Rest(s, 0) = s
  <2>1. n - 0 = n /\ \A i \in 1 .. n : i + 0 = i
    BY <1>1
  <2>2. Rest(s, 0) \in [1 .. n -> DownFrame] /\ \A i \in 1 .. n : Rest(s, 0)[i] = s[i]
    BY <1>1, <1>2, <2>1
  <2> QED
    BY <1>1, <2>2
<1>4. Rest(s, n) = <<>>
  <2>1. n - n = 0 /\ n \in 0 .. n
    BY <1>1
  <2>2. Rest(s, n) \in Seq(DownFrame) /\ Len(Rest(s, n)) = 0
    BY <1>2, <2>1
  <2> QED
    BY <2>2, EmptySeq
<1>5. ASSUME NEW k \in 0 .. n, k < n
      PROVE  Tailed(Rest(s, k), Rest(s, k + 1)) /\ Rest(s, k)[1] = s[k + 1]
  <2>1. k + 1 \in 0 .. n /\ 1 \in 1 .. n - k /\ n - (k + 1) \in Nat /\ n - k = (n - (k + 1)) + 1
    BY <1>1, <1>5
  <2>2. /\ \A i \in 1 .. n - k : Rest(s, k)[i] = s[i + k]
        /\ \A i \in 1 .. n - (k + 1) : Rest(s, k + 1)[i] = s[i + (k + 1)]
        /\ Len(Rest(s, k)) = n - k /\ Len(Rest(s, k + 1)) = n - (k + 1)
    BY <1>2, <2>1
  <2>3. \A i \in 1 .. n - (k + 1) : i + 1 \in 1 .. n - k /\ (i + 1) + k = i + (k + 1)
    BY <1>1, <2>1
  <2>4. \A i \in 1 .. n - (k + 1) : Rest(s, k + 1)[i] = Rest(s, k)[i + 1]
    BY <2>2, <2>3
  <2>5. Rest(s, k)[1] = s[k + 1]
    <3>1. 1 + k = k + 1
      BY <1>1
    <3> QED
      BY <2>1, <2>2, <3>1
  <2>6. Len(Rest(s, k + 1)) \in Nat /\ Len(Rest(s, k)) = Len(Rest(s, k + 1)) + 1
    BY <2>1, <2>2
  <2>7. \A i \in 1 .. Len(Rest(s, k + 1)) : Rest(s, k + 1)[i] = Rest(s, k)[i + 1]
    BY <2>2, <2>4
  <2> QED
    BY <2>5, <2>6, <2>7 DEF Tailed
<1> QED
  BY <1>2, <1>3, <1>4, <1>5

(* g[k] is what taking the first k frames makes of r, as far as it is known *)
(* to be an iteration's record.                                             *)
Takes(g, r, dn, lost) ==
  /\ g[0] = r
  /\ \A k \in 1 .. Len(dn) :
       TakeFrame(g[k - 1], dn[k], k = lost) \in Iteration => g[k] = TakeFrame(g[k - 1], dn[k], k = lost)

LEMMA TakesKeeps ==
  ASSUME NEW d \in Daemon, NEW dn \in Seq(DownFrame), NEW r \in Iteration, NEW lost,
         Kept1(d, dn, r), Safe1(d, dn, r), NEW g, Takes(g, r, dn, lost)
  PROVE  /\ \A k \in 0 .. Len(dn) : g[k] \in Iteration /\ Kept1(d, Rest(dn, k), g[k]) /\ Safe1(d, Rest(dn, k), g[k])
         /\ \A k \in 1 .. Len(dn) : g[k] = TakeFrame(g[k - 1], dn[k], k = lost)
<1> PICK n : n = Len(dn)
  OBVIOUS
<1>1. n \in Nat /\ \A k \in 1 .. n : dn[k] \in DownFrame
  BY LenProperties, ElementOfSeq
<1>2. /\ Rest(dn, 0) = dn
      /\ \A k \in 0 .. n : Rest(dn, k) \in Seq(DownFrame)
      /\ \A k \in 0 .. n : k < n => Tailed(Rest(dn, k), Rest(dn, k + 1)) /\ Rest(dn, k)[1] = dn[k + 1]
  BY RestIs
<1>3. g[0] = r
  BY DEF Takes
<1>4. ASSUME NEW k \in 0 .. n, k < n,
             g[k] \in Iteration, Kept1(d, Rest(dn, k), g[k]), Safe1(d, Rest(dn, k), g[k])
      PROVE  /\ g[k + 1] = TakeFrame(g[k], dn[k + 1], k + 1 = lost)
             /\ g[k + 1] \in Iteration /\ Kept1(d, Rest(dn, k + 1), g[k + 1]) /\ Safe1(d, Rest(dn, k + 1), g[k + 1])
  <2>1. k + 1 \in 1 .. n /\ k + 1 \in 0 .. n /\ (k + 1) - 1 = k
    BY <1>1, <1>4
  <2>2. PICK p, q, f, l, v : p = Rest(dn, k) /\ q = Rest(dn, k + 1) /\ f = dn[k + 1] /\ l = (k + 1 = lost) /\ v = g[k]
    OBVIOUS
  <2>3. /\ p \in Seq(DownFrame) /\ q \in Seq(DownFrame) /\ Tailed(p, q) /\ f \in DownFrame /\ f = p[1]
        /\ l \in BOOLEAN /\ v \in Iteration /\ Kept1(d, p, v) /\ Safe1(d, p, v)
    BY <1>1, <1>2, <1>4, <2>1, <2>2
  <2>4. PICK w : w = TakeFrame(v, f, l)
    OBVIOUS
  <2>5. w \in Iteration /\ Kept1(d, q, w) /\ Safe1(d, q, w)
    BY <2>3, <2>4, TakeFrameKeeps
  <2>6. TakeFrame(g[k], dn[k + 1], k + 1 = lost) = w
    BY <2>2, <2>4
  <2>7. g[k + 1] = w
    BY <2>1, <2>5, <2>6 DEF Takes
  <2> QED
    BY <2>2, <2>5, <2>6, <2>7
<1> DEFINE G == {k \in 0 .. n : g[k] \in Iteration /\ Kept1(d, Rest(dn, k), g[k]) /\ Safe1(d, Rest(dn, k), g[k])}
<1>5. 0 \in G
  BY <1>1, <1>2, <1>3
<1>6. \A k \in 0 .. n : (k \in G /\ k < n) => k + 1 \in G
  <2> SUFFICES ASSUME NEW k \in 0 .. n, k \in G, k < n PROVE k + 1 \in G
    OBVIOUS
  <2>1. k + 1 \in 0 .. n
    BY <1>1
  <2>2. g[k + 1] \in Iteration /\ Kept1(d, Rest(dn, k + 1), g[k + 1]) /\ Safe1(d, Rest(dn, k + 1), g[k + 1])
    BY <1>4
  <2> QED
    BY <2>1, <2>2
<1>7. \A k \in 0 .. n : k \in G
  <2> HIDE DEF G
  <2> QED
    BY <1>1, <1>5, <1>6, CountUp
<1>8. \A k \in 0 .. n : g[k] \in Iteration /\ Kept1(d, Rest(dn, k), g[k]) /\ Safe1(d, Rest(dn, k), g[k])
  BY <1>7
<1> HIDE DEF G
<1>9. ASSUME NEW k \in 1 .. n PROVE g[k] = TakeFrame(g[k - 1], dn[k], k = lost)
  <2>1. k - 1 \in 0 .. n /\ k - 1 < n /\ (k - 1) + 1 = k
    BY <1>1
  <2>2. PICK i \in 0 .. n : i = k - 1 /\ i < n /\ k = i + 1
    BY <2>1
  <2>3. g[i + 1] = TakeFrame(g[i], dn[i + 1], i + 1 = lost)
    BY <1>4, <1>8, <2>2
  <2> QED
    BY <2>2, <2>3
<1> QED
  BY <1>8, <1>9

LEMMA TakeFramesKeeps ==
  ASSUME NEW d \in Daemon, NEW dn \in Seq(DownFrame), NEW r \in Iteration, NEW lost,
         Kept1(d, dn, r), Safe1(d, dn, r)
  PROVE  LET s == TakeFrames(r, dn, lost)
         IN  s \in Iteration /\ Kept1(d, <<>>, s) /\ Safe1(d, <<>>, s)
<1> PICK n : n = Len(dn)
  OBVIOUS
<1>0. n \in Nat
  BY LenProperties
<1> DEFINE Step(k, x) == TakeFrame(x, dn[k], k = lost)
           F == [k \in 1 .. n |-> [x \in Iteration |-> IF Step(k, x) \in Iteration THEN Step(k, x) ELSE x]]
<1>1. PICK v : Steps(Iteration, n, r, F, v)
  <2>1. F \in [1 .. n -> [Iteration -> Iteration]]
    <3> HIDE DEF Step
    <3> QED
      OBVIOUS
  <2> HIDE DEF F
  <2> QED
    BY <1>0, <2>1, StepsExist
<1>2. v \in [0 .. n -> Iteration] /\ v[0] = r
  BY <1>1 DEF Steps
<1>3. Takes(v, r, dn, lost)
  <2> SUFFICES ASSUME NEW k \in 1 .. n, Step(k, v[k - 1]) \in Iteration PROVE v[k] = Step(k, v[k - 1])
    BY <1>2 DEF Takes
  <2>1. k - 1 \in 0 .. n
    BY <1>0
  <2>2. v[k - 1] \in Iteration /\ v[k] = F[k][v[k - 1]]
    BY <1>1, <1>2, <2>1 DEF Steps
  <2> HIDE DEF Step
  <2> QED
    BY <2>2
<1>4. \A k \in 1 .. n : v[k] = TakeFrame(v[k - 1], dn[k], k = lost)
  BY <1>3, TakesKeeps
<1> DEFINE Takers(z) == [i \in 0 .. Len(dn) |-> IF i = 0 THEN r ELSE TakeFrame(z[i - 1], dn[i], i = lost)]
<1>5. v = Takers(v)
  <2>1. \A k \in 0 .. n : k = 0 \/ k \in 1 .. n
    BY <1>0
  <2>2. \A k \in 0 .. n : v[k] = IF k = 0 THEN r ELSE TakeFrame(v[k - 1], dn[k], k = lost)
    BY <1>2, <1>4, <2>1
  <2> QED
    BY <1>2, <2>2
<1>6. PICK w : w = CHOOSE z : z = Takers(z)
  OBVIOUS
<1>7. w = Takers(w)
  BY <1>5, <1>6, Zenon
<1>8. TakeFrames(r, dn, lost) = w[n]
  BY <1>6, Zenon DEF TakeFrames
<1>9. Takes(w, r, dn, lost)
  <2>1. \A k \in 0 .. n : Takers(w)[k] = IF k = 0 THEN r ELSE TakeFrame(w[k - 1], dn[k], k = lost)
    OBVIOUS
  <2> HIDE DEF Takers
  <2>2. \A k \in 0 .. n : w[k] = IF k = 0 THEN r ELSE TakeFrame(w[k - 1], dn[k], k = lost)
    BY <1>7, <2>1
  <2>3. 0 \in 0 .. n /\ \A k \in 1 .. n : k \in 0 .. n /\ k # 0
    BY <1>0
  <2> QED
    BY <2>2, <2>3 DEF Takes
<1>10. n \in 0 .. n /\ Rest(dn, n) = <<>>
  BY <1>0, RestIs
<1>11. w[n] \in Iteration /\ Kept1(d, Rest(dn, n), w[n]) /\ Safe1(d, Rest(dn, n), w[n])
  BY <1>9, <1>10, TakesKeeps
<1> QED
  BY <1>8, <1>10, <1>11

-----------------------------------------------------------------------------
(* Publishing what was taken.                                               *)

LEMMA EnterDoes ==
  ASSUME NEW ring \in Seq(Entry), NEW entry \in Entry, Len(ring) <= RING,
         \A i, j \in 1 .. Len(ring) : i < j => ring[i].gen < ring[j].gen,
         \A i \in 1 .. Len(ring) : ring[i].gen < entry.gen
  PROVE  LET t == Enter(ring, entry)
         IN  /\ t \in Seq(Entry) /\ Len(t) <= RING
             /\ \A i, j \in 1 .. Len(t) : i < j => t[i].gen < t[j].gen
             /\ \A i \in 1 .. Len(t) : t[i] = entry \/ (i \in 1 .. Len(ring) /\ t[i] = ring[i])
             /\ \E i \in 1 .. Len(t) : t[i] = entry
<1>1. Len(ring) \in Nat /\ RING \in Nat /\ RING # 0
  BY LenProperties, FeedAssumption
<1>2. CASE Len(ring) < RING
  <2>1. PICK t : t = Append(ring, entry)
    OBVIOUS
  <2>2. Enter(ring, entry) = t
    BY <1>2, <2>1 DEF Enter
  <2>3. t \in Seq(Entry) /\ Grown(ring, t, entry)
    BY <2>1, GrownIs
  <2>4. Len(t) = Len(ring) + 1 /\ t[Len(ring) + 1] = entry /\ \A i \in 1 .. Len(ring) : t[i] = ring[i]
    BY <2>3 DEF Grown
  <2>5. \A i \in 1 .. Len(t) : (i = Len(ring) + 1 /\ t[i] = entry) \/ (i \in 1 .. Len(ring) /\ t[i] = ring[i])
    BY <1>1, <2>4
  <2>6. \A i, j \in 1 .. Len(t) : i < j => t[i].gen < t[j].gen
    <3> SUFFICES ASSUME NEW i \in 1 .. Len(t), NEW j \in 1 .. Len(t), i < j PROVE t[i].gen < t[j].gen
      OBVIOUS
    <3>1. i \in 1 .. Len(ring) /\ t[i] = ring[i]
      BY <1>1, <2>4
    <3> QED
      BY <2>5, <3>1
  <2>7. Len(t) <= RING /\ Len(ring) + 1 \in 1 .. Len(t)
    BY <1>1, <1>2, <2>4
  <2> QED
    BY <2>2, <2>3, <2>4, <2>5, <2>6, <2>7
<1>3. CASE ~(Len(ring) < RING)
  <2>1. Len(ring) = RING /\ RING \in 1 .. Len(ring)
    BY <1>1, <1>3
  <2>2. PICK t : t = [ring EXCEPT ![RING] = entry]
    OBVIOUS
  <2>3. Enter(ring, entry) = t
    BY <1>3, <2>2 DEF Enter
  <2>4. t \in Seq(Entry) /\ Len(t) = Len(ring) /\ \A i \in 1 .. Len(ring) : t[i] = IF i = RING THEN entry ELSE ring[i]
    BY <2>1, <2>2, ExceptSeq
  <2>5. \A i, j \in 1 .. Len(t) : i < j => t[i].gen < t[j].gen
    <3> SUFFICES ASSUME NEW i \in 1 .. Len(ring), NEW j \in 1 .. Len(ring), i < j PROVE t[i].gen < t[j].gen
      BY <2>4
    <3>1. i # RING
      BY <1>1, <2>1
    <3> QED
      BY <2>4, <3>1
  <2> QED
    BY <2>1, <2>3, <2>4, <2>5
<1> QED
  BY <1>2, <1>3

(* What is pending when the frames have run out. *)
LEMMA PendingNew ==
  ASSUME NEW d \in Daemon, NEW u \in Seq(UpFrame), NEW b \in Receiver, NEW dn,
         Reported(d, dn, u, b), Len(b.pending) # 0
  PROVE  /\ Newer(b.applied, d, u, b)
         /\ \A i \in 1 .. Len(b.ring) : b.ring[i].gen < b.applied
<1>1. /\ b.applied \in Nat /\ Len(b.pending) \in Nat
      /\ \A i \in 1 .. Len(b.ring) : b.ring[i].gen \in Nat
      /\ \A i \in 1 .. Len(b.pending) : b.pending[i].gen \in Nat
  BY ReceiverTyped
<1>2. 1 \in 1 .. Len(b.pending)
  BY <1>1
<1>3. PICK g : g = b.pending[1].gen
  OBVIOUS
<1>4. g \in Nat /\ g <= b.applied /\ Newer(g, d, u, b) /\ \A j \in 1 .. Len(b.ring) : b.ring[j].gen < g
  BY <1>1, <1>2, <1>3 DEF Reported
<1>5. Newer(b.applied, d, u, b)
  BY <1>1, <1>4, NewerUp
<1>6. \A x, y, z \in Nat : x < y /\ y <= z => x < z
  OBVIOUS
<1>7. \A i \in 1 .. Len(b.ring) : b.ring[i].gen < b.applied
  BY <1>1, <1>4, <1>6
<1> QED
  BY <1>5, <1>7

LEMMA FlushContentKeeps ==
  ASSUME NEW d \in Daemon, NEW r \in Iteration, Kept1(d, <<>>, r), Safe1(d, <<>>, r)
  PROVE  LET s == FlushContent(r)
         IN  /\ s \in Iteration /\ Kept1(d, <<>>, s) /\ Safe1(d, <<>>, s)
             /\ s.b.pending = <<>> /\ s.b.body = <<>>
<1>1. r.b \in Receiver /\ r.up \in Seq(UpFrame) /\ r.h \in HostEnd
  BY IterationTyped
<1>2. CASE r.b.pending = <<>> /\ r.b.body = <<>>
  <2>1. FlushContent(r) = r
    BY <1>2 DEF FlushContent
  <2> QED
    BY <1>2, <2>1
<1>3. CASE ~(r.b.pending = <<>> /\ r.b.body = <<>>)
  <2>1. PICK q : q = [r EXCEPT !.b = Pump(@)]
    OBVIOUS
  <2>2. <<>> \in Seq(DownFrame)
    BY EmptySeq
  <2>3. /\ q \in Iteration /\ Kept1(d, <<>>, q) /\ q.up = r.up /\ q.h = r.h /\ q.b = Pump(r.b)
    BY <2>1, <2>2, PumpKeeps
  <2>4. PICK b : b = q.b
    OBVIOUS
  <2>5. b \in Receiver /\ b = Pump(r.b) /\ b.pending = r.b.pending /\ b.body = r.b.body /\ b.applied = r.b.applied
    BY <1>1, <2>3, <2>4, PumpDoes
  <2>6. Good(d, <<>>, r.up, b, r.h)
    BY <2>3, <2>4 DEF Kept1
  <2>7. /\ b.applied \in Nat /\ b.pending \in Seq(FeedFrame) /\ Len(b.pending) \in Nat /\ b.body \in Seq(RichFrame)
        /\ b.ring \in Seq(Entry) /\ Len(b.ring) \in Nat
        /\ \A i \in 1 .. Len(b.ring) : b.ring[i].gen \in Nat
        /\ \A i \in 1 .. Len(b.pending) : b.pending[i].gen \in Nat
    BY <2>5, ReceiverTyped
  <2>8. PICK entry : entry = [left |-> InPipeline(r.h) + 1, gen |-> r.b.applied]
    OBVIOUS
  <2>9. r.h.calls \in Seq(Call) /\ Len(r.h.calls) \in Nat /\ Len(r.h.replies) \in Nat
    BY <1>1, HostTyped
  <2>10. entry \in Entry /\ entry.gen = b.applied
    <3>1. \A x, y \in Nat : x + y + 1 \in Nat
      OBVIOUS
    <3>2. InPipeline(r.h) + 1 \in Nat
      BY <2>9, <3>1 DEF InPipeline
    <3>3. PICK n \in Nat : n = InPipeline(r.h) + 1
      BY <3>2
    <3> QED
      BY <2>5, <2>7, <2>8, <3>3 DEF Entry
  <2>11. PICK ring : ring = IF r.b.pending # <<>> /\ ~b.desynced THEN Enter(b.ring, entry) ELSE b.ring
    OBVIOUS
  <2>12. PICK call, calls : call = [feeds |-> r.b.pending, rich |-> r.b.body] /\ calls = Append(r.h.calls, call)
    OBVIOUS
  <2>13. PICK c : c = [b EXCEPT !.pending = <<>>, !.body = <<>>, !.ring = ring]
    OBVIOUS
  <2>14. PICK h : h = [r.h EXCEPT !.calls = calls]
    OBVIOUS
  <2>15. PICK s : s = [r EXCEPT !.b = c, !.h = h]
    OBVIOUS
  <2>16. FlushContent(r) = s
    <3>1. c = [Pump(r.b) EXCEPT !.pending = <<>>, !.body = <<>>,
                 !.ring = IF r.b.pending # <<>> /\ ~Pump(r.b).desynced THEN Enter(@, entry) ELSE @]
      BY <2>5, <2>11, <2>13 DEF Receiver
    <3>2. s = [r EXCEPT !.b = c, !.h.calls = Append(@, call)]
      BY <1>1, <2>12, <2>14, <2>15 DEF Iteration
    <3> QED
      BY <1>3, <2>8, <2>12, <3>1, <3>2, Zenon DEF FlushContent
  <2>17. call \in Call /\ call.feeds = b.pending
    BY <2>5, <2>7, <2>12 DEF Call
  <2>18. calls \in Seq(Call) /\ Grown(r.h.calls, calls, call)
    BY <2>9, <2>12, <2>17, GrownIs
  <2>19. h \in HostEnd /\ h.calls = calls /\ h.text = r.h.text /\ h.replies = r.h.replies
    BY <1>1, <2>14, <2>18 DEF HostEnd
  <2>20. Reported(d, <<>>, r.up, b) /\ Books(d)
    BY <2>6 DEF Good
  <2>21. (b.pending = <<>>) <=> (Len(b.pending) = 0)
    BY <2>7, EmptySeq
  <2>22. ASSUME r.b.pending # <<>>, ~b.desynced
         PROVE  /\ Newer(b.applied, d, r.up, b)
                /\ \A i \in 1 .. Len(b.ring) : b.ring[i].gen < b.applied
                /\ ring \in Seq(Entry) /\ Len(ring) <= RING
                /\ \A i, j \in 1 .. Len(ring) : i < j => ring[i].gen < ring[j].gen
                /\ \A i \in 1 .. Len(ring) : ring[i] = entry \/ (i \in 1 .. Len(b.ring) /\ ring[i] = b.ring[i])
                /\ \E i \in 1 .. Len(ring) : ring[i] = entry
    <3>1. ring = Enter(b.ring, entry)
      BY <2>11, <2>22
    <3>2. Newer(b.applied, d, r.up, b) /\ \A i \in 1 .. Len(b.ring) : b.ring[i].gen < b.applied
      BY <1>1, <2>5, <2>20, <2>21, <2>22, PendingNew
    <3>3. /\ Len(b.ring) <= RING
          /\ \A i, j \in 1 .. Len(b.ring) : i < j => b.ring[i].gen < b.ring[j].gen
      BY <2>20 DEF Reported
    <3>4. \A i \in 1 .. Len(b.ring) : b.ring[i].gen < entry.gen
      BY <2>10, <3>2
    <3> QED
      BY <2>7, <2>10, <3>1, <3>2, <3>3, <3>4, EnterDoes
  <2>23. ASSUME ~(r.b.pending # <<>> /\ ~b.desynced) PROVE ring = b.ring
    BY <2>11, <2>23
  <2>24. ring \in Seq(Entry)
    BY <2>7, <2>22, <2>23
  <2>25. c \in Receiver
    <3>1. <<>> \in Seq(FeedFrame) /\ <<>> \in Seq(RichFrame)
      BY EmptySeq
    <3> QED
      BY <2>5, <2>13, <2>24, <3>1 DEF Receiver
  <2>26. /\ c.pending = <<>> /\ c.body = <<>> /\ c.ring = ring
         /\ c.applied = b.applied /\ c.acked = b.acked /\ c.reported = b.reported /\ c.covered = b.covered
         /\ c.retry = b.retry /\ c.modes = b.modes /\ c.requested = b.requested /\ c.done = b.done
         /\ c.arrived = b.arrived /\ c.desynced = b.desynced
    BY <2>5, <2>13 DEF Receiver
  <2>27. s \in Iteration /\ s.b = c /\ s.up = r.up /\ s.h = h
    BY <2>15, <2>19, <2>25 DEF Iteration
  <2>28. \A g : Newer(g, d, r.up, b) => Newer(g, d, r.up, c)
    BY <2>26 DEF Newer
  <2>29. Reported(d, <<>>, r.up, c)
    <3>1. /\ Len(ring) <= RING
          /\ \A i \in 1 .. Len(ring) : ring[i].gen <= b.applied /\ Newer(ring[i].gen, d, r.up, b)
          /\ \A i, j \in 1 .. Len(ring) : i < j => ring[i].gen < ring[j].gen
      <4>1. CASE r.b.pending # <<>> /\ ~b.desynced
        <5>1. \A i \in 1 .. Len(b.ring) : b.ring[i].gen <= b.applied /\ Newer(b.ring[i].gen, d, r.up, b)
          BY <2>20 DEF Reported
        <5>2. entry.gen <= b.applied /\ Newer(entry.gen, d, r.up, b)
          BY <2>7, <2>10, <2>22, <4>1
        <5> QED
          BY <2>22, <4>1, <5>1, <5>2
      <4>2. CASE ~(r.b.pending # <<>> /\ ~b.desynced)
        BY <2>20, <2>23, <4>2 DEF Reported
      <4> QED
        BY <4>1, <4>2
    <3>2. Len(c.pending) = 0
      BY <2>26, EmptySeq
    <3>3. \A i \in 1 .. Len(c.pending) : FALSE
      BY <3>2
    <3>4. /\ c.applied <= d.minted /\ Above(c.applied, <<>>) /\ Above(c.applied, d.tx)
          /\ Newer(c.applied + 1, d, r.up, c) /\ AcksRise(d, r.up) /\ c.covered = c.reported
      BY <2>20, <2>26, <2>28 DEF Reported
    <3>5. \A i \in 1 .. Len(c.ring) : c.ring[i].gen <= c.applied /\ Newer(c.ring[i].gen, d, r.up, c)
      BY <2>26, <2>28, <3>1
    <3>6. Len(c.ring) <= RING /\ \A i, j \in 1 .. Len(c.ring) : i < j => c.ring[i].gen < c.ring[j].gen
      BY <2>26, <3>1
    <3> QED
      BY <3>3, <3>4, <3>5, <3>6 DEF Reported
  <2>30. Window(d, <<>>, r.up, c)
    <3>1. Window(d, <<>>, r.up, b)
      BY <2>6 DEF Good
    <3>2. CASE b.desynced
      BY <2>26, <3>2 DEF Window
    <3>3. CASE ~b.desynced /\ r.b.pending = <<>>
      <4>1. ~Holds(d.sent_gen, b.pending)
        <5>1. Len(b.pending) = 0
          BY <2>5, <2>21, <3>3
        <5> QED
          BY <5>1 DEF Holds
      <4>2. c.ring = b.ring
        BY <2>23, <2>26, <3>3
      <4> QED
        BY <2>26, <3>1, <3>3, <4>1, <4>2 DEF Window
    <3>4. CASE ~b.desynced /\ r.b.pending # <<>>
      <4>1. d.sent_gen \in {0, d.minted} /\ b.applied <= d.minted
        BY <2>20 DEF Books, Reported
      <4>2. d.sent_gen \in Nat /\ d.minted \in Nat
        BY DaemonTyped
      <4>3. ASSUME NEW i \in 1 .. Len(b.ring), b.ring[i].gen = d.sent_gen PROVE d.sent_gen = 0
        <5>1. b.ring[i].gen < b.applied
          BY <2>22, <3>4
        <5>2. \A x, y, z \in Nat : x < y /\ y <= z => x # z
          OBVIOUS
        <5>3. d.sent_gen # d.minted
          BY <2>7, <4>1, <4>2, <4>3, <5>1, <5>2
        <5> QED
          BY <4>1, <5>3
      <4>4. ASSUME Holds(d.sent_gen, b.pending), d.sent_gen # 0
            PROVE  \E i \in 1 .. Len(c.ring) : c.ring[i].gen = d.sent_gen
        <5>1. PICK i \in 1 .. Len(b.pending) : b.pending[i].gen = d.sent_gen
          BY <4>4 DEF Holds
        <5>2. b.pending[i].gen <= b.applied
          BY <2>20 DEF Reported
        <5>3. d.sent_gen = d.minted
          BY <4>1, <4>4
        <5>4. \A x, y \in Nat : x <= y /\ y <= x => x = y
          OBVIOUS
        <5>5. b.applied = d.sent_gen
          BY <2>7, <4>1, <4>2, <5>1, <5>2, <5>3, <5>4
        <5>6. entry.gen = d.sent_gen
          BY <2>10, <5>5
        <5> QED
          BY <2>22, <2>26, <3>4, <5>6
      <4> QED
        BY <2>26, <3>1, <3>4, <4>3, <4>4 DEF Window
    <3> QED
      BY <3>2, <3>3, <3>4
  <2>31. Screen(d, <<>>, r.up, c, h)
    <3>1. Screen(d, <<>>, r.up, b, r.h)
      BY <2>6 DEF Good
    <3>2. CASE d.shadow = NoText \/ Broken(r.up, b, r.h)
      BY <2>19, <2>26, <3>2 DEF Screen, Broken
    <3>3. CASE ~(d.shadow = NoText \/ Broken(r.up, b, r.h))
      <4>1. PICK y1, y2, y3 \in Int :
              /\ CallPath(r.h.text, r.h.calls, y1) /\ Path(y1, b.pending, y2)
              /\ Path(y2, <<>>, y3) /\ Path(y3, d.tx, d.shadow)
        BY <3>1, <3>3 DEF Screen
      <4>2. Path(y1, call.feeds, y2)
        BY <2>17, <4>1
      <4>3. r.h.text \in Int
        BY <1>1, HostTyped
      <4>4. CallPath(r.h.text, calls, y2)
        BY <2>18, <4>1, <4>2, <4>3, CallGrown
      <4>5. Path(y2, c.pending, y2)
        <5>1. Len(c.pending) = 0
          BY <2>26, EmptySeq
        <5> QED
          BY <5>1, PathEmpty
      <4> QED
        BY <2>19, <4>1, <4>4, <4>5 DEF Screen
    <3> QED
      BY <3>2, <3>3
  <2>32. Token(d, <<>>, r.up, c)
    BY <2>6, <2>26 DEF Good, Token, BridgeOne, BridgeFree
  <2>33. ModesFollow(d, <<>>, c)
    BY <2>6, <2>26 DEF Good, ModesFollow
  <2>34. Kept1(d, <<>>, s)
    BY <2>6, <2>26, <2>27, <2>29, <2>30, <2>31, <2>32, <2>33 DEF Kept1, Good
  <2>35. Safe1(d, <<>>, s)
    <3>1. InPipeline(h) > 0
      <4>1. Len(h.calls) = Len(r.h.calls) + 1 /\ h.replies = r.h.replies
        BY <2>18, <2>19 DEF Grown
      <4>2. \A x, y \in Nat : (x + 1) + y > 0
        OBVIOUS
      <4>3. (Len(r.h.calls) + 1) + Len(r.h.replies) > 0
        BY <2>9, <4>2
      <4> QED
        BY <4>1, <4>3 DEF InPipeline
    <3> QED
      BY <2>27, <3>1 DEF Safe1, Safe, Covers
  <2> QED
    BY <2>16, <2>26, <2>27, <2>34, <2>35
<1> QED
  BY <1>2, <1>3

-----------------------------------------------------------------------------
(* Reporting what was applied.                                              *)

(* The first n entries of b's ledger are done: c has the others. *)
Popped(b, n, ring, c) ==
  /\ Len(ring) = Len(b.ring) - n
  /\ \A i \in 1 .. Len(ring) : n + i \in 1 .. Len(b.ring) /\ ring[i] = b.ring[n + i]
  /\ n = 0 => c = b
  /\ n # 0 => c = [b EXCEPT !.covered = b.ring[n].gen, !.ring = ring]

LEMMA PopDoes ==
  ASSUME NEW b \in Receiver
  PROVE  \E n \in 0 .. Len(b.ring) : \E ring \in Seq(Entry) : Popped(b, n, ring, PopCompleted(b))
<1> PICK m : m = Len(b.ring)
  OBVIOUS
<1>1. /\ b.ring \in Seq(Entry) /\ m \in Nat /\ DOMAIN b.ring = 1 .. m
      /\ \A i \in 1 .. m : b.ring[i] \in Entry
  BY ReceiverTyped, LenProperties
<1>2. PICK n : n = Cardinality(Completed(b))
  OBVIOUS
<1>3. n \in 0 .. m
  <2>1. Completed(b) \in SUBSET (1 .. m)
    BY <1>1 DEF Completed
  <2>2. IsFiniteSet(1 .. m) /\ Cardinality(1 .. m) = m
    BY <1>1, FS_Interval
  <2>3. IsFiniteSet(Completed(b)) /\ n <= m
    BY <1>2, <2>1, <2>2, FS_Subset
  <2>4. n \in Nat
    BY <1>2, <2>3, FS_CardinalityType
  <2> QED
    BY <1>1, <2>3, <2>4
<1>4. PICK ring : ring = SubSeq(b.ring, n + 1, m)
  OBVIOUS
<1>5. /\ n + 1 \in Int /\ m \in Int /\ \A i \in n + 1 .. m : i \in 1 .. m
      /\ (n + 1 <= m => m - (n + 1) + 1 = m - n) /\ (~(n + 1 <= m) => m - n = 0)
      /\ m - (n + 1) + 1 = m - n
      /\ \A i \in 1 .. m - n : n + i \in 1 .. m /\ (n + 1) + i - 1 = n + i
  BY <1>1, <1>3
<1>6. \A i \in n + 1 .. m : b.ring[i] \in Entry
  BY <1>1, <1>5
<1>7. /\ ring \in Seq(Entry) /\ Len(ring) = IF n + 1 <= m THEN m - (n + 1) + 1 ELSE 0
      /\ \A i \in 1 .. m - (n + 1) + 1 : ring[i] = b.ring[(n + 1) + i - 1]
  BY <1>4, <1>5, <1>6, SubSeqProperties
<1>8. Len(ring) = m - n
  BY <1>5, <1>7
<1>9. \A i \in 1 .. Len(ring) : n + i \in 1 .. m /\ ring[i] = b.ring[n + i]
  BY <1>5, <1>7, <1>8
<1>10. n = 0 => PopCompleted(b) = b
  BY <1>2 DEF PopCompleted
<1>11. n # 0 => PopCompleted(b) = [b EXCEPT !.covered = b.ring[n].gen, !.ring = ring]
  BY <1>2, <1>4 DEF PopCompleted, Receiver
<1>12. Popped(b, n, ring, PopCompleted(b))
  BY <1>8, <1>9, <1>10, <1>11 DEF Popped
<1> QED
  BY <1>3, <1>7, <1>12

(* The books once the first n entries are done and the last is acknowledged. *)
LEMMA AcknowledgedReported ==
  ASSUME NEW d \in Daemon, NEW dn, NEW u \in Seq(UpFrame), NEW v \in Seq(UpFrame),
         NEW b \in Receiver, NEW c \in Receiver, Reported(d, dn, u, b), Len(b.pending) = 0,
         NEW n \in 1 .. Len(b.ring), NEW g \in Nat, g = b.ring[n].gen,
         Grown(u, v, Ack(g)),
         c.acked = g, c.reported = g, c.covered = g, c.applied = b.applied, c.pending = b.pending,
         Len(c.ring) = Len(b.ring) - n,
         \A i \in 1 .. Len(c.ring) : n + i \in 1 .. Len(b.ring) /\ c.ring[i] = b.ring[n + i]
  PROVE  Reported(d, dn, v, c)
<1>1. /\ b.applied \in Nat /\ Len(b.ring) \in Nat /\ Len(c.ring) \in Nat
      /\ \A i \in 1 .. Len(b.ring) : b.ring[i].gen \in Nat
  BY ReceiverTyped
<1>2. g <= b.applied /\ Newer(g, d, u, b)
  BY DEF Reported
<1>3. PICK f : f = Ack(g)
  OBVIOUS
<1>4. f.type = "ACK" /\ f.gen = g
  BY <1>3 DEF Ack
<1>5. Len(u) \in Nat /\ Len(v) = Len(u) + 1 /\ v[Len(u) + 1] = f /\ \A i \in 1 .. Len(u) : v[i] = u[i]
  BY <1>3 DEF Grown
<1>6. \A i \in 1 .. Len(v) : (i = Len(u) + 1 /\ v[i] = f) \/ (i \in 1 .. Len(u) /\ v[i] = u[i])
  BY <1>5
<1>7. ASSUME NEW k \in Nat, g < k, Newer(k, d, u, b) PROVE Newer(k, d, v, c)
  BY <1>4, <1>6, <1>7 DEF Newer
<1>8. c.applied <= d.minted /\ Above(c.applied, dn) /\ Above(c.applied, d.tx)
  BY DEF Reported
<1>9. Newer(c.applied + 1, d, v, c)
  <2>1. Newer(b.applied + 1, d, u, b)
    BY DEF Reported
  <2>2. b.applied + 1 \in Nat /\ g < b.applied + 1
    <3>1. \A x, y \in Nat : x <= y => y + 1 \in Nat /\ x < y + 1
      OBVIOUS
    <3> QED
      BY <1>1, <1>2, <3>1
  <2> QED
    BY <1>7, <2>1, <2>2
<1>10. AcksRise(d, v)
  <2>1. AcksRise(d, u)
    BY DEF Reported
  <2>2. \A i \in 1 .. Len(u) : u[i].type = "ACK" => u[i].gen < g
    BY <1>2 DEF Newer
  <2>3. d.acked_gen < g
    BY <1>2 DEF Newer
  <2>4. ASSUME NEW i \in 1 .. Len(v), v[i].type = "ACK" PROVE d.acked_gen < v[i].gen
    BY <1>4, <1>6, <2>1, <2>3, <2>4 DEF AcksRise
  <2>5. ASSUME NEW i \in 1 .. Len(v), NEW j \in 1 .. Len(v), v[i].type = "ACK", v[j].type = "ACK", i < j
        PROVE  v[i].gen < v[j].gen
    <3>1. i \in 1 .. Len(u) /\ v[i] = u[i]
      BY <1>5, <2>5
    <3>2. CASE j = Len(u) + 1 /\ v[j] = f
      BY <1>4, <2>2, <2>5, <3>1, <3>2
    <3>3. CASE j \in 1 .. Len(u) /\ v[j] = u[j]
      BY <2>1, <2>5, <3>1, <3>3 DEF AcksRise
    <3> QED
      BY <1>6, <3>2, <3>3
  <2> QED
    BY <2>4, <2>5 DEF AcksRise
<1>11. c.covered = c.reported /\ Len(c.ring) <= RING
  <2>1. Len(b.ring) <= RING /\ RING \in Nat
    BY FeedAssumption DEF Reported
  <2>2. Len(c.ring) <= Len(b.ring)
    BY <1>1
  <2> QED
    BY <1>1, <2>1, <2>2
<1>12. ASSUME NEW i \in 1 .. Len(c.ring)
       PROVE  c.ring[i].gen <= c.applied /\ Newer(c.ring[i].gen, d, v, c)
  <2>1. n + i \in 1 .. Len(b.ring) /\ c.ring[i] = b.ring[n + i] /\ n < n + i
    BY <1>1
  <2>2. b.ring[n].gen < b.ring[n + i].gen
    BY <2>1 DEF Reported
  <2>3. b.ring[n + i].gen <= b.applied /\ Newer(b.ring[n + i].gen, d, u, b) /\ b.ring[n + i].gen \in Nat
    BY <1>1, <2>1 DEF Reported
  <2> QED
    BY <1>7, <2>1, <2>2, <2>3
<1>13. ASSUME NEW i \in 1 .. Len(c.ring), NEW j \in 1 .. Len(c.ring), i < j
       PROVE  c.ring[i].gen < c.ring[j].gen
  <2>1. n + i < n + j
    BY <1>1, <1>13
  <2> QED
    BY <2>1 DEF Reported
<1>14. \A i \in 1 .. Len(c.pending) :
         /\ c.pending[i].gen <= c.applied /\ Newer(c.pending[i].gen, d, v, c)
         /\ \A j \in 1 .. Len(c.ring) : c.ring[j].gen < c.pending[i].gen
  OBVIOUS
<1> QED
  BY <1>8, <1>9, <1>10, <1>11, <1>12, <1>13, <1>14 DEF Reported

LEMMA ReportAppliedKeeps ==
  ASSUME NEW d \in Daemon, NEW r \in Iteration, Kept1(d, <<>>, r), Len(r.b.pending) = 0
  PROVE  LET s == ReportApplied(r)
         IN  /\ s \in Iteration /\ Kept1(d, <<>>, s) /\ (Safe1(d, <<>>, r) => Safe1(d, <<>>, s))
             /\ s.h = r.h /\ s.b.body = r.b.body /\ s.b.pending = r.b.pending
             /\ (Wants(r.b) => r.b.desynced /\ s = r)
<1>1. r.b \in Receiver /\ r.up \in Seq(UpFrame) /\ r.h \in HostEnd
  BY IterationTyped
<1>2. CASE r.b.desynced
  <2>1. ReportApplied(r) = r
    BY <1>2 DEF ReportApplied
  <2> QED
    BY <1>2, <2>1
<1>3. CASE ~r.b.desynced
  <2>1. PICK q : q = [r EXCEPT !.b = Pump(@)]
    OBVIOUS
  <2>2. <<>> \in Seq(DownFrame)
    BY EmptySeq
  <2>3. /\ q \in Iteration /\ Kept1(d, <<>>, q) /\ q.up = r.up /\ q.h = r.h /\ q.b = Pump(r.b)
        /\ Safe1(d, <<>>, r) => Safe1(d, <<>>, q)
    BY <2>1, <2>2, PumpKeeps
  <2>4. PICK b : b = q.b
    OBVIOUS
  <2>5. /\ b \in Receiver /\ b = Pump(r.b) /\ b.pending = r.b.pending /\ b.body = r.b.body /\ b.applied = r.b.applied
        /\ b.requested = r.b.requested /\ b.done = r.b.done
    BY <1>1, <2>3, <2>4, PumpDoes
  <2>6. Good(d, <<>>, r.up, b, r.h)
    BY <2>3, <2>4 DEF Kept1
  <2>7. PICK n \in 0 .. Len(b.ring) : \E ring \in Seq(Entry) : Popped(b, n, ring, PopCompleted(b))
    BY <2>5, PopDoes
  <2>15. PICK ring \in Seq(Entry) : Popped(b, n, ring, PopCompleted(b))
    BY <2>7
  <2>8. /\ Len(ring) = Len(b.ring) - n
        /\ \A i \in 1 .. Len(ring) : n + i \in 1 .. Len(b.ring) /\ ring[i] = b.ring[n + i]
        /\ n = 0 => PopCompleted(b) = b
        /\ n # 0 => PopCompleted(b) = [b EXCEPT !.covered = b.ring[n].gen, !.ring = ring]
    BY <2>15 DEF Popped
  <2>9. PICK p : p = [r EXCEPT !.b = PopCompleted(Pump(@))]
    OBVIOUS
  <2>10. ReportApplied(r) = IF p.b.covered <= p.b.reported THEN p
                            ELSE [Acknowledge(p, p.b.covered) EXCEPT !.b.reported = p.b.covered]
    <3> DEFINE P == [r EXCEPT !.b = PopCompleted(Pump(@))]
    <3>1. ReportApplied(r) = IF r.b.desynced THEN r
                             ELSE IF P.b.covered <= P.b.reported THEN P
                             ELSE [Acknowledge(P, P.b.covered) EXCEPT !.b.reported = P.b.covered]
      BY Zenon DEF ReportApplied
    <3>2. P = p
      BY <2>9
    <3> HIDE DEF P
    <3> QED
      BY <1>3, <3>1, <3>2
  <2>11. Reported(d, <<>>, r.up, b)
    BY <2>6 DEF Good
  <2>12. ~Wants(r.b)
    BY <1>3 DEF Kept1, Good, Wants
  <2>13. CASE n = 0
    <3>1. p = q
      BY <2>1, <2>5, <2>8, <2>9, <2>13 DEF Iteration
    <3>2. b.covered = b.reported /\ b.reported \in Nat
      BY <2>5, <2>11, ReceiverTyped DEF Reported
    <3>3. ReportApplied(r) = q
      BY <2>4, <2>10, <3>1, <3>2
    <3> QED
      BY <2>3, <2>4, <2>5, <2>12, <3>3
  <2>14. CASE n # 0
    <3>1. n \in 1 .. Len(b.ring)
      BY <2>14
    <3>2. PICK g : g = b.ring[n].gen
      OBVIOUS
    <3>3. g \in Nat /\ b.acked \in Nat /\ b.reported \in Nat
      BY <2>5, <3>1, <3>2, ReceiverTyped
    <3>4. PICK e : e = [b EXCEPT !.covered = g, !.ring = ring]
      OBVIOUS
    <3>5. e \in Receiver
      BY <2>5, <3>3, <3>4 DEF Receiver
    <3>6. p.b = e /\ p.up = r.up /\ p.h = r.h /\ p \in Iteration
      BY <2>5, <2>8, <2>9, <2>14, <3>2, <3>4, <3>5 DEF Iteration
    <3>7. e.covered = g /\ e.reported = b.reported /\ e.acked = b.acked
      BY <2>5, <3>4 DEF Receiver
    <3>8. Newer(g, d, r.up, b)
      BY <2>11, <3>1, <3>2 DEF Reported
    <3>9. b.reported < g /\ b.acked < g
      BY <3>8 DEF Newer
    <3>10. PICK v : v = Append(r.up, Ack(g))
      OBVIOUS
    <3>11. PICK c : c = [b EXCEPT !.covered = g, !.ring = ring, !.acked = g, !.reported = g]
      OBVIOUS
    <3>12. PICK s : s = [r EXCEPT !.b = c, !.up = v]
      OBVIOUS
    <3>13. ReportApplied(r) = s
      <4>1. Acknowledge(p, g) = [p EXCEPT !.b.acked = g, !.up = Append(@, Ack(g))]
        BY <3>3, <3>6, <3>7, <3>9 DEF Acknowledge
      <4>2. ReportApplied(r) = [Acknowledge(p, g) EXCEPT !.b.reported = g]
        BY <2>10, <3>3, <3>6, <3>7, <3>9
      <4>3. PICK x : x = Acknowledge(p, g)
        OBVIOUS
      <4>4. PICK a : a = [e EXCEPT !.acked = g]
        OBVIOUS
      <4>5. a \in Receiver
        BY <3>3, <3>5, <4>4 DEF Receiver
      <4>6. x = [p EXCEPT !.b = a, !.up = v]
        BY <3>6, <3>10, <4>1, <4>3, <4>4 DEF Iteration
      <4>7. [a EXCEPT !.reported = g] = c
        BY <2>5, <3>4, <3>11, <4>4 DEF Receiver
      <4>8. [x EXCEPT !.b.reported = g] = [p EXCEPT !.b = c, !.up = v]
        BY <3>6, <4>6, <4>7 DEF Iteration
      <4>9. p = [r EXCEPT !.b = e]
        BY <2>5, <2>8, <2>9, <2>14, <3>2, <3>4
      <4> QED
        BY <3>12, <4>2, <4>3, <4>8, <4>9 DEF Iteration
    <3>14. c \in Receiver
      BY <2>5, <3>3, <3>11 DEF Receiver
    <3>15. /\ c.pending = b.pending /\ c.body = b.body /\ c.ring = ring
           /\ c.applied = b.applied /\ c.acked = g /\ c.reported = g /\ c.covered = g
           /\ c.retry = b.retry /\ c.modes = b.modes /\ c.requested = b.requested /\ c.done = b.done
           /\ c.arrived = b.arrived /\ c.desynced = b.desynced
      BY <2>5, <3>11 DEF Receiver
    <3>16. PICK f : f = Ack(g)
      OBVIOUS
    <3>17. f \in UpFrame /\ f.type = "ACK" /\ f.gen = g
      BY <3>3, <3>16 DEF Ack, UpFrame, AckFrame
    <3>18. v \in Seq(UpFrame) /\ Grown(r.up, v, f)
      BY <1>1, <3>10, <3>16, <3>17, GrownIs
    <3>19. s \in Iteration /\ s.b = c /\ s.up = v /\ s.h = r.h
      BY <3>12, <3>14, <3>18 DEF Iteration
    <3>20. Len(b.pending) = 0
      BY <2>5
    <3>21. Reported(d, <<>>, v, c)
      <4>1. \A i \in 1 .. Len(c.ring) : n + i \in 1 .. Len(b.ring) /\ c.ring[i] = b.ring[n + i]
        BY <2>8, <3>15
      <4>2. Len(c.ring) = Len(b.ring) - n
        BY <2>8, <3>15
      <4> QED
        <5>1. r.up \in Seq(UpFrame) /\ b \in Receiver /\ n \in 1 .. Len(b.ring) /\ Grown(r.up, v, Ack(g))
          BY <1>1, <2>5, <3>1, <3>16, <3>18
        <5>2. c.acked = g /\ c.reported = g /\ c.covered = g /\ c.applied = b.applied /\ c.pending = b.pending
          BY <3>15
        <5> QED
          BY <2>11, <3>2, <3>3, <3>14, <3>18, <3>20, <4>1, <4>2, <5>1, <5>2, AcknowledgedReported
    <3>22. /\ HasNo("VTSINK_PUBLISH", r.up) => HasNo("VTSINK_PUBLISH", v)
           /\ HasOne("VTSINK_PUBLISH", r.up) => HasOne("VTSINK_PUBLISH", v)
           /\ ~NoResync(r.up) => ~NoResync(v)
      BY <3>17, <3>18, GrownHasNo, GrownHasOne DEF NoResync
    <3>23. Token(d, <<>>, v, c)
      BY <2>6, <3>15, <3>22 DEF Good, Token, BridgeOne, BridgeFree
    <3>24. Window(d, <<>>, v, c)
      <4>1. Window(d, <<>>, r.up, b)
        BY <2>6 DEF Good
      <4>2. Grown(r.up, v, f) /\ Len(r.up) + 1 \in 1 .. Len(v) /\ v[Len(r.up) + 1] = f
        BY <3>18 DEF Grown
      <4>3. ASSUME NEW i \in 1 .. Len(r.up), r.up[i].type = "ACK", r.up[i].gen = d.sent_gen
            PROVE  \E j \in 1 .. Len(v) : v[j].type = "ACK" /\ v[j].gen = d.sent_gen
        <5>1. i \in 1 .. Len(v) /\ v[i] = r.up[i]
          BY <4>2 DEF Grown
        <5> QED
          BY <4>3, <5>1
      <4>4. ASSUME NEW i \in 1 .. Len(b.ring), b.ring[i].gen = d.sent_gen, d.sent_gen # 0
            PROVE  \/ \E j \in 1 .. Len(c.ring) : c.ring[j].gen = d.sent_gen
                   \/ \E j \in 1 .. Len(v) : v[j].type = "ACK" /\ v[j].gen = d.sent_gen
        <5>1. Len(b.ring) \in Nat /\ Len(ring) = Len(b.ring) - n
          BY <2>5, <2>8, ReceiverTyped
        <5>2. CASE i = n
          BY <3>2, <3>17, <4>2, <4>4, <5>2
        <5>3. CASE n < i
          <6>1. i - n \in 1 .. Len(ring) /\ n + (i - n) = i
            BY <3>1, <5>1, <5>3
          <6>2. ring[i - n] = b.ring[i]
            BY <2>8, <6>1
          <6> QED
            BY <3>15, <4>4, <6>1, <6>2
        <5>4. CASE i < n
          <6>1. b.ring[i].gen < g
            BY <2>11, <3>1, <3>2, <5>4 DEF Reported
          <6>2. g <= b.applied /\ b.applied <= d.minted /\ d.sent_gen = d.minted
            BY <2>6, <2>11, <3>1, <3>2, <4>4 DEF Reported, Good, Books
          <6>3. b.applied \in Nat /\ d.minted \in Nat
            BY <2>5, DaemonTyped, ReceiverTyped
          <6>4. \A w, x, y, z \in Nat : ~(w < x /\ x <= y /\ y <= z /\ w = z)
            OBVIOUS
          <6>5. d.minted < g
            BY <4>4, <6>1, <6>2
          <6> QED
            BY <3>3, <6>2, <6>3, <6>4, <6>5
        <5> QED
          BY <3>1, <5>1, <5>2, <5>3, <5>4
      <4> QED
        BY <3>15, <3>22, <4>1, <4>3, <4>4 DEF Window
    <3>25. Screen(d, <<>>, v, c, r.h)
      BY <2>6, <3>15, <3>22 DEF Good, Screen, Broken
    <3>26. ModesFollow(d, <<>>, c)
      BY <2>6, <3>15 DEF Good, ModesFollow
    <3>27. Kept1(d, <<>>, s)
      BY <2>6, <3>15, <3>19, <3>21, <3>23, <3>24, <3>25, <3>26 DEF Kept1, Good
    <3>28. Safe1(d, <<>>, s)
      BY <2>5, <2>12, <3>15, <3>19 DEF Safe1, Safe, Wants
    <3> QED
      BY <2>5, <2>12, <3>13, <3>15, <3>19, <3>27, <3>28
  <2> QED
    BY <2>13, <2>14
<1> QED
  BY <1>2, <1>3

-----------------------------------------------------------------------------
(* The end of an iteration.                                                 *)

LEMMA NewGridDoes ==
  ASSUME NEW b \in Receiver
  PROVE  LET c == NewGrid(b)
         IN  /\ c \in Receiver
             /\ c.acked = b.acked /\ c.retry = b.retry /\ c.body = b.body /\ c.modes = b.modes
             /\ c.arrived = b.arrived /\ c.applied = b.applied /\ c.pending = b.pending
             /\ ~c.desynced /\ c.covered = 0 /\ c.reported = 0 /\ c.ring = <<>> /\ c.done
<1>1. PICK c : c = NewGrid(b)
  OBVIOUS
<1>2. <<>> \in Seq(Entry)
  BY EmptySeq
<1>3. c = [b EXCEPT !.desynced = FALSE, !.covered = 0, !.reported = 0, !.ring = <<>>, !.done = TRUE]
  BY <1>1 DEF NewGrid
<1>4. c \in Receiver
  BY <1>2, <1>3 DEF Receiver
<1>5. /\ c.acked = b.acked /\ c.retry = b.retry /\ c.body = b.body /\ c.modes = b.modes
      /\ c.arrived = b.arrived /\ c.applied = b.applied /\ c.pending = b.pending
      /\ ~c.desynced /\ c.covered = 0 /\ c.reported = 0 /\ c.ring = <<>> /\ c.done
  BY <1>3 DEF Receiver
<1> QED
  BY <1>1, <1>4, <1>5

(* What a new grid has to be filled from is still to come. *)
LEMMA FreshFills ==
  ASSUME NEW d \in Daemon, Fresh(d)
  PROVE  /\ d.sent_gen = 0 \/ Holds(d.sent_gen, d.tx)
         /\ d.shadow = NoText \/ \A x \in Int : Path(x, d.tx, d.shadow)
<1>1. Len(d.tx) \in Nat /\ Frames(d.tx)
  BY DaemonTyped
<1>2. PICK j \in 1 .. Len(d.tx) :
        /\ d.tx[j].type = "TRANSACTION"
        /\ d.sent_gen # 0 => \E k \in j + 1 .. Len(d.tx) : IsFeed(d.tx[k]) /\ d.tx[k].gen = d.sent_gen
        /\ d.shadow # NoText => \A x \in Int : PathFrom(j, x, d.tx, d.shadow)
  BY DEF Fresh
<1>3. \A k \in j + 1 .. Len(d.tx) : k \in 1 .. Len(d.tx)
  BY <1>1
<1>4. d.sent_gen = 0 \/ Holds(d.sent_gen, d.tx)
  BY <1>2, <1>3 DEF Holds
<1>5. j \in 0 .. Len(d.tx)
  BY <1>1
<1>6. ASSUME d.shadow # NoText, NEW x \in Int PROVE Path(x, d.tx, d.shadow)
  BY <1>1, <1>2, <1>5, <1>6, PathJoined
<1> QED
  BY <1>4, <1>6

LEMMA PerformResetKeeps ==
  ASSUME NEW d \in Daemon, NEW r \in Iteration, Kept1(d, <<>>, r), Safe1(d, <<>>, r),
         r.b.pending = <<>>, r.b.body = <<>>
  PROVE  LET s == PerformReset(r)
         IN  s \in Iteration /\ Kept1(d, <<>>, s) /\ s.b.pending = <<>> /\ s.b.body = <<>>
<1>1. r.b \in Receiver /\ r.up \in Seq(UpFrame) /\ r.h \in HostEnd
  BY IterationTyped
<1>2. PICK q : q = [r EXCEPT !.b = Pump(@)]
  OBVIOUS
<1>3. <<>> \in Seq(DownFrame) /\ Len(<<>>) = 0
  BY EmptySeq
<1>4. /\ q \in Iteration /\ Kept1(d, <<>>, q) /\ q.up = r.up /\ q.h = r.h /\ q.b = Pump(r.b)
  BY <1>2, <1>3, PumpKeeps
<1>5. PICK b : b = Pump(r.b)
  OBVIOUS
<1>6. b \in Receiver /\ b.pending = <<>> /\ b.body = <<>>
  BY <1>1, <1>5, PumpDoes
<1>7. CASE ~Wants(r.b)
  <2>1. PerformReset(r) = r
    BY <1>7 DEF PerformReset, Wants
  <2> QED
    BY <2>1
<1>8. CASE Wants(r.b) /\ InPipeline(r.h) > 0
  <2>1. PerformReset(r) = q
    BY <1>2, <1>8 DEF PerformReset, Wants
  <2> QED
    BY <1>4, <1>5, <1>6, <2>1
<1>9. CASE Wants(r.b) /\ ~(InPipeline(r.h) > 0)
  <2>1. PICK c, h : c = NewGrid(b) /\ h = [r.h EXCEPT !.text = NoText]
    OBVIOUS
  <2>2. PICK s : s = [r EXCEPT !.b = c, !.h = h]
    OBVIOUS
  <2>3. PerformReset(r) = s
    <3>1. s = [r EXCEPT !.b = NewGrid(Pump(@)), !.h.text = NoText]
      BY <1>1, <1>5, <2>1, <2>2 DEF Iteration
    <3> QED
      BY <1>9, <3>1 DEF PerformReset, Wants
  <2>4. /\ c \in Receiver
        /\ c.acked = b.acked /\ c.retry = b.retry /\ c.body = b.body /\ c.modes = b.modes
        /\ c.arrived = b.arrived /\ c.applied = b.applied /\ c.pending = b.pending
        /\ ~c.desynced /\ c.covered = 0 /\ c.reported = 0 /\ c.ring = <<>> /\ c.done
    BY <1>6, <2>1, NewGridDoes
  <2>5. NoText \in Int
    BY DEF NoText
  <2>6. h \in HostEnd /\ h.text = NoText /\ h.calls = r.h.calls /\ h.replies = r.h.replies
    BY <1>1, <2>1, <2>5 DEF HostEnd
  <2>7. s \in Iteration /\ s.b = c /\ s.up = r.up /\ s.h = h
    BY <2>2, <2>4, <2>6 DEF Iteration
  <2>8. Good(d, <<>>, r.up, b, r.h)
    BY <1>4, <1>5 DEF Kept1
  <2>9. Len(r.h.calls) = 0
    <3>1. Len(r.h.calls) \in Nat /\ Len(r.h.replies) \in Nat
      BY <1>1, HostTyped
    <3>2. \A x, y \in Nat : ~(x + y > 0) => x = 0
      OBVIOUS
    <3> QED
      BY <1>9, <3>1, <3>2 DEF InPipeline
  <2>10. Idle(d) \/ ~NoResync(r.up) \/ Fresh(d)
    <3>1. HasNo("TRANSACTION", <<>>)
      BY <1>3 DEF HasNo
    <3> QED
      BY <1>9, <3>1 DEF Safe1, Safe, Covers, Wants
  <2>11. Token(d, <<>>, r.up, c)
    BY <2>4, <2>8 DEF Good, Token, BridgeOne, BridgeFree
  <2>12. Reported(d, <<>>, r.up, c)
    <3>1. Reported(d, <<>>, r.up, b)
      BY <2>8 DEF Good
    <3>2. Len(c.ring) = 0 /\ Len(c.pending) = 0 /\ RING \in Nat
      BY <1>3, <1>6, <2>4, FeedAssumption
    <3>3. Newer(c.applied + 1, d, r.up, c)
      <4>1. Newer(b.applied + 1, d, r.up, b)
        BY <3>1 DEF Reported
      <4>2. b.applied \in Nat
        BY <1>6, ReceiverTyped
      <4>3. 0 < b.applied + 1
        BY <4>2
      <4> QED
        BY <2>4, <4>1, <4>3 DEF Newer
    <3>4. c.applied <= d.minted /\ Above(c.applied, <<>>) /\ Above(c.applied, d.tx) /\ AcksRise(d, r.up)
      BY <2>4, <3>1 DEF Reported
    <3>5. c.covered = c.reported /\ Len(c.ring) <= RING
      BY <2>4, <3>2
    <3>6. /\ \A i \in 1 .. Len(c.ring) : FALSE
          /\ \A i \in 1 .. Len(c.pending) : FALSE
      BY <3>2
    <3> QED
      BY <3>3, <3>4, <3>5, <3>6 DEF Reported
  <2>13. Window(d, <<>>, r.up, c)
    BY <2>10, FreshFills DEF Window, Idle
  <2>14. Screen(d, <<>>, r.up, c, h)
    <3>1. CASE Idle(d) \/ ~NoResync(r.up)
      BY <3>1 DEF Screen, Idle, Broken
    <3>2. CASE d.shadow # NoText /\ Fresh(d)
      <4>1. Path(NoText, d.tx, d.shadow)
        BY <2>5, <3>2, FreshFills
      <4>2. CallPath(h.text, h.calls, NoText)
        BY <2>5, <2>6, <2>9, CallEmpty
      <4>3. Path(NoText, c.pending, NoText) /\ Path(NoText, <<>>, NoText)
        BY <1>3, <1>6, <2>4, <2>5, PathEmpty
      <4> QED
        BY <2>5, <4>1, <4>2, <4>3 DEF Screen
    <3> QED
      BY <2>10, <3>1, <3>2 DEF Screen
  <2>15. ModesFollow(d, <<>>, c)
    BY <2>4, <2>8 DEF Good, ModesFollow
  <2>16. Kept1(d, <<>>, s)
    BY <2>4, <2>7, <2>8, <2>11, <2>12, <2>13, <2>14, <2>15 DEF Kept1, Good
  <2> QED
    BY <1>6, <2>3, <2>4, <2>7, <2>16
<1> QED
  BY <1>7, <1>8, <1>9

LEMMA SettleKeeps ==
  ASSUME NEW d \in Daemon, NEW r \in Iteration, Kept1(d, <<>>, r), Safe1(d, <<>>, r),
         r.b.pending = <<>>, r.b.body = <<>>
  PROVE  LET s == Settle(r)
         IN  s \in Iteration /\ Kept1(d, <<>>, s) /\ s.b.pending = <<>> /\ s.b.body = <<>>
<1>1. Len(r.b.pending) = 0
  BY EmptySeq
<1>2. PICK t : t = ReportApplied(r)
  OBVIOUS
<1>3. t \in Iteration /\ Kept1(d, <<>>, t) /\ Safe1(d, <<>>, t) /\ t.b.body = <<>> /\ t.b.pending = <<>>
  BY <1>1, <1>2, ReportAppliedKeeps
<1>4. Settle(r) = PerformReset(t)
  BY <1>2 DEF Settle
<1> QED
  BY <1>3, <1>4, PerformResetKeeps

(* Where the loop stands is no concern of the invariant's. *)
LEMMA PhaseKeeps ==
  ASSUME NEW d, NEW dn, NEW u, NEW b \in Receiver, NEW h, NEW phase \in {"poll", "step"}
  PROVE  LET c == [b EXCEPT !.phase = phase]
         IN  /\ c \in Receiver /\ c.phase = phase /\ c.pending = b.pending /\ c.body = b.body
             /\ Good(d, dn, u, b, h) => Good(d, dn, u, c, h)
             /\ Ready(d, dn, u, b, h) => Ready(d, dn, u, c, h)
<1>1. PICK c : c = [b EXCEPT !.phase = phase]
  OBVIOUS
<1>2. c \in Receiver
  BY <1>1 DEF Receiver
<1>3. /\ c.acked = b.acked /\ c.retry = b.retry /\ c.body = b.body /\ c.modes = b.modes
      /\ c.arrived = b.arrived /\ c.applied = b.applied /\ c.pending = b.pending
      /\ c.desynced = b.desynced /\ c.covered = b.covered /\ c.reported = b.reported
      /\ c.ring = b.ring /\ c.done = b.done /\ c.requested = b.requested /\ c.phase = phase
  BY <1>1 DEF Receiver
<1>4. Token(d, dn, u, b) => Token(d, dn, u, c)
  BY <1>3 DEF Token, BridgeOne, BridgeFree
<1>5. Reported(d, dn, u, b) => Reported(d, dn, u, c)
  BY <1>3 DEF Reported, Newer
<1>6. Window(d, dn, u, b) => Window(d, dn, u, c)
  BY <1>3 DEF Window
<1>7. Screen(d, dn, u, b, h) => Screen(d, dn, u, c, h)
  BY <1>3 DEF Screen, Broken
<1>8. ModesFollow(d, dn, b) => ModesFollow(d, dn, c)
  BY <1>3 DEF ModesFollow
<1>9. Good(d, dn, u, b, h) => Good(d, dn, u, c, h)
  BY <1>3, <1>4, <1>5, <1>6, <1>7, <1>8 DEF Good
<1>10. Ready(d, dn, u, b, h) => Ready(d, dn, u, c, h)
  BY <1>3 DEF Ready, Covers
<1> QED
  BY <1>1, <1>2, <1>3, <1>9, <1>10

LEMMA EndIterationDoes ==
  ASSUME NEW x, NEW phase, EndIteration(x, phase)
  PROVE  up' = x.up /\ bridge' = [x.b EXCEPT !.phase = phase] /\ host' = x.h
BY DEF EndIteration

LEMMA WakeKeeps ==
  ASSUME TypeInv, Feeds, Wake
  PROVE  TypeInv' /\ Feeds' /\ UNCHANGED <<pane, daemon, down, faults>>
<1>1. /\ pane \in Pane /\ daemon \in Daemon /\ down \in Seq(DownFrame) /\ up \in Seq(UpFrame)
      /\ bridge \in Receiver /\ host \in HostEnd /\ faults \in Nat
  BY DEF TypeInv
<1>2. Good(daemon, down, up, bridge, host) /\ bridge.pending = <<>> /\ bridge.body = <<>>
  BY DEF Feeds
<1>3. PICK o : o = [b |-> bridge, up |-> up, h |-> host]
  OBVIOUS
<1>4. o \in Iteration /\ o.b = bridge /\ o.up = up /\ o.h = host
  BY <1>1, <1>3 DEF Iteration
<1>5. Kept1(daemon, down, o)
  BY <1>2, <1>4 DEF Kept1
<1>6. PICK q : q = RequestResync(o)
  OBVIOUS
<1>7. /\ q \in Iteration /\ Kept1(daemon, down, q) /\ (Wants(q.b) => ~NoResync(q.up))
      /\ q.h = o.h /\ q.b.body = o.b.body
      /\ q.b.pending = o.b.pending \/ Len(q.b.pending) = 0
  BY <1>1, <1>4, <1>5, <1>6, RequestResyncKeeps
<1>8. PICK r : r = ReadPaneWire(q)
  OBVIOUS
<1>9. /\ r \in Iteration /\ Kept1(daemon, down, r) /\ r.up = q.up
      /\ r.b.body = q.b.body /\ r.b.pending = q.b.pending /\ (Wants(r.b) <=> Wants(q.b))
  BY <1>1, <1>7, <1>8, ReadPaneWireKeeps
<1>10. r.b.body = <<>> /\ r.b.pending = <<>>
  <2>1. q.b \in Receiver
    BY <1>7, IterationTyped
  <2>2. q.b.pending \in Seq(FeedFrame)
    BY <2>1, ReceiverTyped
  <2>3. Len(q.b.pending) = 0 => q.b.pending = <<>>
    BY <2>2, EmptySeq
  <2> QED
    BY <1>2, <1>4, <1>7, <1>9, <2>3
<1>11. Wants(r.b) => ~NoResync(r.up)
  BY <1>7, <1>9
<1>12. Wake => /\ UNCHANGED <<pane, daemon, down, faults>>
               /\ (down # <<>> /\ EndIteration(r, "step")) \/ (down = <<>> /\ EndIteration(Settle(r), "poll"))
  BY <1>3, <1>6, <1>8, Zenon DEF Wake
<1>13. UNCHANGED <<pane, daemon, down, faults>>
  BY <1>12
<1>14. pane' = pane /\ daemon' = daemon /\ down' = down /\ faults' = faults
  BY <1>13
<1>15. CASE EndIteration(r, "step")
  <2>1. up' = r.up /\ bridge' = [r.b EXCEPT !.phase = "step"] /\ host' = r.h
    BY <1>15, EndIterationDoes
  <2>2. r.b \in Receiver /\ r.up \in Seq(UpFrame) /\ r.h \in HostEnd
    BY <1>9, IterationTyped
  <2>3. Good(daemon, down, r.up, r.b, r.h)
    BY <1>9 DEF Kept1
  <2>4. Ready(daemon, down, r.up, r.b, r.h)
    BY <1>11 DEF Ready, Covers, Wants
  <2>5. PICK c : c = [r.b EXCEPT !.phase = "step"]
    OBVIOUS
  <2>6. "step" \in {"poll", "step"}
    OBVIOUS
  <2>7. /\ c \in Receiver /\ c.phase = "step" /\ c.pending = <<>> /\ c.body = <<>>
        /\ Good(daemon, down, r.up, c, r.h) /\ Ready(daemon, down, r.up, c, r.h)
    BY <1>10, <2>2, <2>3, <2>4, <2>5, <2>6, PhaseKeeps
  <2>8. up' = r.up /\ bridge' = c /\ host' = r.h
    BY <2>1, <2>5
  <2>9. TypeInv'
    BY <1>1, <1>14, <2>2, <2>7, <2>8 DEF TypeInv
  <2>10. Feeds'
    BY <1>14, <2>7, <2>8 DEF Feeds
  <2> QED
    BY <1>13, <2>9, <2>10
<1>16. CASE down = <<>> /\ EndIteration(Settle(r), "poll")
  <2>1. PICK s : s = Settle(r)
    OBVIOUS
  <2>2. up' = s.up /\ bridge' = [s.b EXCEPT !.phase = "poll"] /\ host' = s.h
    BY <1>16, <2>1, EndIterationDoes
  <2>3. Kept1(daemon, <<>>, r)
    BY <1>9, <1>16
  <2>4. Safe1(daemon, <<>>, r)
    BY <1>11 DEF Safe1, Safe, Covers, Wants
  <2>5. s \in Iteration /\ Kept1(daemon, <<>>, s) /\ s.b.pending = <<>> /\ s.b.body = <<>>
    BY <1>1, <1>9, <1>10, <2>1, <2>3, <2>4, SettleKeeps
  <2>6. s.b \in Receiver /\ s.up \in Seq(UpFrame) /\ s.h \in HostEnd
    BY <2>5, IterationTyped
  <2>7. Good(daemon, down, s.up, s.b, s.h)
    BY <1>16, <2>5 DEF Kept1
  <2>8. PICK c : c = [s.b EXCEPT !.phase = "poll"]
    OBVIOUS
  <2>9. "poll" \in {"poll", "step"}
    OBVIOUS
  <2>10. /\ c \in Receiver /\ c.phase = "poll" /\ c.pending = <<>> /\ c.body = <<>>
         /\ Good(daemon, down, s.up, c, s.h)
    BY <2>5, <2>6, <2>7, <2>8, <2>9, PhaseKeeps
  <2>11. up' = s.up /\ bridge' = c /\ host' = s.h
    BY <2>2, <2>8
  <2>12. TypeInv'
    BY <1>1, <1>14, <2>6, <2>10, <2>11 DEF TypeInv
  <2>13. Feeds'
    <3>1. c.phase # "step"
      BY <2>10
    <3> QED
      BY <1>14, <2>10, <2>11, <3>1 DEF Feeds
  <2> QED
    BY <1>13, <2>12, <2>13
<1> QED
  BY <1>12, <1>15, <1>16

LEMMA ClientStepKeeps ==
  ASSUME TypeInv, Feeds, ClientStep
  PROVE  TypeInv' /\ Feeds' /\ UNCHANGED <<pane, daemon>>
<1>1. /\ pane \in Pane /\ daemon \in Daemon /\ down \in Seq(DownFrame) /\ up \in Seq(UpFrame)
      /\ bridge \in Receiver /\ host \in HostEnd /\ faults \in Nat
  BY DEF TypeInv
<1>2. Good(daemon, down, up, bridge, host)
  BY DEF Feeds
<1>3. Ready(daemon, down, up, bridge, host)
  BY DEF Feeds, ClientStep
<1>4. PICK o : o = [b |-> bridge, up |-> up, h |-> host]
  OBVIOUS
<1>5. o \in Iteration /\ o.b = bridge /\ o.up = up /\ o.h = host
  BY <1>1, <1>4 DEF Iteration
<1>6. Kept1(daemon, down, o) /\ Ready(daemon, down, o.up, o.b, o.h)
  BY <1>2, <1>3, <1>5 DEF Kept1
<1>7. PICK r : r = RetryReset(o)
  OBVIOUS
<1>8. r \in Iteration /\ Kept1(daemon, down, r) /\ Safe1(daemon, down, r)
  BY <1>1, <1>5, <1>6, <1>7, RetryResetKeeps
<1>9. /\ pane' = pane /\ daemon' = daemon /\ down' = <<>>
      /\ \E lost : /\ \E taken \in {TakeFrames(r, down, lost)} :
                        EndIteration(Settle(FlushContent(taken)), "poll")
                   /\ faults' = IF lost = 0 THEN faults ELSE faults + 1
  BY <1>4, <1>7, Zenon DEF ClientStep
<1>10. PICK lost : /\ \E taken \in {TakeFrames(r, down, lost)} :
                         EndIteration(Settle(FlushContent(taken)), "poll")
                   /\ faults' = IF lost = 0 THEN faults ELSE faults + 1
  BY <1>9
<1>11. faults' \in Nat
  BY <1>1, <1>10
<1>12. PICK t : t = TakeFrames(r, down, lost)
  OBVIOUS
<1>13. EndIteration(Settle(FlushContent(t)), "poll")
  BY <1>10, <1>12
<1>14. t \in Iteration /\ Kept1(daemon, <<>>, t) /\ Safe1(daemon, <<>>, t)
  BY <1>1, <1>8, <1>12, TakeFramesKeeps
<1>15. PICK f : f = FlushContent(t)
  OBVIOUS
<1>16. /\ f \in Iteration /\ Kept1(daemon, <<>>, f) /\ Safe1(daemon, <<>>, f)
       /\ f.b.pending = <<>> /\ f.b.body = <<>>
  BY <1>1, <1>14, <1>15, FlushContentKeeps
<1>17. PICK s : s = Settle(f)
  OBVIOUS
<1>18. s \in Iteration /\ Kept1(daemon, <<>>, s) /\ s.b.pending = <<>> /\ s.b.body = <<>>
  BY <1>1, <1>16, <1>17, SettleKeeps
<1>19. up' = s.up /\ bridge' = [s.b EXCEPT !.phase = "poll"] /\ host' = s.h
  BY <1>13, <1>15, <1>17, EndIterationDoes
<1>20. s.b \in Receiver /\ s.up \in Seq(UpFrame) /\ s.h \in HostEnd
  BY <1>18, IterationTyped
<1>21. Good(daemon, <<>>, s.up, s.b, s.h)
  BY <1>18 DEF Kept1
<1>22. PICK c : c = [s.b EXCEPT !.phase = "poll"]
  OBVIOUS
<1>23. "poll" \in {"poll", "step"} /\ "poll" # "step" /\ <<>> \in Seq(DownFrame)
  BY EmptySeq
<1>24. /\ c \in Receiver /\ c.phase = "poll" /\ c.pending = <<>> /\ c.body = <<>>
       /\ Good(daemon, <<>>, s.up, c, s.h)
  BY <1>18, <1>20, <1>21, <1>22, <1>23, PhaseKeeps
<1>25. up' = s.up /\ bridge' = c /\ host' = s.h
  BY <1>19, <1>22
<1>26. TypeInv'
  BY <1>1, <1>9, <1>11, <1>20, <1>23, <1>24, <1>25 DEF TypeInv
<1>27. Feeds'
  BY <1>9, <1>23, <1>24, <1>25 DEF Feeds
<1> QED
  BY <1>9, <1>26, <1>27

(* The terminal. *)
LEMMA AnsweredDoes ==
  ASSUME NEW h \in HostEnd, NEW ok \in BOOLEAN, h.calls # <<>>
  PROVE  LET g == Answered(h, ok)
         IN  /\ g \in HostEnd /\ g.text = h.text
             /\ Tailed(h.calls, g.calls) /\ Grown(h.replies, g.replies, ok)
<1>1. PICK c, p : c = Tail(h.calls) /\ p = Append(h.replies, ok)
  OBVIOUS
<1>2. PICK g : g = [h EXCEPT !.calls = c, !.replies = p]
  OBVIOUS
<1>3. Answered(h, ok) = g
  BY <1>1, <1>2 DEF Answered, HostEnd
<1>4. h.calls \in Seq(Call) /\ h.replies \in Seq(BOOLEAN)
  BY HostTyped
<1>5. c \in Seq(Call) /\ Tailed(h.calls, c)
  BY <1>1, <1>4, TailedIs
<1>6. p \in Seq(BOOLEAN) /\ Grown(h.replies, p, ok)
  BY <1>1, <1>4, GrownIs
<1>7. g \in HostEnd /\ g.text = h.text /\ g.calls = c /\ g.replies = p
  BY <1>2, <1>5, <1>6 DEF HostEnd
<1> QED
  BY <1>3, <1>5, <1>6, <1>7

LEMMA ShownTyped ==
  ASSUME NEW s \in Seq(FeedFrame), NEW x \in Int
  PROVE  Shown(x, s) \in Int /\ Path(x, s, Shown(x, s))
<1>1. Len(s) \in Nat /\ Frames(s) /\ 0 \in 0 .. Len(s)
  BY FeedFrames
<1>2. PICK y \in Int : Path(x, s, y)
  BY <1>1, PathTotal DEF Path
<1>3. Shown(x, s) = y
  BY <1>2, ShownIs
<1> QED
  BY <1>2, <1>3

LEMMA AppliedDoes ==
  ASSUME host \in HostEnd, NEW call \in Call
  PROVE  /\ Applied(call) \in HostEnd
         /\ Applied(call).text = Shown(host.text, call.feeds)
         /\ Applied(call).calls = host.calls /\ Applied(call).replies = host.replies
<1>1. PICK h : h = host
  OBVIOUS
<1>2. h \in HostEnd /\ h.text \in Int /\ call.feeds \in Seq(FeedFrame) /\ call.rich \in Seq(RichFrame)
  BY <1>1, HostTyped DEF Call
<1>3. PICK x : x = Shown(h.text, call.feeds)
  OBVIOUS
<1>4. x \in Int
  BY <1>2, <1>3, ShownTyped
<1>5. PICK m : m = [h EXCEPT !.text = x]
  OBVIOUS
<1>6. m \in HostEnd /\ m.text = x /\ m.calls = h.calls /\ m.replies = h.replies
  BY <1>2, <1>4, <1>5 DEF HostEnd
<1>7. m = [host EXCEPT !.text = Shown(@, call.feeds)]
  BY <1>1, <1>2, <1>3, <1>5 DEF HostEnd
<1>8. CASE call.rich = <<>>
  <2>1. Applied(call) = m
    BY <1>7, <1>8 DEF Applied
  <2> QED
    BY <1>1, <1>3, <1>6, <2>1
<1>9. CASE call.rich # <<>>
  <2>1. PICK body : body = Head(call.rich)
    OBVIOUS
  <2>2. body \in RichFrame
    BY <1>2, <1>9, <2>1, HeadTailProperties
  <2>3. body.top \in Nat /\ body.figure \in Nat
    BY <2>2 DEF RichFrame
  <2>4. PICK t, f : t = body.top /\ f = IF body.full THEN body.figure ELSE m.figure
    OBVIOUS
  <2>5. t \in Nat /\ f \in Nat
    BY <1>6, <2>3, <2>4, HostTyped
  <2>6. PICK a : a = [m EXCEPT !.top = t, !.figure = f]
    OBVIOUS
  <2>7. Applied(call) = a
    <3>1. Applied(call) = [m EXCEPT !.top = body.top, !.figure = IF body.full THEN body.figure ELSE @]
      BY <1>7, <1>9, <2>1 DEF Applied
    <3> QED
      BY <1>6, <2>4, <2>6, <3>1 DEF HostEnd
  <2>8. a \in HostEnd /\ a.text = x /\ a.calls = h.calls /\ a.replies = h.replies
    BY <1>6, <2>5, <2>6 DEF HostEnd
  <2> QED
    BY <1>1, <1>3, <2>7, <2>8
<1> QED
  BY <1>8, <1>9

LEMMA HostServeKeeps ==
  ASSUME TypeInv, Feeds, HostServe
  PROVE  TypeInv' /\ Feeds' /\ UNCHANGED <<pane, daemon, down, up, bridge>>
<1>1. /\ pane \in Pane /\ daemon \in Daemon /\ down \in Seq(DownFrame) /\ up \in Seq(UpFrame)
      /\ bridge \in Receiver /\ host \in HostEnd /\ faults \in Nat
  BY DEF TypeInv
<1>2. PICK call : call = Head(host.calls)
  OBVIOUS
<1>3. host.calls # <<>> /\ pane' = pane /\ daemon' = daemon /\ down' = down /\ up' = up /\ bridge' = bridge
  BY Zenon DEF HostServe
<1>4. host.calls \in Seq(Call) /\ host.text \in Int /\ Len(host.calls) \in Nat /\ Len(host.replies) \in Nat
  BY <1>1, HostTyped
<1>5. call \in Call /\ call = host.calls[1]
  BY <1>2, <1>3, <1>4, TailedIs
<1>6. /\ (host' = Answered(Applied(call), TRUE)) \/ (host' = Answered(host, FALSE))
      /\ faults' = faults \/ faults' = faults + 1
  BY <1>2, Zenon DEF HostServe
<1>7. /\ Applied(call) \in HostEnd /\ Applied(call).text = Shown(host.text, call.feeds)
      /\ Applied(call).calls = host.calls /\ Applied(call).replies = host.replies
  BY <1>1, <1>5, AppliedDoes
<1>8. \/ /\ host' \in HostEnd /\ host'.text = Shown(host.text, call.feeds)
         /\ Tailed(host.calls, host'.calls) /\ Grown(host.replies, host'.replies, TRUE)
      \/ /\ host' \in HostEnd /\ host'.text = host.text
         /\ Tailed(host.calls, host'.calls) /\ Grown(host.replies, host'.replies, FALSE)
  <2>1. CASE host' = Answered(Applied(call), TRUE)
    BY <1>3, <1>7, <2>1, AnsweredDoes
  <2>2. CASE host' = Answered(host, FALSE)
    BY <1>1, <1>3, <2>2, AnsweredDoes
  <2> QED
    BY <1>6, <2>1, <2>2
<1>9. InPipeline(host') = InPipeline(host)
  <2>1. Len(host'.calls) \in Nat /\ Len(host.calls) = Len(host'.calls) + 1 /\ Len(host'.replies) = Len(host.replies) + 1
    BY <1>8 DEF Tailed, Grown
  <2>2. \A x, y, z \in Nat : x + (z + 1) = (x + 1) + z
    OBVIOUS
  <2>3. Len(host'.calls) + (Len(host.replies) + 1) = (Len(host'.calls) + 1) + Len(host.replies)
    BY <1>4, <2>1, <2>2
  <2>4. Len(host'.calls) + Len(host'.replies) = Len(host.calls) + Len(host.replies)
    BY <2>1, <2>3
  <2> QED
    BY <2>4 DEF InPipeline
<1>10. TypeInv'
  <2>1. host' \in HostEnd
    BY <1>8
  <2>2. faults' \in Nat
    BY <1>1, <1>6
  <2> QED
    BY <1>1, <1>3, <2>1, <2>2 DEF TypeInv
<1>11. Good(daemon, down, up, bridge, host)
  BY DEF Feeds
<1>12. Screen(daemon, down, up, bridge, host')
  <2>1. Screen(daemon, down, up, bridge, host)
    BY <1>11 DEF Good
  <2>2. PICK ok \in BOOLEAN : Grown(host.replies, host'.replies, ok)
                              /\ (ok => host'.text = Shown(host.text, call.feeds))
    BY <1>8
  <2>3. Tailed(host.calls, host'.calls)
    BY <1>8
  <2>4. CASE ~ok
    <3>1. Len(host.replies) + 1 \in 1 .. Len(host'.replies) /\ ~(host'.replies[Len(host.replies) + 1])
      BY <2>2, <2>4 DEF Grown
    <3>2. Failed(host'.replies)
      BY <3>1 DEF Failed
    <3> QED
      BY <3>2 DEF Screen, Broken
  <2>5. CASE ok
    <3>1. Failed(host.replies) => Failed(host'.replies)
      <4>1. \A i \in 1 .. Len(host.replies) : i \in 1 .. Len(host'.replies) /\ host'.replies[i] = host.replies[i]
        BY <2>2 DEF Grown
      <4> QED
        BY <4>1 DEF Failed
    <3>2. CASE daemon.shadow = NoText \/ Broken(up, bridge, host)
      BY <3>1, <3>2 DEF Screen, Broken
    <3>3. CASE ~(daemon.shadow = NoText \/ Broken(up, bridge, host))
      <4>1. PICK y1, y2, y3 \in Int :
              /\ CallPath(host.text, host.calls, y1) /\ Path(y1, bridge.pending, y2)
              /\ Path(y2, down, y3) /\ Path(y3, daemon.tx, daemon.shadow)
        BY <2>1, <3>3 DEF Screen
      <4>2. PICK z \in Int : Path(host.text, host.calls[1].feeds, z) /\ CallPath(z, host'.calls, y1)
        BY <2>3, <4>1, CallTailed
      <4>3. call.feeds \in Seq(FeedFrame)
        BY <1>5 DEF Call
      <4>4. Shown(host.text, call.feeds) = z
        BY <1>4, <1>5, <4>2, <4>3, ShownIs
      <4>5. host'.text = z
        BY <2>2, <2>5, <4>4
      <4> QED
        BY <4>1, <4>2, <4>5 DEF Screen
    <3> QED
      BY <3>2, <3>3
  <2> QED
    BY <2>4, <2>5
<1>13. Good(daemon, down, up, bridge, host')
  BY <1>11, <1>12 DEF Good
<1>14. Ready(daemon, down, up, bridge, host) => Ready(daemon, down, up, bridge, host')
  BY <1>9 DEF Ready, Covers
<1>15. Feeds'
  BY <1>3, <1>13, <1>14 DEF Feeds
<1> QED
  BY <1>3, <1>10, <1>15

-----------------------------------------------------------------------------
(* The invariant is inductive.                                              *)

LEMMA Starts ==
  ASSUME Init
  PROVE  TypeInv /\ Feeds
<1>1. PICK p : p = Plain("VTSINK_PUBLISH")
  OBVIOUS
<1>2. p \in UpFrame /\ p.type = "VTSINK_PUBLISH"
  BY <1>1 DEF Plain, UpFrame, AskFrame
<1>3. /\ up = <<p>> /\ down = <<>> /\ faults = 0
      /\ pane = [text |-> 0, top |-> 0, figure |-> 0, modes |-> 0]
  BY <1>1 DEF Init
<1>4. daemon = [open |-> TRUE, want_close |-> FALSE, tx |-> <<>>, sent |-> 0,
                session |-> FALSE, minted |-> 0, sent_gen |-> 0, acked_gen |-> 0,
                strikes |-> 0, drained |-> FALSE, modes |-> <<>>,
                shadow |-> NoText, rich |-> <<>>]
  BY DEF Init
<1>5. bridge = [phase |-> "poll", pending |-> <<>>, body |-> <<>>, applied |-> 0,
                acked |-> 0, retry |-> FALSE, desynced |-> FALSE, requested |-> FALSE,
                done |-> FALSE, ring |-> <<>>, covered |-> 0, reported |-> 0,
                arrived |-> <<>>, modes |-> 0]
  BY DEF Init
<1>6. host = [calls |-> <<>>, replies |-> <<>>, text |-> NoText, figure |-> 0, top |-> 0]
  BY DEF Init
<1>7. NoText \in Int
  BY DEF NoText
<1>8. pane \in Pane
  BY <1>3 DEF Pane
<1>9. daemon \in Daemon
  <2>1. /\ <<>> \in Seq(DownFrame) /\ <<>> \in Seq(Nat) /\ <<>> \in Seq([figure : Nat, top : Nat])
    BY EmptySeq
  <2> QED
    BY <1>4, <1>7, <2>1 DEF Daemon
<1>10. bridge \in Receiver
  <2>1. /\ <<>> \in Seq(FeedFrame) /\ <<>> \in Seq(RichFrame) /\ <<>> \in Seq(Entry) /\ <<>> \in Seq(BOOLEAN)
    BY EmptySeq
  <2> QED
    BY <1>5, <2>1 DEF Receiver
<1>11. host \in HostEnd
  <2>1. <<>> \in Seq(Call) /\ <<>> \in Seq(BOOLEAN)
    BY EmptySeq
  <2> QED
    BY <1>6, <1>7, <2>1 DEF HostEnd
<1>12. up \in Seq(UpFrame) /\ Len(up) = 1 /\ up[1] = p
  BY <1>2, <1>3
<1>13. down \in Seq(DownFrame) /\ Len(down) = 0 /\ Len(<<>>) = 0
  BY <1>3, EmptySeq
<1>14. TypeInv
  BY <1>3, <1>8, <1>9, <1>10, <1>11, <1>12, <1>13 DEF TypeInv
<1>15. \A i \in 1 .. 0 : FALSE
  OBVIOUS
<1>16. \A i \in 1 .. Len(up) : i = 1
  BY <1>12
<1>17. /\ daemon.tx = <<>> /\ Len(daemon.tx) = 0 /\ ~daemon.session /\ daemon.minted = 0 /\ daemon.sent = 0
       /\ daemon.sent_gen = 0 /\ daemon.acked_gen = 0 /\ daemon.modes = <<>> /\ daemon.shadow = NoText
  BY <1>4, <1>13
<1>18. /\ Len(bridge.pending) = 0 /\ bridge.pending = <<>> /\ bridge.body = <<>> /\ Len(bridge.ring) = 0
       /\ bridge.applied = 0 /\ bridge.acked = 0 /\ bridge.reported = 0 /\ bridge.covered = 0
       /\ ~bridge.retry /\ ~bridge.requested /\ bridge.phase = "poll"
  BY <1>5, <1>13
<1>19. Token(daemon, down, up, bridge)
  <2>1. HasNo("VTSINK_RESET", daemon.tx) /\ HasNo("VTSINK_RESET", down)
    BY <1>13, <1>15, <1>17 DEF HasNo
  <2>2. HasOne("VTSINK_RESET", daemon.tx) /\ HasOne("VTSINK_RESET", down)
    BY <1>13, <1>15, <1>17 DEF HasOne
  <2>3. HasOne("VTSINK_PUBLISH", up)
    BY <1>16 DEF HasOne
  <2> QED
    BY <1>17, <1>18, <2>1, <2>2, <2>3 DEF Token, DaemonOne, BridgeOne, DaemonFree
<1>20. Numbered(daemon, down)
  BY <1>13, <1>15, <1>17 DEF Numbered, Rising, Upto
<1>21. Reported(daemon, down, up, bridge)
  <2>1. \A i \in 1 .. Len(up) : up[i].type # "ACK"
    BY <1>2, <1>12, <1>16
  <2>2. Above(bridge.applied, down) /\ Above(bridge.applied, daemon.tx)
    BY <1>13, <1>15, <1>17 DEF Above
  <2>3. AcksRise(daemon, up)
    BY <2>1 DEF AcksRise
  <2>4. bridge.applied + 1 = 1 /\ bridge.applied <= daemon.minted
    BY <1>17, <1>18
  <2>5. Newer(bridge.applied + 1, daemon, up, bridge)
    BY <1>17, <1>18, <2>1, <2>4 DEF Newer
  <2>6. Len(bridge.ring) <= RING
    BY <1>18, FeedAssumption
  <2>7. /\ \A i \in 1 .. Len(bridge.ring) : FALSE
        /\ \A i \in 1 .. Len(bridge.pending) : FALSE
    BY <1>15, <1>18
  <2> QED
    BY <1>18, <2>2, <2>3, <2>4, <2>5, <2>6, <2>7 DEF Reported
<1>22. Books(daemon)
  BY <1>17 DEF Books
<1>23. Window(daemon, down, up, bridge) /\ Screen(daemon, down, up, bridge, host)
  BY <1>17 DEF Window, Screen
<1>24. ModesFollow(daemon, down, bridge)
  <2>1. \A m : <<>> # <<m>>
    OBVIOUS
  <2> QED
    BY <1>17, <2>1 DEF ModesFollow
<1>25. Good(daemon, down, up, bridge, host)
  BY <1>18, <1>19, <1>20, <1>21, <1>22, <1>23, <1>24 DEF Good
<1>26. Feeds
  BY <1>18, <1>25 DEF Feeds
<1> QED
  BY <1>14, <1>26

(* What a step does to the frame the socket is in the middle of. *)
Unbroken ==
  daemon.sent > 0 => \/ Led(daemon, daemon') \/ daemon'.tx = daemon.tx
                     \/ down' = Append(down, Head(daemon.tx))

LEMMA Steady ==
  ASSUME TypeInv, Feeds, [Next]_vars
  PROVE  TypeInv' /\ Feeds' /\ Unbroken
<1>1. /\ pane \in Pane /\ daemon \in Daemon /\ down \in Seq(DownFrame) /\ up \in Seq(UpFrame)
      /\ bridge \in Receiver /\ host \in HostEnd /\ faults \in Nat
  BY DEF TypeInv
<1>2. /\ Good(daemon, down, up, bridge, host)
      /\ bridge.phase = "step" => Ready(daemon, down, up, bridge, host)
      /\ bridge.pending = <<>> /\ bridge.body = <<>>
  BY DEF Feeds
<1>3. CASE Application
  <2>1. /\ pane' \in Pane /\ daemon' = daemon /\ down' = down /\ up' = up /\ bridge' = bridge
        /\ host' = host /\ faults' = faults
    BY <1>3, ApplicationKeeps
  <2>2. TypeInv' /\ Feeds'
    BY <1>1, <1>2, <2>1 DEF TypeInv, Feeds
  <2> QED
    BY <2>1, <2>2 DEF Unbroken
<1>4. CASE DaemonReceive
  <2>1. /\ daemon' \in Daemon /\ up' \in Seq(UpFrame) /\ Led(daemon, daemon')
        /\ pane' = pane /\ down' = down /\ bridge' = bridge /\ host' = host /\ faults' = faults
        /\ Good(daemon', down, up', bridge, host)
        /\ Ready(daemon, down, up, bridge, host) => Ready(daemon', down, up', bridge, host)
    BY <1>2, <1>4, DaemonReceiveKeeps
  <2>2. TypeInv'
    BY <1>1, <2>1 DEF TypeInv
  <2>3. Feeds'
    BY <1>2, <2>1 DEF Feeds
  <2> QED
    BY <2>1, <2>2, <2>3 DEF Unbroken
<1>5. CASE DaemonClose
  <2>1. /\ daemon' \in Daemon /\ Led(daemon, daemon')
        /\ pane' = pane /\ down' = down /\ up' = up /\ bridge' = bridge /\ host' = host /\ faults' = faults
        /\ Good(daemon', down, up, bridge, host)
        /\ Ready(daemon, down, up, bridge, host) => Ready(daemon', down, up, bridge, host)
    BY <1>2, <1>5, DaemonCloseKeeps
  <2>2. TypeInv'
    BY <1>1, <2>1 DEF TypeInv
  <2>3. Feeds'
    BY <1>2, <2>1 DEF Feeds
  <2> QED
    BY <2>1, <2>2, <2>3 DEF Unbroken
<1>6. CASE Project
  <2>1. /\ daemon' \in Daemon /\ faults' \in Nat /\ Led(daemon, daemon')
        /\ pane' = pane /\ down' = down /\ up' = up /\ bridge' = bridge /\ host' = host
        /\ Good(daemon', down, up, bridge, host)
        /\ Ready(daemon, down, up, bridge, host) => Ready(daemon', down, up, bridge, host)
    BY <1>2, <1>6, ProjectKeeps
  <2>2. TypeInv'
    BY <1>1, <2>1 DEF TypeInv
  <2>3. Feeds'
    BY <1>2, <2>1 DEF Feeds
  <2> QED
    BY <2>1, <2>2, <2>3 DEF Unbroken
<1>7. CASE DaemonSend
  <2>1. /\ daemon' \in Daemon /\ down' \in Seq(DownFrame)
        /\ daemon.sent > 0 => Led(daemon, daemon') \/ daemon'.tx = daemon.tx \/ down' = Append(down, Head(daemon.tx))
        /\ pane' = pane /\ up' = up /\ bridge' = bridge /\ host' = host /\ faults' = faults
        /\ Good(daemon', down', up, bridge, host)
        /\ Ready(daemon, down, up, bridge, host) => Ready(daemon', down', up, bridge, host)
    BY <1>2, <1>7, DaemonSendKeeps
  <2>2. TypeInv'
    BY <1>1, <2>1 DEF TypeInv
  <2>3. Feeds'
    BY <1>2, <2>1 DEF Feeds
  <2> QED
    BY <2>1, <2>2, <2>3 DEF Unbroken
<1>8. CASE Wake
  <2>1. TypeInv' /\ Feeds' /\ daemon' = daemon
    BY <1>8, WakeKeeps
  <2> QED
    BY <2>1 DEF Unbroken
<1>9. CASE ClientStep
  <2>1. TypeInv' /\ Feeds' /\ daemon' = daemon
    BY <1>9, ClientStepKeeps
  <2> QED
    BY <2>1 DEF Unbroken
<1>10. CASE HostServe
  <2>1. TypeInv' /\ Feeds' /\ daemon' = daemon
    BY <1>10, HostServeKeeps
  <2> QED
    BY <2>1 DEF Unbroken
<1>11. CASE UNCHANGED vars
  <2>1. /\ pane' = pane /\ daemon' = daemon /\ down' = down /\ up' = up /\ bridge' = bridge
        /\ host' = host /\ faults' = faults
    BY <1>11 DEF vars
  <2>2. TypeInv' /\ Feeds'
    BY <1>1, <1>2, <2>1 DEF TypeInv, Feeds
  <2> QED
    BY <2>1, <2>2 DEF Unbroken
<1> QED
  BY <1>3, <1>4, <1>5, <1>6, <1>7, <1>8, <1>9, <1>10, <1>11 DEF Next, Bridge

(* Every variable keeps its type. *)
THEOREM TypeCorrect == Spec => []TypeInv
<1>1. Init => TypeInv /\ Feeds
  BY Starts
<1>2. TypeInv /\ Feeds /\ [Next]_vars => TypeInv' /\ Feeds'
  BY Steady
<1> QED
  BY <1>1, <1>2, PTL DEF Spec

(* What is under way between the daemon and the terminal always leads to    *)
(* the picture the daemon last projected: one holder of the right to open a *)
(* session, generations that grow along the way, a closed window's          *)
(* generation still to be acknowledged, frames that make of the grid's      *)
(* content the projector's shadow, and the pane's modes.                    *)
THEOREM FeedsHold == Spec => []Feeds
<1>1. Init => TypeInv /\ Feeds
  BY Starts
<1>2. TypeInv /\ Feeds /\ [Next]_vars => TypeInv' /\ Feeds'
  BY Steady
<1> QED
  BY <1>1, <1>2, PTL DEF Spec

LEMMA TokenAwaited ==
  ASSUME TypeInv, Feeds
  PROVE  PublishIsAwaited
<1>1. up \in Seq(UpFrame) /\ Token(daemon, down, up, bridge)
  BY DEF TypeInv, Feeds, Good
<1>2. DOMAIN up = 1 .. Len(up)
  BY <1>1, LenProperties
<1>3. \A i, j \in Publishing : i = j
  BY <1>1, <1>2 DEF Publishing, Token, BridgeOne, HasOne
<1>4. Cardinality(Publishing) <= 1
  <2>1. CASE Publishing = {}
    BY <2>1, FS_EmptySet
  <2>2. CASE Publishing # {}
    <3>1. PICK i : Publishing = {i}
      BY <1>3, <2>2
    <3>2. Cardinality({i}) = 1
      BY FS_Singleton
    <3> QED
      BY <3>1, <3>2
  <2> QED
    BY <2>1, <2>2
<1>5. ASSUME Publishing # {} PROVE ~daemon.session
  <2>1. ~HasNo("VTSINK_PUBLISH", up)
    BY <1>2, <1>5 DEF Publishing, HasNo
  <2> QED
    BY <1>1, <2>1 DEF Token, BridgeFree, DaemonFree
<1> QED
  BY <1>4, <1>5 DEF PublishIsAwaited

(* The client publishes its sink once for each session the daemon destroys, *)
(* and the daemon never refuses it.                                         *)
THEOREM PublishAwaited == Spec => []PublishIsAwaited
<1>1. TypeInv /\ Feeds => PublishIsAwaited
  BY TokenAwaited
<1> QED
  BY <1>1, TypeCorrect, FeedsHold, PTL

LEMMA WindowUnderWay ==
  ASSUME TypeInv, Feeds
  PROVE  WindowReopens
<1> SUFFICES ASSUME WindowClosed(daemon) PROVE UnderWay(daemon.sent_gen)
  BY DEF WindowReopens
<1>1. /\ daemon \in Daemon /\ down \in Seq(DownFrame) /\ up \in Seq(UpFrame) /\ bridge \in Receiver
      /\ Window(daemon, down, up, bridge)
  BY DEF TypeInv, Feeds, Good
<1>2. /\ daemon.tx \in Seq(DownFrame) /\ bridge.pending \in Seq(FeedFrame) /\ bridge.ring \in Seq(Entry)
      /\ daemon.sent_gen \in Nat /\ daemon.acked_gen \in Nat
  BY <1>1, DaemonTyped, ReceiverTyped
<1>3. /\ DOMAIN daemon.tx = 1 .. Len(daemon.tx) /\ DOMAIN down = 1 .. Len(down)
      /\ DOMAIN bridge.pending = 1 .. Len(bridge.pending) /\ DOMAIN bridge.ring = 1 .. Len(bridge.ring)
      /\ DOMAIN up = 1 .. Len(up)
  BY <1>1, <1>2, LenProperties
<1>4. daemon.sent_gen # 0 /\ daemon.acked_gen # daemon.sent_gen
  <2>1. MAX_UNACKED \in Nat /\ MAX_UNACKED # 0
    BY FeedAssumption
  <2>2. \A x, y, z \in Nat : x > y + z => x # 0 /\ (z # 0 => y # x)
    OBVIOUS
  <2>3. daemon.sent_gen > daemon.acked_gen + MAX_UNACKED
    BY DEF WindowClosed
  <2> QED
    BY <1>2, <2>1, <2>2, <2>3
<1>5. CASE Holds(daemon.sent_gen, daemon.tx) \/ Holds(daemon.sent_gen, down) \/ Holds(daemon.sent_gen, bridge.pending)
  BY <1>3, <1>5 DEF Holds, IsFeed, UnderWay
<1>6. CASE \E i \in 1 .. Len(bridge.ring) : bridge.ring[i].gen = daemon.sent_gen
  BY <1>3, <1>6 DEF UnderWay
<1>7. CASE \E i \in 1 .. Len(up) : up[i].type = "ACK" /\ up[i].gen = daemon.sent_gen
  <2>1. PICK i \in 1 .. Len(up) : up[i].type = "ACK" /\ up[i].gen = daemon.sent_gen
    BY <1>7
  <2>2. up[i] \in UpFrame
    BY <1>1, ElementOfSeq
  <2>3. up[i] \in AckFrame
    BY <2>1, <2>2 DEF UpFrame, AskFrame
  <2>4. up[i] = Ack(daemon.sent_gen)
    BY <2>1, <2>3 DEF AckFrame, Ack
  <2> QED
    BY <1>3, <2>4 DEF UnderWay
<1>8. CASE ~NoResync(up)
  <2>1. PICK i \in 1 .. Len(up) : up[i].type = "RESYNC"
    BY <1>8 DEF NoResync, HasNo
  <2>2. up[i] \in UpFrame
    BY <1>1, ElementOfSeq
  <2>3. up[i] \in AskFrame
    BY <2>1, <2>2 DEF UpFrame, AckFrame
  <2>4. up[i] = Plain("RESYNC")
    BY <2>1, <2>3 DEF AskFrame, Plain
  <2> QED
    BY <1>3, <2>4 DEF UnderWay
<1>9. CASE bridge.desynced
  BY <1>9 DEF UnderWay
<1> QED
  BY <1>1, <1>4, <1>5, <1>6, <1>7, <1>8, <1>9 DEF Window

(* A closed window opens again: the generation the daemon waits for is      *)
(* queued, shipped, held by the bridge or on its way back.                  *)
THEOREM WindowsReopen == Spec => []WindowReopens
<1>1. TypeInv /\ Feeds => WindowReopens
  BY WindowUnderWay
<1> QED
  BY <1>1, TypeCorrect, FeedsHold, PTL

LEMMA RestShowsPane ==
  ASSUME TypeInv, Feeds
  PROVE  RestsCurrent
<1> SUFFICES ASSUME AtRest PROVE host.text = pane.text /\ bridge.modes = pane.modes
  BY DEF RestsCurrent
<1>1. pane \in Pane /\ host \in HostEnd /\ Good(daemon, down, up, bridge, host)
  BY DEF TypeInv, Feeds
<1>2. pane.text \in Nat /\ pane.modes \in Nat
  BY <1>1 DEF Pane
<1>3. /\ daemon.shadow = pane.text /\ daemon.modes = <<pane.modes>>
      /\ daemon.tx = <<>> /\ down = <<>> /\ up = <<>>
      /\ bridge.pending = <<>> /\ bridge.arrived = <<>> /\ ~bridge.desynced
      /\ host.calls = <<>> /\ host.replies = <<>>
  BY DEF AtRest
<1>4. Len(<<>>) = 0 /\ \A i \in 1 .. 0 : FALSE
  BY EmptySeq
<1>5. daemon.shadow # NoText
  BY <1>2, <1>3 DEF NoText
<1>6. ~Broken(up, bridge, host)
  BY <1>3, <1>4 DEF Broken, NoResync, HasNo, Failed
<1>7. PICK y1, y2, y3 \in Int :
        /\ CallPath(host.text, host.calls, y1) /\ Path(y1, bridge.pending, y2)
        /\ Path(y2, down, y3) /\ Path(y3, daemon.tx, daemon.shadow)
  BY <1>1, <1>5, <1>6 DEF Good, Screen
<1>8. host.text \in Int
  BY <1>1, HostTyped
<1>9. y1 = host.text
  BY <1>3, <1>4, <1>7, <1>8, CallEmpty
<1>10. y2 = y1 /\ y3 = y2 /\ daemon.shadow = y3
  BY <1>3, <1>4, <1>7, PathEmpty
<1>11. ~LastModes(pane.modes, daemon.tx) /\ ~LastModes(pane.modes, down)
  BY <1>3, <1>4 DEF LastModes
<1>12. bridge.modes = pane.modes
  BY <1>1, <1>2, <1>3, <1>11 DEF Good, ModesFollow
<1> QED
  BY <1>3, <1>9, <1>10, <1>12

(* With nothing under way between them, the terminal shows the pane's       *)
(* screen and the client knows the pane's modes.                            *)
THEOREM RestShows == Spec => []RestsCurrent
<1>1. TypeInv /\ Feeds => RestsCurrent
  BY RestShowsPane
<1> QED
  BY <1>1, TypeCorrect, FeedsHold, PTL

LEMMA UnbrokenWhole ==
  ASSUME TypeInv, Feeds, [Next]_vars, daemon.sent > 0, daemon'.tx # daemon.tx
  PROVE  \/ daemon'.tx # <<>> /\ Head(daemon'.tx) = Head(daemon.tx)
         \/ down' = Append(down, Head(daemon.tx))
<1>1. TypeInv' /\ Unbroken
  BY Steady
<1>2. daemon \in Daemon /\ daemon' \in Daemon
  BY <1>1 DEF TypeInv
<1>3. /\ daemon.tx \in Seq(DownFrame) /\ Len(daemon.tx) \in Nat
      /\ daemon'.tx \in Seq(DownFrame) /\ Len(daemon'.tx) \in Nat
  BY <1>2, DaemonTyped
<1>4. daemon.tx # <<>>
  BY DEF Feeds, Good, Books
<1>5. CASE Led(daemon, daemon')
  <2>1. Len(daemon.tx) > 0
    BY <1>3, <1>4, EmptySeq
  <2>2. Len(daemon'.tx) > 0 /\ daemon'.tx[1] = daemon.tx[1]
    BY <1>5, <2>1 DEF Led
  <2>3. daemon'.tx # <<>>
    BY <2>2, EmptySeq
  <2>4. Head(daemon.tx) = daemon.tx[1] /\ Head(daemon'.tx) = daemon'.tx[1]
    BY <1>3, <1>4, <2>3, HeadTailProperties
  <2> QED
    BY <2>2, <2>3, <2>4
<1> QED
  BY <1>1, <1>5 DEF Unbroken

(* Recovery never cuts a frame the socket has begun to take. *)
THEOREM FramesWhole == Spec => FramesStayWhole
<1>1. TypeInv /\ Feeds /\ [Next]_vars
        => [daemon.sent > 0 /\ daemon'.tx # daemon.tx
              => \/ daemon'.tx # <<>> /\ Head(daemon'.tx) = Head(daemon.tx)
                 \/ down' = Append(down, Head(daemon.tx))]_vars
  BY UnbrokenWhole
<1>2. [](TypeInv /\ Feeds) /\ [][Next]_vars => FramesStayWhole
  BY <1>1, PTL DEF FramesStayWhole
<1> QED
  BY <1>2, TypeCorrect, FeedsHold, PTL DEF Spec

=============================================================================
