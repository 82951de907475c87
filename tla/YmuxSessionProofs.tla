------------------------- MODULE YmuxSessionProofs -------------------------
(***************************************************************************)
(* Theorems about YmuxSession, for any number of clients, sessions, sizes, *)
(* channels, capacities and bounds.  The session object keeps control, the *)
(* permission to resize and the geometry together (Sound); the session and *)
(* the connection table keep each other's attachments (Matched); and a     *)
(* frame asks only for sessions that can exist (Asks).                     *)
(***************************************************************************)
EXTENDS YmuxSession, FiniteSetTheorems, TLAPS

\* A session record; only its identities and numbers have a type to speak of.
SessionRecord(S) ==
  S \in [live : {S.live}, next : Nat \ {0}, ctl : Nat, view : {S.view},
         resize : {S.resize}, geo : {S.geo}, pty : {S.pty}]

Sound(S) ==
  /\ SessionRecord(S)
  /\ Ids(S) \subseteq 1 .. S.next - 1
  /\ ~S.live => Ids(S) = {}
  /\ S.ctl # 0 => S.ctl \in Ids(S) /\ S.geo = S.view[S.ctl]
  /\ S.resize = IF S.ctl = 0 THEN {} ELSE {S.ctl}
  /\ S.pty = S.geo

Conn == [link : {"none", "open", "eof", "dropped"}, s : Sessions \cup {NoSession}, att : Nat]

\* Connection c of the table K is attached to s as a.
At(K, c, s, a) == K[c].att # 0 /\ K[c].s = s /\ K[c].att = a

\* The table S of sessions and the table K of connections.
Matched(S, K) ==
  /\ S \in [Sessions -> {S[s] : s \in Sessions}]
  /\ \A s \in Sessions : Sound(S[s])
  /\ K \in [Clients -> Conn]
  /\ \A c \in Clients : K[c].att # 0 => K[c].s \in Sessions /\ K[c].link \in {"open", "eof"}
  /\ \A s \in Sessions : \A a \in Ids(S[s]) : \E c \in Clients : At(K, c, s, a)
  /\ \A c \in Clients, s \in Sessions : \A a \in Nat : At(K, c, s, a) => a \in Ids(S[s])
  /\ \A c, d \in Clients, s \in Sessions, a \in Nat : At(K, c, s, a) /\ At(K, d, s, a) => c = d

\* A frame that asks to attach names a session.
Harmless(f) == f.t = "attach" => f.s \in Sessions
Asks(q) == \E F : q \in Seq(F) /\ \A f \in F : Harmless(f)

Queues(Q) == Q \in [Clients -> {Q[c] : c \in Clients}] /\ \A c \in Clients : Asks(Q[c])

IInv == Matched(sess, conn) /\ Queues(toDaemon)

-----------------------------------------------------------------------------
(* The session's operations *)

LEMMA NewSound == \A size : Sound(NewSession(size)) /\ Ids(NewSession(size)) = {}
BY DEF NewSession, Sound, SessionRecord, Ids

LEMMA NoPaneSound == Sound(NoPane) /\ Ids(NoPane) = {}
BY DEF NoPane, Sound, SessionRecord, Ids

LEMMA SoundIds ==
  ASSUME NEW S, Sound(S)
  PROVE  Ids(S) \subseteq Nat /\ S.next \in Nat \ {0} /\ S.ctl \in Nat /\ S.next \notin Ids(S)
BY DEF Sound, SessionRecord

LEMMA AttachedSound ==
  ASSUME NEW S, Sound(S), S.live, NEW size
  PROVE  LET T == Synced(Attached(S, size))
         IN  /\ Sound(T) /\ Ids(T) = Ids(S) \cup {S.next}
             /\ S.ctl # 0 => T.ctl = S.ctl
             /\ S.ctl = 0 => T.ctl = S.next
<1> DEFINE A == Attached(S, size)
           T == Synced(A)
<1>0. S.next \in Nat \ {0} /\ S.ctl \in Nat /\ S.next \notin Ids(S)
  BY DEF Sound, SessionRecord
<1> DEFINE V == [i \in Ids(S) \cup {S.next} |-> IF i = S.next THEN size ELSE S.view[i]]
<1>1. /\ A.live = S.live /\ A.next = S.next + 1 /\ A.view = V
      /\ A.ctl = IF S.ctl = 0 THEN S.next ELSE S.ctl
      /\ A.resize = IF S.ctl = 0 THEN S.resize \cup {S.next} ELSE S.resize
      /\ A.geo = IF S.ctl = 0 THEN size ELSE S.geo
      /\ A.pty = S.pty
      /\ SessionRecord(A)
  <2> DEFINE R == IF S.ctl = 0 THEN S.resize \cup {S.next} ELSE S.resize
             C == IF S.ctl = 0 THEN S.next ELSE S.ctl
             G == IF S.ctl = 0 THEN size ELSE S.geo
  <2>1. A = [S EXCEPT !.next = S.next + 1, !.view = V, !.ctl = C, !.resize = R, !.geo = G]
    BY Zenon DEF Attached
  <2>2. C \in Nat
    BY <1>0
  <2> HIDE DEF A, V, R, C, G
  <2>3. A = [live |-> S.live, next |-> S.next + 1, ctl |-> C, view |-> V, resize |-> R,
             geo |-> G, pty |-> S.pty]
    BY <2>1 DEF Sound, SessionRecord
  <2>4. S.next + 1 \in Nat \ {0}
    BY <1>0
  <2>5. SessionRecord(A)
    BY <2>2, <2>3, <2>4 DEF SessionRecord
  <2> QED
    BY <2>3, <2>5 DEF C, R, G
<1> HIDE DEF A
<1>2. /\ T.live = A.live /\ T.next = A.next /\ T.view = A.view /\ T.ctl = A.ctl
      /\ T.resize = A.resize /\ T.geo = A.geo /\ T.pty = A.geo
      /\ SessionRecord(T)
  BY <1>1 DEF Synced, SessionRecord
<1> HIDE DEF T
<1>3. Ids(T) = Ids(S) \cup {S.next}
  BY <1>1, <1>2 DEF Ids
<1>4. Ids(T) \subseteq 1 .. T.next - 1
  BY <1>0, <1>1, <1>2, <1>3 DEF Sound
<1>5. T.ctl # 0 => T.ctl \in Ids(T) /\ T.geo = T.view[T.ctl]
  BY <1>0, <1>1, <1>2, <1>3 DEF Sound
<1>6. T.resize = IF T.ctl = 0 THEN {} ELSE {T.ctl}
  <2>1. S.resize = IF S.ctl = 0 THEN {} ELSE {S.ctl}
    BY DEF Sound
  <2>2. /\ T.ctl = IF S.ctl = 0 THEN S.next ELSE S.ctl
        /\ T.resize = IF S.ctl = 0 THEN S.resize \cup {S.next} ELSE S.resize
    BY <1>1, <1>2
  <2> QED
    BY <1>0, <2>1, <2>2
<1> QED
  BY <1>0, <1>1, <1>2, <1>3, <1>4, <1>5, <1>6 DEF Sound, T, A

LEMMA DetachedSound ==
  ASSUME NEW S, Sound(S), NEW A
  PROVE  /\ Sound(Detached(S, A)) /\ Ids(Detached(S, A)) = Ids(S) \ A
         /\ Detached(S, A).live = S.live /\ Detached(S, A).next = S.next
         /\ Detached(S, A).ctl = IF S.ctl \in A THEN 0 ELSE S.ctl
<1> DEFINE T == Detached(S, A)
<1>1. /\ T.live = S.live /\ T.next = S.next /\ T.geo = S.geo /\ T.pty = S.pty
      /\ T.view = [i \in Ids(S) \ A |-> S.view[i]]
      /\ T.ctl = IF S.ctl \in A THEN 0 ELSE S.ctl
      /\ T.resize = S.resize \ A
      /\ SessionRecord(T)
  BY DEF Detached, Sound, SessionRecord
<1> HIDE DEF T
<1>2. Ids(T) = Ids(S) \ A
  BY <1>1 DEF Ids
<1>3. T.ctl # 0 => T.ctl \in Ids(T) /\ T.geo = T.view[T.ctl]
  BY <1>1, <1>2 DEF Sound
<1>4. T.resize = IF T.ctl = 0 THEN {} ELSE {T.ctl}
  BY <1>1 DEF Sound
<1> QED
  BY <1>1, <1>2, <1>3, <1>4 DEF Sound, T

LEMMA TakenOverSound ==
  ASSUME NEW S, Sound(S), NEW a \in Ids(S)
  PROVE  LET T == Synced(TakenOver(S, a))
         IN  Sound(T) /\ Ids(T) = Ids(S) /\ T.ctl = a
<1> DEFINE A == TakenOver(S, a)
           T == Synced(A)
<1>0. a \in Nat /\ a # 0
  BY DEF Sound, SessionRecord
<1>1. /\ A.live = S.live /\ A.next = S.next /\ A.view = S.view /\ A.ctl = a
      /\ A.resize = (S.resize \ {S.ctl}) \cup {a} /\ A.geo = S.view[a]
      /\ SessionRecord(A)
  BY <1>0 DEF TakenOver, Sound, SessionRecord
<1> HIDE DEF A
<1>2. /\ T.live = A.live /\ T.next = A.next /\ T.view = A.view /\ T.ctl = A.ctl
      /\ T.resize = A.resize /\ T.geo = A.geo /\ T.pty = A.geo
      /\ SessionRecord(T)
  BY <1>1 DEF Synced, SessionRecord
<1> HIDE DEF T
<1>3. Ids(T) = Ids(S)
  BY <1>1, <1>2 DEF Ids
<1>4. T.resize = {a}
  BY <1>1, <1>2 DEF Sound
<1> QED
  BY <1>0, <1>1, <1>2, <1>3, <1>4 DEF Sound, T, A

LEMMA ResizedSound ==
  ASSUME NEW S, Sound(S), NEW a \in Ids(S), NEW size
  PROVE  LET T == Synced(Resized(S, a, size))
         IN  Sound(T) /\ Ids(T) = Ids(S) /\ T.ctl = S.ctl
<1> DEFINE A == Resized(S, a, size)
           T == Synced(A)
<1>0. a \in Nat /\ a # 0
  BY DEF Sound, SessionRecord
<1>1. /\ A.live = S.live /\ A.next = S.next /\ A.ctl = S.ctl /\ A.resize = S.resize
      /\ A.view = [i \in Ids(S) |-> IF i = a THEN size ELSE S.view[i]]
      /\ A.geo = IF a \in S.resize THEN size ELSE S.geo
      /\ SessionRecord(A)
  BY DEF Resized, Sound, SessionRecord
<1> HIDE DEF A
<1>2. /\ T.live = A.live /\ T.next = A.next /\ T.view = A.view /\ T.ctl = A.ctl
      /\ T.resize = A.resize /\ T.geo = A.geo /\ T.pty = A.geo
      /\ SessionRecord(T)
  BY <1>1 DEF Synced, SessionRecord
<1> HIDE DEF T
<1>3. Ids(T) = Ids(S)
  BY <1>1, <1>2 DEF Ids
<1>4. T.ctl # 0 => T.ctl \in Ids(T) /\ T.geo = T.view[T.ctl]
  BY <1>0, <1>1, <1>2, <1>3 DEF Sound
<1> QED
  BY <1>0, <1>1, <1>2, <1>3, <1>4 DEF Sound, T, A

-----------------------------------------------------------------------------
(* The two tables *)

\* The connection's entry c is replaced; the others stay.
Replaced(K, L, c) == L \in [Clients -> Conn] /\ \A d \in Clients \ {c} : L[d] = K[d]

\* A connection gives up its attachment.
LEMMA Leave ==
  ASSUME NEW S, NEW K, Matched(S, K), NEW c \in Clients, NEW L, Replaced(K, L, c), L[c].att = 0,
         NEW T, T = IF K[c].att = 0 THEN S ELSE [S EXCEPT ![K[c].s] = Detached(@, {K[c].att})]
  PROVE  Matched(T, L)
<1> DEFINE n == K[c].s
           x == K[c].att
<1>1. x \in Nat /\ (x # 0 => n \in Sessions)
  BY DEF Matched, Conn
<1>2. /\ T \in [Sessions -> {T[s] : s \in Sessions}]
      /\ \A s \in Sessions : T[s] = IF x # 0 /\ s = n THEN Detached(S[s], {x}) ELSE S[s]
  BY <1>1 DEF Matched
<1>a. \A s \in Sessions : Sound(S[s]) /\ Ids(S[s]) \subseteq Nat
  BY SoundIds DEF Matched
<1> HIDE DEF n, x
<1>3. /\ \A s \in Sessions : Sound(T[s])
      /\ \A s \in Sessions : \A a : a \in Ids(T[s]) <=> a \in Ids(S[s]) /\ ~(x # 0 /\ s = n /\ a = x)
  <2>1. CASE x = 0
    BY <1>2, <1>a, <2>1
  <2>2. CASE x # 0
    <3>1. n \in Sessions /\ Sound(Detached(S[n], {x})) /\ Ids(Detached(S[n], {x})) = Ids(S[n]) \ {x}
      BY <1>1, <1>a, <2>2, DetachedSound DEF n, x
    <3> QED
      BY <1>2, <1>a, <2>2, <3>1
  <2> QED
    BY <2>1, <2>2
<1>4. \A d \in Clients, s \in Sessions, a \in Nat : At(L, d, s, a) <=> d # c /\ At(K, d, s, a)
  BY DEF At, Replaced
<1>5. \A d \in Clients : L[d].att # 0 => L[d].s \in Sessions /\ L[d].link \in {"open", "eof"}
  BY DEF Matched, Replaced
<1>6. ASSUME NEW s \in Sessions, NEW a \in Ids(T[s]) PROVE \E d \in Clients : At(L, d, s, a)
  <2>1. a \in Ids(S[s]) /\ a \in Nat /\ ~(x # 0 /\ s = n /\ a = x)
    BY <1>a, <1>3, <1>6
  <2>2. PICK d \in Clients : At(K, d, s, a)
    BY <2>1 DEF Matched
  <2>3. d # c
    BY <2>1, <2>2 DEF At, n, x
  <2> QED
    BY <1>4, <2>1, <2>2, <2>3
<1>7. ASSUME NEW d \in Clients, NEW s \in Sessions, NEW a \in Nat, At(L, d, s, a)
      PROVE  a \in Ids(T[s])
  <2>1. d # c /\ At(K, d, s, a) /\ a \in Ids(S[s])
    BY <1>4, <1>7 DEF Matched
  <2>2. ~(x # 0 /\ s = n /\ a = x)
    <3>1. x # 0 /\ s = n => At(K, c, s, x)
      BY DEF At, n, x
    <3> QED
      BY <1>1, <2>1, <3>1 DEF Matched
  <2> QED
    BY <1>3, <2>1, <2>2
<1>8. \A d, e \in Clients, s \in Sessions, a \in Nat : At(L, d, s, a) /\ At(L, e, s, a) => d = e
  BY <1>4 DEF Matched
<1> QED
  BY <1>2, <1>3, <1>5, <1>6, <1>7, <1>8 DEF Matched, Replaced

\* A connection without an attachment takes the next id of a live session.
LEMMA Enter ==
  ASSUME NEW S, NEW K, Matched(S, K), NEW c \in Clients, NEW n \in Sessions, NEW size,
         K[c].att = 0, K[c].link \in {"open", "eof"}, S[n].live,
         NEW L, Replaced(K, L, c), L[c].s = n, L[c].att = S[n].next, L[c].link = K[c].link,
         NEW T, T = [S EXCEPT ![n] = Synced(Attached(@, size))]
  PROVE  Matched(T, L)
<1> DEFINE x == S[n].next
<1>a. \A s \in Sessions : Sound(S[s]) /\ Ids(S[s]) \subseteq Nat
  BY SoundIds DEF Matched
<1>1. x \in Nat /\ x # 0 /\ x \notin Ids(S[n])
  BY <1>a, SoundIds
<1>2. /\ T \in [Sessions -> {T[s] : s \in Sessions}]
      /\ \A s \in Sessions : T[s] = IF s = n THEN Synced(Attached(S[n], size)) ELSE S[s]
  BY DEF Matched
<1>b. Sound(Synced(Attached(S[n], size))) /\ Ids(Synced(Attached(S[n], size))) = Ids(S[n]) \cup {x}
  BY <1>a, AttachedSound
<1>3. /\ \A s \in Sessions : Sound(T[s])
      /\ \A s \in Sessions : \A a : a \in Ids(T[s]) <=> a \in Ids(S[s]) \/ (s = n /\ a = x)
  BY <1>2, <1>a, <1>b
<1>4. \A d \in Clients, s \in Sessions, a \in Nat :
        At(L, d, s, a) <=> (d # c /\ At(K, d, s, a)) \/ (d = c /\ s = n /\ a = x)
  BY <1>1 DEF At, Replaced
<1>5. \A d \in Clients : L[d].att # 0 => L[d].s \in Sessions /\ L[d].link \in {"open", "eof"}
  BY DEF Matched, Replaced
<1>6. ASSUME NEW s \in Sessions, NEW a \in Ids(T[s]) PROVE \E d \in Clients : At(L, d, s, a)
  <2>1. CASE a \in Ids(S[s])
    <3>1. PICK d \in Clients : At(K, d, s, a)
      BY <2>1 DEF Matched
    <3>2. d # c /\ a \in Nat
      BY <1>a, <2>1, <3>1 DEF At
    <3> QED
      BY <1>4, <3>1, <3>2
  <2>2. CASE a \notin Ids(S[s])
    <3>1. s = n /\ a = x
      BY <1>3, <1>6, <2>2
    <3> QED
      BY <1>1, <1>4, <3>1
  <2> QED
    BY <2>1, <2>2
<1>c. \A d \in Clients, s \in Sessions, a \in Nat : At(K, d, s, a) => a \in Ids(S[s])
  BY DEF Matched
<1>7. ASSUME NEW d \in Clients, NEW s \in Sessions, NEW a \in Nat, At(L, d, s, a)
      PROVE  a \in Ids(T[s])
  <2>1. a \in Ids(S[s]) \/ (s = n /\ a = x)
    BY <1>4, <1>7, <1>c
  <2> QED
    BY <1>3, <2>1
<1>8. \A d, e \in Clients, s \in Sessions, a \in Nat : At(L, d, s, a) /\ At(L, e, s, a) => d = e
  BY <1>1, <1>4, <1>c DEF Matched
<1> QED
  BY <1>2, <1>3, <1>5, <1>6, <1>7, <1>8 DEF Matched, Replaced

\* A session changes and keeps its attachments.
LEMMA Stay ==
  ASSUME NEW S, NEW K, Matched(S, K), NEW n \in Sessions, NEW R, Sound(R), Ids(R) = Ids(S[n]),
         NEW T, T = [S EXCEPT ![n] = R]
  PROVE  Matched(T, K)
<1>1. /\ T \in [Sessions -> {T[s] : s \in Sessions}]
      /\ \A s \in Sessions : T[s] = IF s = n THEN R ELSE S[s]
  BY DEF Matched
<1>2. \A s \in Sessions : Sound(T[s]) /\ Ids(T[s]) = Ids(S[s])
  BY <1>1 DEF Matched
<1> QED
  BY <1>1, <1>2 DEF Matched

Attachments(K, n) == {a \in Nat : \E c \in Clients : At(K, c, n, a)}
Cleared(K, n) ==
  [c \in Clients |-> IF K[c].att # 0 /\ K[c].s = n THEN Unattached(K[c]) ELSE K[c]]

\* A session loses its attachments with all of its connections.
LEMMA Clear ==
  ASSUME NEW S, NEW K, Matched(S, K), NEW n \in Sessions, NEW R, Sound(R),
         Ids(R) = Ids(S[n]) \ Attachments(K, n)
  PROVE  Matched([S EXCEPT ![n] = R], Cleared(K, n))
<1> DEFINE T == [S EXCEPT ![n] = R]
           L == Cleared(K, n)
<1>0. L = [c \in Clients |-> IF K[c].att # 0 /\ K[c].s = n THEN Unattached(K[c]) ELSE K[c]]
  BY DEF Cleared
<1>1. /\ T \in [Sessions -> {T[s] : s \in Sessions}]
      /\ \A s \in Sessions : T[s] = IF s = n THEN R ELSE S[s]
  BY DEF Matched
<1> HIDE DEF T, L
<1>2. Ids(R) = {}
  <2>1. \A a \in Ids(S[n]) : a \in Attachments(K, n)
    BY SoundIds DEF Matched, Attachments
  <2> QED
    BY <2>1
<1>3. \A s \in Sessions : Sound(T[s]) /\ Ids(T[s]) = IF s = n THEN {} ELSE Ids(S[s])
  BY <1>1, <1>2 DEF Matched
<1>4. ASSUME NEW c \in Clients
      PROVE  K[c] \in Conn /\ Unattached(K[c]) \in Conn /\ Unattached(K[c]).att = 0
  <2>1. K[c] \in Conn
    BY DEF Matched
  <2> QED
    BY <2>1 DEF Conn, Unattached
<1>5. L \in [Clients -> Conn]
  BY <1>0, <1>4
<1>6. \A c \in Clients, s \in Sessions, a \in Nat : At(L, c, s, a) <=> s # n /\ At(K, c, s, a)
  BY <1>0, <1>4 DEF At
<1>7. \A c \in Clients : L[c].att # 0 => L[c].s \in Sessions /\ L[c].link \in {"open", "eof"}
  BY <1>0, <1>4 DEF Matched
<1>8. ASSUME NEW s \in Sessions, NEW a \in Ids(T[s]) PROVE \E c \in Clients : At(L, c, s, a)
  <2>1. s # n /\ a \in Ids(S[s]) /\ a \in Nat
    BY <1>3, <1>8, SoundIds DEF Matched
  <2> QED
    BY <1>6, <2>1 DEF Matched
<1>9. \A c \in Clients, s \in Sessions, a \in Nat : At(L, c, s, a) => a \in Ids(T[s])
  BY <1>3, <1>6 DEF Matched
<1>10. \A c, d \in Clients, s \in Sessions, a \in Nat : At(L, c, s, a) /\ At(L, d, s, a) => c = d
  BY <1>6 DEF Matched
<1> QED
  BY <1>1, <1>3, <1>5, <1>7, <1>8, <1>9, <1>10 DEF Matched, T, L

\* Only connections without an attachment change, and gain none.
LEMMA Other ==
  ASSUME NEW S, NEW K, Matched(S, K), NEW L, L \in [Clients -> Conn],
         \A c \in Clients :
           /\ L[c].att = K[c].att /\ L[c].s = K[c].s
           /\ K[c].att # 0 => L[c].link \in {"open", "eof"}
  PROVE  Matched(S, L)
<1>1. \A c \in Clients, s \in Sessions, a \in Nat : At(L, c, s, a) <=> At(K, c, s, a)
  BY DEF At
<1>2. \A s \in Sessions : \A a \in Ids(S[s]) : a \in Nat
  BY SoundIds DEF Matched
<1> QED
  BY <1>1, <1>2 DEF Matched

-----------------------------------------------------------------------------
(* Frames *)

LEMMA SetToSeqType ==
  ASSUME NEW T, IsFiniteSet(T)
  PROVE  SetToSeq(T) \in Seq(T)
<1>1. Cardinality(T) \in Nat /\ ExistsBijection(1 .. Cardinality(T), T)
  BY FS_CardinalityType
<1>2. \E f \in [1 .. Cardinality(T) -> T] : IsInjective(f)
  BY <1>1 DEF ExistsBijection, Bijection, Injection
<1>3. SetToSeq(T) \in [1 .. Cardinality(T) -> T]
  BY <1>2, Zenon DEF SetToSeq
<1> QED
  BY <1>1, <1>3

LEMMA ClosesAsks ==
  ASSUME NEW U, U \subseteq Channels
  PROVE  Asks(Closes(U))
<1> DEFINE T == {Close(ch) : ch \in U}
           f == [ch \in U |-> Close(ch)]
<1>1. IsFiniteSet(U)
  BY ChannelsAssumption, FS_Subset
<1>2. f \in Surjection(U, T)
  BY Zenon DEF Surjection
<1>3. IsFiniteSet(T)
  BY <1>1, <1>2, FS_Surjection, Zenon DEF ExistsSurjection
<1>4. SetToSeq(T) \in Seq(T)
  BY <1>3, SetToSeqType
<1>5. \A g \in T : Harmless(g)
  BY DEF Close, Harmless
<1> QED
  BY <1>4, <1>5 DEF Asks, Closes

LEMMA EmptyAsks == Asks(<<>>)
<1> DEFINE q == <<>>
           F == {}
<1>1. q \in Seq(F) /\ \A g \in F : Harmless(g)
  OBVIOUS
<1> HIDE DEF q, F
<1>2. Asks(q)
  BY <1>1 DEF Asks
<1> QED
  BY <1>2 DEF q

LEMMA AppendAsks ==
  ASSUME NEW q, Asks(q), NEW f, Harmless(f)
  PROVE  Asks(Append(q, f))
<1>1. PICK F : q \in Seq(F) /\ \A g \in F : Harmless(g)
  BY DEF Asks
<1>2. Append(q, f) \in Seq(F \cup {f})
  BY <1>1
<1>3. \A g \in F \cup {f} : Harmless(g)
  BY <1>1
<1> QED
  BY <1>2, <1>3 DEF Asks

LEMMA CatAsks ==
  ASSUME NEW p, Asks(p), NEW q, Asks(q)
  PROVE  Asks(p \o q)
<1>1. PICK F : p \in Seq(F) /\ \A g \in F : Harmless(g)
  BY DEF Asks
<1>2. PICK G : q \in Seq(G) /\ \A g \in G : Harmless(g)
  BY DEF Asks
<1>3. p \o q \in Seq(F \cup G)
  <2>1. p \in Seq(F \cup G) /\ q \in Seq(F \cup G)
    BY <1>1, <1>2
  <2> QED
    BY <2>1
<1>4. \A g \in F \cup G : Harmless(g)
  BY <1>1, <1>2
<1> QED
  BY <1>3, <1>4 DEF Asks

LEMMA TailAsks ==
  ASSUME NEW q, Asks(q), q # <<>>
  PROVE  Asks(Tail(q)) /\ Harmless(Head(q))
<1>1. PICK F : q \in Seq(F) /\ \A g \in F : Harmless(g)
  BY DEF Asks
<1>2. Tail(q) \in Seq(F) /\ Head(q) \in F
  BY <1>1
<1> QED
  BY <1>1, <1>2 DEF Asks

LEMMA OneAsks == ASSUME NEW f, Harmless(f) PROVE Asks(<<f>>)
<1> DEFINE q == <<f>>
           F == {f}
<1>1. q \in Seq(F) /\ \A g \in F : Harmless(g)
  OBVIOUS
<1> HIDE DEF q, F
<1>2. Asks(q)
  BY <1>1 DEF Asks
<1> QED
  BY <1>2 DEF q

LEMMA FarewellAsks == ASSUME NEW c \in Clients PROVE Asks(Farewell(c))
<1>1. Asks(Closes(Serving(c)))
  BY ClosesAsks DEF Serving
<1>2. Asks(<<[t |-> "detach"]>>)
  BY OneAsks DEF Harmless
<1> QED
  BY <1>1, <1>2, CatAsks DEF Farewell

LEMMA QueueReplaced ==
  ASSUME NEW Q, Queues(Q), NEW c \in Clients, NEW q, Asks(q)
  PROVE  Queues([Q EXCEPT ![c] = q])
BY DEF Queues

LEMMA QueueAppended ==
  ASSUME NEW Q, Queues(Q), NEW c \in Clients, NEW f, Harmless(f)
  PROVE  Queues([Q EXCEPT ![c] = Append(@, f)])
<1>1. Asks(Append(Q[c], f))
  BY AppendAsks DEF Queues
<1> QED
  BY <1>1, QueueReplaced

LEMMA FrameTaken ==
  ASSUME Queues(toDaemon), NEW c \in Clients, NEW t, Frame(c, t), Took(c)
  PROVE  Queues(toDaemon') /\ Harmless(Head(toDaemon[c]))
<1>1. Asks(toDaemon[c]) /\ toDaemon[c] # <<>>
  BY DEF Queues, Frame
<1>2. Asks(Tail(toDaemon[c])) /\ Harmless(Head(toDaemon[c]))
  BY <1>1, TailAsks
<1> QED
  BY <1>2, QueueReplaced DEF Took

-----------------------------------------------------------------------------
(* The steps *)

LEMMA InitInv == Init => IInv
<1> SUFFICES ASSUME Init PROVE IInv
  OBVIOUS
<1>1. /\ sess = [s \in Sessions |-> NoPane] /\ conn = [c \in Clients |-> FreeSlot]
      /\ toDaemon = [c \in Clients |-> <<>>]
  BY DEF Init
<1>2. conn \in [Clients -> Conn] /\ \A c \in Clients : conn[c].att = 0
  BY <1>1 DEF FreeSlot, Conn
<1>3. \A s \in Sessions : Sound(sess[s]) /\ Ids(sess[s]) = {}
  BY <1>1, NoPaneSound
<1>4. sess \in [Sessions -> {sess[s] : s \in Sessions}]
  BY <1>1
<1>5. Matched(sess, conn)
  BY <1>2, <1>3, <1>4 DEF Matched, At
<1>6. Queues(toDaemon)
  BY <1>1, EmptyAsks DEF Queues
<1> QED
  BY <1>5, <1>6 DEF IInv

LEMMA Link ==
  ASSUME NEW S, NEW K, Matched(S, K), NEW c \in Clients, NEW l \in {"none", "open", "eof", "dropped"},
         K[c].att # 0 => l \in {"open", "eof"}
  PROVE  Matched(S, [K EXCEPT ![c].link = l])
<1> DEFINE L == [K EXCEPT ![c].link = l]
<1>1. /\ L \in [Clients -> Conn]
      /\ \A d \in Clients : /\ L[d].att = K[d].att /\ L[d].s = K[d].s
                            /\ K[d].att # 0 => L[d].link \in {"open", "eof"}
  BY DEF Matched, Conn
<1> QED
  BY <1>1, Other

LEMMA GoneInv ==
  ASSUME IInv, NEW c \in Clients, conn[c].link \in {"open", "dropped"},
         NEW q, Asks(q), BridgeGone(c, q)
  PROVE  IInv'
<1>1. Matched(sess, conn) /\ Queues(toDaemon) /\ sess' = sess
  BY DEF IInv, BridgeGone
<1> DEFINE l == IF conn[c].link = "dropped" THEN "none" ELSE "eof"
<1>2. conn' = [conn EXCEPT ![c].link = l]
  BY DEF BridgeGone
<1>3. conn[c].att # 0 => l \in {"open", "eof"}
  BY <1>1 DEF Matched
<1>4. Matched(sess, conn')
  BY <1>1, <1>2, <1>3, Link
<1>5. Asks(<<>>) /\ Asks(toDaemon[c] \o q)
  BY <1>1, EmptyAsks, CatAsks DEF Queues
<1>6. toDaemon' = [toDaemon EXCEPT ![c] = <<>>] \/ toDaemon' = [toDaemon EXCEPT ![c] = toDaemon[c] \o q]
  BY DEF BridgeGone
<1>7. /\ Queues([toDaemon EXCEPT ![c] = <<>>])
      /\ Queues([toDaemon EXCEPT ![c] = toDaemon[c] \o q])
  BY <1>1, <1>5, QueueReplaced
<1> QED
  BY <1>1, <1>4, <1>6, <1>7 DEF IInv

LEMMA BridgeInv ==
  ASSUME IInv, NEW c \in Clients, BridgeStep(c) \/ BridgeWill(c)
  PROVE  IInv'
<1>0. Matched(sess, conn) /\ Queues(toDaemon)
  BY DEF IInv
<1>1. CASE Start(c)
  <2>1. sess' = sess /\ conn[c].link = "none" /\ conn' = [conn EXCEPT ![c].link = "open"]
    BY <1>1 DEF Start
  <2>2. Matched(sess', conn')
    BY <1>0, <2>1, Link
  <2>3. PICK s \in Sessions :
          toDaemon' = [toDaemon EXCEPT ![c] = <<[t |-> "attach", s |-> s, v |-> Terminal[c]]>>]
    BY <1>1 DEF Start
  <2>4. Asks(<<[t |-> "attach", s |-> s, v |-> Terminal[c]]>>)
    BY OneAsks DEF Harmless
  <2> QED
    BY <1>0, <2>2, <2>3, <2>4, QueueReplaced DEF IInv
<1>2. CASE Order(c)
  <2>1. PICK f : /\ f.t # "attach"
                 /\ toDaemon' = [toDaemon EXCEPT ![c] = Append(@, f)]
    BY <1>2 DEF Order
  <2>2. sess' = sess /\ conn' = conn
    BY <1>2 DEF Order, sessVars
  <2> QED
    BY <1>0, <2>1, <2>2, QueueAppended DEF IInv, Harmless
<1>3. CASE Quit(c) \/ ReadExit(c)
  BY <1>3, FarewellAsks, GoneInv DEF Quit, ReadExit
<1>4. CASE SeesEnd(c) \/ Crash(c)
  BY <1>4, EmptyAsks, GoneInv DEF SeesEnd, Crash
<1>5. CASE ReadRelay(c) \/ ReadClose(c) \/ YettyConfirms(c)
  <2>1. sess' = sess /\ conn' = conn /\ toDaemon' = toDaemon
    BY <1>5 DEF ReadRelay, ReadClose, YettyConfirms, sessVars
  <2> QED
    BY <1>0, <2>1 DEF IInv
<1>6. CASE YettyAnswers(c) \/ YettyCloses(c)
  <2>1. PICK ch : \/ toDaemon' = [toDaemon EXCEPT ![c] = Append(@, Relay(ch))]
                  \/ toDaemon' = [toDaemon EXCEPT ![c] = Append(@, Close(ch))]
    BY <1>6 DEF YettyAnswers, YettyCloses
  <2>2. sess' = sess /\ conn' = conn
    BY <1>6 DEF YettyAnswers, YettyCloses, sessVars
  <2>3. Harmless(Relay(ch)) /\ Harmless(Close(ch))
    BY DEF Harmless, Relay, Close
  <2> QED
    BY <1>0, <2>1, <2>2, <2>3, QueueAppended DEF IInv
<1> QED
  BY <1>1, <1>2, <1>3, <1>4, <1>5, <1>6 DEF BridgeStep, BridgeWill

LEMMA UnattachedConn ==
  ASSUME NEW k \in Conn
  PROVE  Unattached(k) \in Conn /\ Unattached(k).att = 0 /\ Unattached(k).link = k.link
BY DEF Unattached, Conn

LEMMA ResetInv ==
  ASSUME Matched(sess, conn), NEW c \in Clients, NEW l \in {"none", "dropped"}, Reset(c, l)
  PROVE  Matched(sess', conn')
<1>1. Replaced(conn, conn', c) /\ conn'[c].att = 0
  BY DEF Reset, Replaced, Matched, Conn, FreeSlot
<1>2. sess' = IF conn[c].att = 0 THEN sess
              ELSE [sess EXCEPT ![conn[c].s] = Detached(@, {conn[c].att})]
  BY DEF Reset
<1> QED
  BY <1>1, <1>2, Leave

LEMMA AttachInv ==
  ASSUME Matched(sess, conn), NEW c \in Clients, HandleAttach(c), Harmless(Head(toDaemon[c]))
  PROVE  Matched(sess', conn')
<1> DEFINE f == Head(toDaemon[c])
           K == conn[c]
           base == IF K.att = 0 THEN sess ELSE [sess EXCEPT ![K.s] = Detached(@, {K.att})]
           L == [conn EXCEPT ![c] = Unattached(@)]
<1>1. f.s \in Sessions /\ conn[c].link \in {"open", "eof"}
  BY DEF HandleAttach, Frame, Harmless, Served
<1>2. \/ UNCHANGED sessVars
      \/ sess' = base /\ conn' = L
      \/ /\ sess[f.s].live
         /\ sess' = [base EXCEPT ![f.s] = Synced(Attached(@, f.v))]
         /\ conn' = [conn EXCEPT ![c].s = f.s, ![c].att = base[f.s].next]
  BY DEF HandleAttach
<1>3. /\ Replaced(conn, L, c) /\ L[c].att = 0 /\ L[c].link = conn[c].link
      /\ conn \in [Clients -> Conn] /\ L \in [Clients -> Conn]
  BY UnattachedConn DEF Replaced, Matched
<1>4. Matched(base, L)
  BY <1>3, Leave
<1>5. base[f.s].live = sess[f.s].live /\ base[f.s].next \in Nat
  <2>1. Sound(sess[f.s]) /\ (K.att # 0 => K.s \in Sessions)
    BY <1>1 DEF Matched
  <2>2. /\ Detached(sess[f.s], {K.att}).live = sess[f.s].live
        /\ Detached(sess[f.s], {K.att}).next = sess[f.s].next
    BY <2>1, DetachedSound
  <2>3. base[f.s] = sess[f.s] \/ base[f.s] = Detached(sess[f.s], {K.att})
    BY <1>1, <2>1 DEF Matched
  <2> QED
    BY <2>1, <2>2, <2>3, SoundIds
<1> HIDE DEF f, K, base, L
<1>6. CASE UNCHANGED sessVars
  BY <1>6 DEF sessVars
<1>7. CASE sess' = base /\ conn' = L
  BY <1>4, <1>7
<1>8. CASE /\ sess[f.s].live
           /\ sess' = [base EXCEPT ![f.s] = Synced(Attached(@, f.v))]
           /\ conn' = [conn EXCEPT ![c].s = f.s, ![c].att = base[f.s].next]
  <2>1. /\ conn' \in [Clients -> Conn] /\ conn'[c].s = f.s /\ conn'[c].att = base[f.s].next
        /\ conn'[c].link = conn[c].link /\ \A d \in Clients \ {c} : conn'[d] = conn[d]
    BY <1>1, <1>3, <1>5, <1>8 DEF Conn
  <2>2. Replaced(L, conn', c)
    BY <1>3, <2>1 DEF Replaced
  <2>3. base[f.s].live
    BY <1>5, <1>8
  <2>4. L[c].att = 0 /\ L[c].link \in {"open", "eof"} /\ conn'[c].link = L[c].link
    BY <1>1, <1>3, <2>1
  <2>5. Matched([base EXCEPT ![f.s] = Synced(Attached(@, f.v))], conn')
    BY <1>1, <1>4, <2>1, <2>2, <2>3, <2>4, Enter
  <2> QED
    BY <1>8, <2>5
<1> QED
  BY <1>2, <1>6, <1>7, <1>8

LEMMA OrderInv ==
  ASSUME Matched(sess, conn), NEW c \in Clients, HandleOrder(c)
  PROVE  Matched(sess', conn')
<1> DEFINE f == Head(toDaemon[c])
           n == conn[c].s
           x == conn[c].att
<1>1. /\ conn' = conn
      /\ \/ sess' = sess
         \/ x # 0 /\ sess' = [sess EXCEPT ![n] = Synced(TakenOver(@, x))]
         \/ x # 0 /\ sess' = [sess EXCEPT ![n] = Synced(Resized(@, x, f.v))]
  BY DEF HandleOrder
<1>2. x # 0 => n \in Sessions /\ x \in Ids(sess[n]) /\ Sound(sess[n])
  BY DEF Matched, At, Conn
<1> HIDE DEF f, n, x
<1>3. x # 0 => Matched([sess EXCEPT ![n] = Synced(TakenOver(@, x))], conn)
  BY <1>2, TakenOverSound, Stay
<1>4. x # 0 => Matched([sess EXCEPT ![n] = Synced(Resized(@, x, f.v))], conn)
  BY <1>2, ResizedSound, Stay
<1> QED
  BY <1>1, <1>3, <1>4

LEMMA DetachInv ==
  ASSUME Matched(sess, conn), NEW c \in Clients, HandleDetach(c)
  PROVE  Matched(sess', conn')
<1>1. /\ sess' = IF conn[c].att = 0 THEN sess
                 ELSE [sess EXCEPT ![conn[c].s] = Detached(@, {conn[c].att})]
      /\ conn' = [conn EXCEPT ![c] = Unattached(@)]
  BY DEF HandleDetach
<1>2. Replaced(conn, conn', c) /\ conn'[c].att = 0
  BY <1>1, UnattachedConn DEF Replaced, Matched
<1> QED
  BY <1>1, <1>2, Leave

LEMMA FramesInv ==
  ASSUME IInv, NEW c \in Clients, RxStep(c) \/ TxFails(c) \/ DropSlow(c)
  PROVE  IInv'
<1>0. Matched(sess, conn) /\ Queues(toDaemon)
  BY DEF IInv
<1>1. CASE HandleAttach(c)
  <2>1. Queues(toDaemon') /\ Harmless(Head(toDaemon[c]))
    BY <1>0, <1>1, FrameTaken DEF HandleAttach
  <2> QED
    BY <1>0, <1>1, <2>1, AttachInv DEF IInv
<1>2. CASE HandleOrder(c)
  BY <1>0, <1>2, FrameTaken, OrderInv DEF IInv, HandleOrder
<1>3. CASE HandleDetach(c)
  BY <1>0, <1>3, FrameTaken, DetachInv DEF IInv, HandleDetach
<1>4. CASE HandleRelay(c) \/ HandleRelayClose(c)
  <2>1. Queues(toDaemon')
    BY <1>0, <1>4, FrameTaken DEF HandleRelay, HandleRelayClose
  <2>2. sess' = sess /\ conn' = conn
    BY <1>4 DEF HandleRelay, HandleRelayClose, sessVars
  <2> QED
    BY <1>0, <2>1, <2>2 DEF IInv
<1>5. CASE RxEnd(c)
  BY <1>0, <1>5, ResetInv DEF IInv, RxEnd
<1>6. CASE DropSlow(c)
  BY <1>0, <1>6, ResetInv DEF IInv, DropSlow
<1>7. CASE TxFails(c)
  <2>1. Queues([toDaemon EXCEPT ![c] = <<>>])
    BY <1>0, EmptyAsks, QueueReplaced
  <2> QED
    BY <1>0, <1>7, <2>1, ResetInv DEF IInv, TxFails
<1> QED
  BY <1>1, <1>2, <1>3, <1>4, <1>5, <1>6, <1>7 DEF RxStep

LEMMA CommandInv ==
  ASSUME IInv, NEW n \in Sessions, Command(n)
  PROVE  IInv'
<1>0. Matched(sess, conn) /\ Queues(toDaemon)
  BY DEF IInv
<1>1. CASE SessionNew(n)
  <2>1. /\ ~sess[n].live /\ sess' = [sess EXCEPT ![n] = NewSession(NewSize)]
        /\ conn' = conn /\ toDaemon' = toDaemon
    BY <1>1 DEF SessionNew
  <2>2. Sound(NewSession(NewSize)) /\ Ids(NewSession(NewSize)) = Ids(sess[n])
    BY <1>0, <2>1, NewSound DEF Matched, Sound
  <2> QED
    BY <1>0, <2>1, <2>2, Stay DEF IInv
<1>2. ASSUME NEW R, Sound(R), sess' = [sess EXCEPT ![n] = R], AllLeave(n), toDaemon' = toDaemon,
             Ids(R) = Ids(sess[n]) \ Attachments(conn, n)
      PROVE  IInv'
  <2>1. conn' = Cleared(conn, n)
    BY <1>0, <1>2 DEF AllLeave, Views, Served, Matched, Cleared
  <2>2. Matched([sess EXCEPT ![n] = R], Cleared(conn, n))
    BY <1>0, <1>2, Clear
  <2> QED
    BY <1>0, <1>2, <2>1, <2>2 DEF IInv
<1>3. CASE SessionDetach(n)
  <2> DEFINE A == {conn[c].att : c \in {d \in Clients : Views(d, n)}}
             R == Detached(sess[n], A)
  <2>1. sess' = [sess EXCEPT ![n] = R] /\ AllLeave(n) /\ toDaemon' = toDaemon
    BY <1>3 DEF SessionDetach
  <2>2. Sound(R) /\ Ids(R) = Ids(sess[n]) \ A
    BY <1>0, DetachedSound DEF Matched
  <2>3. A = Attachments(conn, n)
    BY <1>0 DEF Views, Served, Matched, At, Conn, Attachments
  <2> QED
    BY <1>2, <2>1, <2>2, <2>3
<1>4. CASE SessionEnd(n)
  <2>1. sess' = [sess EXCEPT ![n] = NoPane] /\ AllLeave(n) /\ toDaemon' = toDaemon
    BY <1>4 DEF SessionEnd
  <2>2. \A a \in Ids(sess[n]) : a \in Attachments(conn, n)
    BY <1>0, SoundIds DEF Matched, Attachments
  <2> QED
    BY <1>2, <2>1, <2>2, NoPaneSound
<1> QED
  BY <1>1, <1>3, <1>4 DEF Command

LEMMA PanesInv ==
  ASSUME IInv, NEW s \in Sessions, PaneStep(s) \/ AppCalls(s) \/ AppCloses(s) \/ NextProgram(s)
  PROVE  IInv'
<1>1. sess' = sess /\ conn' = conn /\ toDaemon' = toDaemon
  BY DEF PaneStep, PaneCheck, Forward, PaneClose, AppCalls, AppCloses, NextProgram,
     sessVars
<1> QED
  BY <1>1 DEF IInv

LEMMA StepInv == IInv /\ [Next]_vars => IInv'
<1> SUFFICES ASSUME IInv, [Next]_vars PROVE IInv'
  OBVIOUS
<1>1. CASE UNCHANGED vars
  BY <1>1 DEF IInv, vars
<1> QED
  BY <1>1, BridgeInv, FramesInv, CommandInv, PanesInv DEF Next

LEMMA Inductive == Spec => []IInv
BY InitInv, StepInv, PTL DEF Spec

-----------------------------------------------------------------------------
(* The theorems *)

\* Views(c, s) with id a is At(conn, c, s, a): an attached connection is served.
LEMMA ViewsAt ==
  ASSUME Matched(sess, conn), NEW c \in Clients, NEW s \in Sessions
  PROVE  /\ conn[c].att \in Nat
         /\ Views(c, s) <=> At(conn, c, s, conn[c].att)
BY DEF Matched, Conn, Views, Served, At

LEMMA IInvViews == IInv => ViewsMatch
<1> SUFFICES ASSUME IInv PROVE ViewsMatch
  OBVIOUS
<1>0. Matched(sess, conn)
  BY DEF IInv
<1> SUFFICES ASSUME NEW s \in Sessions
    PROVE  /\ \A a \in Ids(sess[s]) : \E c \in Clients : Views(c, s) /\ conn[c].att = a
           /\ \A c \in Clients : Views(c, s) => conn[c].att \in Ids(sess[s])
           /\ \A c, d \in Clients : (Views(c, s) /\ Views(d, s) /\ conn[c].att = conn[d].att) => c = d
  BY DEF ViewsMatch
<1>1. ASSUME NEW a \in Ids(sess[s]) PROVE \E c \in Clients : Views(c, s) /\ conn[c].att = a
  <2>1. PICK c \in Clients : At(conn, c, s, a)
    BY <1>0 DEF Matched
  <2>2. conn[c].att = a
    BY <2>1 DEF At
  <2> QED
    BY <1>0, <2>1, <2>2, ViewsAt
<1>2. ASSUME NEW c \in Clients, Views(c, s) PROVE conn[c].att \in Ids(sess[s])
  BY <1>0, <1>2, ViewsAt DEF Matched
<1>3. ASSUME NEW c \in Clients, NEW d \in Clients, Views(c, s), Views(d, s), conn[c].att = conn[d].att
      PROVE  c = d
  <2>1. At(conn, c, s, conn[c].att) /\ At(conn, d, s, conn[c].att) /\ conn[c].att \in Nat
    BY <1>0, <1>3, ViewsAt
  <2> QED
    BY <1>0, <2>1 DEF Matched
<1> QED
  BY <1>1, <1>2, <1>3

\* The daemon's two tables agree: every attachment of a session is the view of
\* exactly one connection, and the attachment a connection names exists.
THEOREM TablesAgree == Spec => []ViewsMatch
BY Inductive, IInvViews, PTL

\* Nobody but the controller may resize the pane, whatever the order of
\* takeovers, detaches, attaches, resets and commands.
THEOREM OneController == Spec => []ControllerAlone
<1>1. IInv => ControllerAlone
  BY DEF IInv, Matched, Sound, ControllerAlone
<1> QED
  BY <1>1, Inductive, PTL

\* The pane and its PTY keep the geometry of the controller's view.
THEOREM GeometryFollows == Spec => []CanonicalGeometry
<1>1. IInv => CanonicalGeometry
  BY DEF IInv, Matched, Sound, CanonicalGeometry
<1> QED
  BY <1>1, Inductive, PTL

\* A controller that stays attached stays in control.
Keeps(S, T) == S.ctl # 0 /\ S.ctl \in Ids(T) => T.ctl = S.ctl

LEMMA DetachKeeps ==
  ASSUME NEW S, Sound(S), NEW A
  PROVE  Keeps(S, Detached(S, A))
BY DetachedSound DEF Keeps

LEMMA LeaveKeeps ==
  ASSUME Matched(sess, conn), NEW c \in Clients, NEW s \in Sessions, NEW T,
         T = IF conn[c].att = 0 THEN sess
             ELSE [sess EXCEPT ![conn[c].s] = Detached(@, {conn[c].att})]
  PROVE  Keeps(sess[s], T[s])
<1>1. Sound(sess[s]) /\ (T[s] = sess[s] \/ T[s] = Detached(sess[s], {conn[c].att}))
  BY DEF Matched
<1> QED
  BY <1>1, DetachKeeps DEF Keeps

LEMMA AttachKeeps ==
  ASSUME Matched(sess, conn), NEW c \in Clients, HandleAttach(c), Harmless(Head(toDaemon[c])),
         NEW s \in Sessions
  PROVE  Keeps(sess[s], sess'[s])
<1> DEFINE f == Head(toDaemon[c])
           K == conn[c]
           base == IF K.att = 0 THEN sess ELSE [sess EXCEPT ![K.s] = Detached(@, {K.att})]
<1>1. \/ sess' = sess \/ sess' = base
      \/ sess[f.s].live /\ sess' = [base EXCEPT ![f.s] = Synced(Attached(@, f.v))]
  BY SMTT(40) DEF HandleAttach, sessVars
<1>2. Sound(sess[s]) /\ Keeps(sess[s], base[s])
  BY LeaveKeeps DEF Matched
<1>3. /\ base \in [Sessions -> {base[t] : t \in Sessions}]
      /\ base[s] = sess[s] \/ base[s] = Detached(sess[s], {K.att})
  BY DEF Matched
<1>4. /\ Sound(base[s]) /\ base[s].live = sess[s].live /\ base[s].next = sess[s].next
      /\ base[s].ctl = sess[s].ctl \/ base[s].ctl = 0
  BY <1>2, <1>3, DetachedSound
<1> HIDE DEF f, K, base
<1>5. CASE sess' = sess \/ sess' = base
  BY <1>2, <1>5 DEF Keeps
<1>6. CASE sess[f.s].live /\ sess' = [base EXCEPT ![f.s] = Synced(Attached(@, f.v))]
  <2> DEFINE T == Synced(Attached(base[s], f.v))
  <2>1. sess'[s] = base[s] \/ (s = f.s /\ sess'[s] = T)
    BY <1>3, <1>6
  <2>2. ASSUME s = f.s, sess[s].ctl # 0, sess[s].ctl \in Ids(T) PROVE T.ctl = sess[s].ctl
    <3>1. /\ Ids(T) = Ids(base[s]) \cup {base[s].next}
          /\ base[s].ctl # 0 => T.ctl = base[s].ctl
      BY <1>4, <1>6, <2>2, AttachedSound
    <3>2. sess[s].ctl \in Ids(base[s])
      BY <1>2, <1>4, <2>2, <3>1, SoundIds DEF Sound
    <3>3. base[s].ctl = sess[s].ctl
      BY <1>2, <2>2, <3>2 DEF Keeps
    <3> QED
      BY <2>2, <3>1, <3>3
  <2> QED
    BY <1>2, <2>1, <2>2 DEF Keeps
<1> QED
  BY <1>1, <1>5, <1>6

LEMMA CommandKeeps ==
  ASSUME Matched(sess, conn), NEW n \in Sessions, Command(n), NEW s \in Sessions
  PROVE  Keeps(sess[s], sess'[s])
<1>1. Sound(sess[s])
  BY DEF Matched
<1>2. CASE SessionNew(n)
  <2>1. sess'[s] = sess[s] \/ sess'[s] = NewSession(NewSize)
    BY <1>2 DEF SessionNew, Matched
  <2> QED
    BY <2>1, NewSound DEF Keeps
<1>3. CASE SessionDetach(n)
  <2> DEFINE A == {conn[c].att : c \in {d \in Clients : Views(d, n)}}
  <2>1. sess'[s] = sess[s] \/ sess'[s] = Detached(sess[s], A)
    BY <1>3 DEF SessionDetach, Matched
  <2> QED
    BY <1>1, <2>1, DetachKeeps DEF Keeps
<1>4. CASE SessionEnd(n)
  <2>1. sess'[s] = sess[s] \/ sess'[s] = NoPane
    BY <1>4 DEF SessionEnd, Matched
  <2> QED
    BY <2>1, NoPaneSound DEF Keeps
<1> QED
  BY <1>2, <1>3, <1>4 DEF Command

Takeover(c, s) ==
  Frame(c, "takeover") /\ Took(c) /\ conn[c].s = s /\ conn[c].att = sess'[s].ctl

LEMMA OrderKeeps ==
  ASSUME Matched(sess, conn), NEW c \in Clients, HandleOrder(c), NEW s \in Sessions
  PROVE  Keeps(sess[s], sess'[s]) \/ Takeover(c, s)
<1> DEFINE f == Head(toDaemon[c])
           n == conn[c].s
           x == conn[c].att
<1>1. /\ Frame(c, f.t) /\ Took(c)
      /\ \/ sess' = sess
         \/ x # 0 /\ f.t = "takeover" /\ sess' = [sess EXCEPT ![n] = Synced(TakenOver(@, x))]
         \/ x # 0 /\ sess' = [sess EXCEPT ![n] = Synced(Resized(@, x, f.v))]
  BY DEF HandleOrder, Frame
<1>2. x # 0 => n \in Sessions /\ x \in Ids(sess[n]) /\ Sound(sess[n])
  BY DEF Matched, At, Conn
<1>3. CASE sess'[s] = sess[s]
  BY <1>3 DEF Keeps
<1>4. CASE x # 0 /\ f.t = "takeover" /\ s = n /\ sess'[s] = Synced(TakenOver(sess[s], x))
  <2>1. sess'[s].ctl = x
    BY <1>2, <1>4, TakenOverSound
  <2> QED
    BY <1>1, <1>4, <2>1 DEF Takeover
<1>5. CASE x # 0 /\ s = n /\ sess'[s] = Synced(Resized(sess[s], x, f.v))
  BY <1>2, <1>5, ResizedSound DEF Keeps
<1>6. sess \in [Sessions -> {sess[t] : t \in Sessions}]
  BY DEF Matched
<1> HIDE DEF f, n, x
<1> QED
  BY <1>1, <1>2, <1>3, <1>4, <1>5, <1>6

LEMMA StepKeeps ==
  ASSUME IInv, [Next]_vars, NEW s \in Sessions
  PROVE  Keeps(sess[s], sess'[s]) \/ \E c \in Clients : Takeover(c, s)
<1>0. Matched(sess, conn) /\ Queues(toDaemon)
  BY DEF IInv
<1>1. CASE sess' = sess
  BY <1>1 DEF Keeps
<1>2. ASSUME NEW c \in Clients, HandleAttach(c) PROVE Keeps(sess[s], sess'[s])
  <2>1. Harmless(Head(toDaemon[c]))
    BY <1>0, <1>2, FrameTaken DEF HandleAttach
  <2> QED
    BY <1>0, <1>2, <2>1, AttachKeeps
<1>3. ASSUME NEW c \in Clients, HandleDetach(c) \/ RxEnd(c) \/ TxFails(c) \/ DropSlow(c)
      PROVE  Keeps(sess[s], sess'[s])
  <2>1. sess' = IF conn[c].att = 0 THEN sess
                ELSE [sess EXCEPT ![conn[c].s] = Detached(@, {conn[c].att})]
    BY <1>3 DEF HandleDetach, RxEnd, TxFails, DropSlow, Reset
  <2> QED
    BY <1>0, <2>1, LeaveKeeps
<1>4. ASSUME NEW c \in Clients, BridgeStep(c) \/ BridgeWill(c) \/ HandleRelay(c) \/ HandleRelayClose(c)
      PROVE  sess' = sess
  BY <1>4 DEF BridgeStep, BridgeWill, HandleRelay, HandleRelayClose, BridgeGone, Start, Order, Quit,
              Crash, ReadExit, SeesEnd, ReadRelay, ReadClose, YettyAnswers, YettyConfirms,
              YettyCloses, sessVars
<1>5. ASSUME NEW n \in Sessions, PaneStep(n) \/ AppCalls(n) \/ AppCloses(n) \/ NextProgram(n)
      PROVE  sess' = sess
  BY <1>5 DEF PaneStep, PaneCheck, Forward, PaneClose, AppCalls, AppCloses, NextProgram,
     sessVars
<1>6. CASE UNCHANGED vars
  BY <1>1, <1>6 DEF vars
<1>7. CASE \E c \in Clients : BridgeStep(c) \/ BridgeWill(c) \/ RxStep(c) \/ TxFails(c) \/ DropSlow(c)
  BY <1>0, <1>1, <1>2, <1>3, <1>4, <1>7, OrderKeeps DEF RxStep
<1>8. CASE \E n \in Sessions : Command(n) \/ PaneStep(n) \/ AppCalls(n) \/ AppCloses(n) \/ NextProgram(n)
  BY <1>0, <1>1, <1>5, <1>8, CommandKeeps
<1> QED
  BY <1>6, <1>7, <1>8 DEF Next

\* A controller that is still attached loses control only to its successor's
\* TAKEOVER; no attach, resize, detach, reset or command of another takes it.
THEOREM ControlStays == Spec => ControlIsNotStolen
<1> DEFINE A == \A s \in Sessions :
                  (sess[s].ctl # 0 /\ sess'[s].ctl # sess[s].ctl /\ sess[s].ctl \in Ids(sess'[s])) =>
                    \E c \in Clients : /\ Frame(c, "takeover") /\ Took(c)
                                       /\ conn[c].s = s /\ conn[c].att = sess'[s].ctl
<1>1. IInv /\ [Next]_vars => A
  <2> SUFFICES ASSUME IInv, [Next]_vars, NEW s \in Sessions,
                      sess[s].ctl # 0, sess'[s].ctl # sess[s].ctl, sess[s].ctl \in Ids(sess'[s])
               PROVE  \E c \in Clients : /\ Frame(c, "takeover") /\ Took(c)
                                         /\ conn[c].s = s /\ conn[c].att = sess'[s].ctl
    OBVIOUS
  <2> QED
    BY StepKeeps DEF Keeps, Takeover
<1>2. IInv /\ [Next]_vars => [A]_vars
  BY <1>1
<1> QED
  BY <1>2, Inductive, PTL DEF Spec, ControlIsNotStolen

=============================================================================
