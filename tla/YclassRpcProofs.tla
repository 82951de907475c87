--------------------------- MODULE YclassRpcProofs ---------------------------
(***************************************************************************)
(* Theorems about YclassRpc, for every frame cap, message size, set of     *)
(* bodies and bound: the types; that requests are dispatched in order      *)
(* (DispatchedInOrder); that replies reach their own calls (OwnReplies);   *)
(* and that the completion count is a promise (CompletedIsApplied).        *)
(*                                                                         *)
(* A call that is answered has an ordinal: it is the n-th of those          *)
(* (Ordinal).  The requests under way name consecutive calls, the replies  *)
(* under way have consecutive ordinals, and one number says how many       *)
(* replies the client has taken: the books of pending, completed and       *)
(* abandoned calls are kept against it (Paired).                           *)
(***************************************************************************)
EXTENDS YclassRpc, SequenceTheorems, FiniteSetTheorems, WellFoundedInduction, TLAPS

-----------------------------------------------------------------------------
(* Types and the inductive invariant.                                       *)

Op == {"CALL", "ONEWAY", "SYNC"}
CallRecord == [op : Op, size : Sizes, ticket : Nat]
RequestUnit == [call : Calls, part : 0 .. FRAME_MAX]
ReplyUnit == [call : Calls, part : {0, 1}, answer : Answers]
Client ==
  [inbound : Seq(ReplyUnit), pending : Seq(Calls), completed : Nat,
   sink : Seq([name : Calls, reply : Calls])]
Host == [inbuf : Seq(RequestUnit), applied : Seq(Calls), down : Seq(ReplyUnit)]

TypeInv ==
  /\ calls \in Seq(CallRecord) /\ Len(calls) <= MaxCalls
  /\ pending \in Seq(Calls) /\ waiting \in {0} \union Calls
  /\ completed \in Nat
  /\ garbled \in BOOLEAN /\ gone \in BOOLEAN /\ closed \in BOOLEAN /\ dead \in BOOLEAN
  /\ up \in Seq(RequestUnit) /\ inbuf \in Seq(RequestUnit)
  /\ down \in Seq(ReplyUnit) /\ inbound \in Seq(ReplyUnit)
  /\ applied \in Seq(Calls) /\ abandoned \in SUBSET Calls
  /\ reads \in Seq([call : Calls, reply : Calls])
  /\ sink \in Seq([name : Calls, reply : Calls])
  /\ faults \in 0 .. MaxFaults

(* Requests: what the host has of the next one, and what follows from unit  *)
(* j + 1 of s on.                                                          *)
Last(s) == s[Len(s)]
NextUnit(cs, u) ==
  IF u.part = cs[u.call].size THEN [call |-> u.call + 1, part |-> 0]
                              ELSE [call |-> u.call, part |-> u.part + 1]
Expected(h) == [call |-> Len(h.applied) + 1, part |-> Len(h.inbuf)]
Begun(cs, h) ==
  /\ Len(h.applied) <= Len(cs) /\ \A i \in 1 .. Len(h.applied) : h.applied[i] = i
  /\ \A i \in 1 .. Len(h.inbuf) : h.inbuf[i] = [call |-> Len(h.applied) + 1, part |-> i - 1]
Asked(cs, e, s, j) ==
  /\ j < Len(s) => s[j + 1] = e
  /\ \A i \in 1 .. Len(s) : j < i => s[i].call \in 1 .. Len(cs)
  /\ \A i \in 1 .. Len(s) : j < i /\ i < Len(s) => s[i + 1] = NextUnit(cs, s[i])
AllAsked(cs, e, s, j) ==
  [call |-> Len(cs) + 1, part |-> 0] = IF j < Len(s) THEN NextUnit(cs, Last(s)) ELSE e

(* Replies: r have been taken; what follows from unit j + 1 of s on, when   *)
(* the host has dispatched a calls.                                        *)
Due(cs, k) == k \in 1 .. Len(cs) /\ cs[k].op # "ONEWAY"
Ordinal(cs, k) == Cardinality({j \in 1 .. k : cs[j].op # "ONEWAY"})
Opens(cs, r, u) == u.part = 0 /\ Ordinal(cs, u.call) = r + 1
Payload(u) == [call |-> u.call, part |-> 1, answer |-> u.answer]
Behind(cs, u, v) ==
  IF EndsReply(u) THEN Opens(cs, Ordinal(cs, u.call), v) ELSE v = Payload(u)
Sound(cs, a, u) ==
  Due(cs, u.call) /\ u.call <= a /\ (u.part = 1 => u.answer # "empty")
Halved(cs, r, a, inb) ==
  /\ Len(inb) \in {0, 1}
  /\ Len(inb) = 1 => Opens(cs, r, inb[1]) /\ Sound(cs, a, inb[1]) /\ ~EndsReply(inb[1])
Replied(cs, r, a, inb, s, j) ==
  /\ j < Len(s) => IF Len(inb) = 0 THEN Opens(cs, r, s[j + 1]) ELSE s[j + 1] = Payload(inb[1])
  /\ \A i \in 1 .. Len(s) : j < i => Sound(cs, a, s[i])
  /\ \A i \in 1 .. Len(s) : j < i /\ i < Len(s) => Behind(cs, s[i], s[i + 1])
AllReplied(cs, r, a, inb, s, j) ==
  IF j < Len(s) THEN EndsReply(Last(s)) /\ Ordinal(cs, Last(s).call) = Ordinal(cs, a)
                ELSE Len(inb) = 0 /\ r = Ordinal(cs, a)

(* The books of the client c with w in a round-trip and the calls of ab     *)
(* abandoned, r replies taken.                                             *)
Promised(cs, r, ab, n) ==
  \A k \in 1 .. Len(cs) : cs[k].op = "CALL" /\ k \notin ab =>
    n + Ordinal(cs, k) <= r + cs[k].ticket + Cardinality(ab)
Blocked(w) == IF w = 0 THEN 0 ELSE 1
Covered(cs, r, ab, w, p) ==
  Ordinal(cs, Len(cs)) <= r + Len(p) + Blocked(w) + Cardinality(ab)
Lined(cs, r, w, p) ==
  /\ \A i \in 1 .. Len(p) : Due(cs, p[i]) /\ Ordinal(cs, p[i]) = r + i
  /\ w # 0 => Due(cs, w) /\ Ordinal(cs, w) = r + 1
  /\ Ordinal(cs, Len(cs)) = r + Len(p) + Blocked(w)
Matched(rs, sk) ==
  /\ \A i \in 1 .. Len(rs) : rs[i].reply = rs[i].call
  /\ \A i \in 1 .. Len(sk) : sk[i].reply = sk[i].name

(* The invariant. *)
Paired(r) ==
  /\ r <= Ordinal(calls, Len(applied)) /\ completed <= r
  /\ Promised(calls, r, abandoned, completed)
  /\ ~garbled /\ ~gone =>
       /\ Covered(calls, r, abandoned, waiting, pending)
       /\ Halved(calls, r, Len(applied), inbound)
       /\ Replied(calls, r, Len(applied), inbound, down, 0)
       /\ ~dead => AllReplied(calls, r, Len(applied), inbound, down, 0)
       /\ abandoned = {} => Lined(calls, r, waiting, pending)
Ordered ==
  /\ Len(applied) <= Len(calls) /\ \A i \in 1 .. Len(applied) : applied[i] = i
  /\ ~dead =>
       LET h == [inbuf |-> inbuf, applied |-> applied]
       IN  /\ Begun(calls, h) /\ Asked(calls, Expected(h), up, 0)
           /\ ~gone => AllAsked(calls, Expected(h), up, 0)
Named ==
  /\ abandoned \subseteq 1 .. Len(calls)
  /\ waiting <= Len(calls) /\ waiting \notin abandoned
  /\ waiting # 0 => pending = <<>> /\ ~garbled /\ ~gone
  /\ abandoned = {} => Matched(reads, sink)
Replies == (\E r \in Nat : Paired(r)) /\ Ordered /\ Named

-----------------------------------------------------------------------------
(* Recursive functions.                                                     *)

(* A set of naturals has a least element. *)
LEMMA LeastOf ==
  ASSUME NEW T, T \subseteq Nat, T # {}
  PROVE  \E x \in T : \A y \in T : ~(y < x)
<1>1. IsWellFoundedOn(OpToRel(<, Nat), Nat)
  BY NatLessThanWellFounded
<1>2. PICK x \in T : \A y \in T : ~(<<y, x>> \in OpToRel(<, Nat))
  BY <1>1, WFMin
<1>3. \A y \in T : <<y, x>> \in OpToRel(<, Nat) <=> y < x
  BY DEF OpToRel
<1> QED
  BY <1>2, <1>3

(* A set that holds 0, and with every number below n the next one, holds 0 to n. *)
LEMMA CountUp ==
  ASSUME NEW n \in Nat, NEW G, 0 \in G, \A k \in 0 .. n : (k \in G /\ k < n) => k + 1 \in G
  PROVE  \A k \in 0 .. n : k \in G
<1> SUFFICES ASSUME NEW j \in 0 .. n, j \notin G PROVE FALSE
  OBVIOUS
<1> DEFINE T == {i \in 0 .. n : i \notin G}
<1>1. T \subseteq Nat /\ j \in T
  OBVIOUS
<1>2. PICK x \in T : \A y \in T : ~(y < x)
  <2>1. T # {}
    BY <1>1
  <2> HIDE DEF T
  <2> QED
    BY <1>1, <2>1, LeastOf
<1>3. x \in 0 .. n /\ x \notin G /\ x # 0
  BY <1>2
<1>4. x - 1 \in 0 .. n /\ x - 1 < x /\ x - 1 < n /\ (x - 1) + 1 = x
  BY <1>3
<1>5. x - 1 \in G
  BY <1>2, <1>4
<1> QED
  BY <1>3, <1>4, <1>5

(* n steps from x exist: step k is F[k]. *)
Steps(S, n, x, F, g) ==
  /\ g \in [0 .. n -> S] /\ g[0] = x
  /\ \A k \in 1 .. n : g[k] = F[k][g[k - 1]]

LEMMA StepsExist ==
  ASSUME NEW S, NEW n \in Nat, NEW x \in S, NEW F \in [1 .. n -> [S -> S]]
  PROVE  \E g : Steps(S, n, x, F, g)
<1> DEFINE Till(g, m) == /\ g \in [0 .. m -> S] /\ g[0] = x
                         /\ \A k \in 1 .. m : g[k] = F[k][g[k - 1]]
           G == {m \in 0 .. n : \E g : Till(g, m)}
<1>1. 0 \in G
  <2>1. Till([k \in 0 .. 0 |-> x], 0)
    OBVIOUS
  <2> HIDE DEF Till
  <2>2. \E g : Till(g, 0)
    BY <2>1
  <2>3. 0 \in 0 .. n
    OBVIOUS
  <2> QED
    BY <2>2, <2>3
<1>2. ASSUME NEW m \in 0 .. n, m \in G, m < n PROVE m + 1 \in G
  <2>1. PICK g : Till(g, m)
    BY <1>2
  <2>2. m + 1 \in 1 .. n /\ m + 1 \in 0 .. n /\ m \in Nat /\ m \in 0 .. m
    BY <1>2
  <2>3. PICK y \in S : y = F[m + 1][g[m]]
    BY <2>1, <2>2
  <2> DEFINE f == [k \in 0 .. m + 1 |-> IF k = m + 1 THEN y ELSE g[k]]
  <2>4. f \in [0 .. m + 1 -> S] /\ f[0] = x
    BY <2>1, <2>2
  <2>5. \A k \in 1 .. m + 1 : f[k] = F[k][f[k - 1]]
    <3> SUFFICES ASSUME NEW k \in 1 .. m + 1 PROVE f[k] = F[k][f[k - 1]]
      OBVIOUS
    <3>1. CASE k = m + 1
      BY <2>2, <2>3, <3>1
    <3>2. CASE k # m + 1
      <4>1. k \in 1 .. m /\ k \in 0 .. m + 1 /\ k - 1 \in 0 .. m + 1 /\ k - 1 # m + 1
        BY <2>2, <3>2
      <4>2. g[k] = F[k][g[k - 1]]
        BY <2>1, <4>1
      <4> QED
        BY <3>2, <4>1, <4>2
    <3> QED
      BY <3>1, <3>2
  <2> HIDE DEF f
  <2>6. Till(f, m + 1)
    BY <2>4, <2>5
  <2> HIDE DEF Till
  <2> QED
    BY <2>2, <2>6
<1> HIDE DEF G
<1>3. n \in G
  <2>1. n \in 0 .. n
    OBVIOUS
  <2> QED
    BY <1>1, <1>2, <2>1, CountUp
<1>4. PICK g : Till(g, n)
  BY <1>3 DEF G
<1>5. Steps(S, n, x, F, g)
  BY <1>4 DEF Steps
<1> QED
  BY <1>5

-----------------------------------------------------------------------------
(* Sequences.                                                               *)

Grown(s, t, x) ==
  /\ Len(s) \in Nat /\ Len(t) = Len(s) + 1 /\ t[Len(s) + 1] = x
  /\ \A i \in 1 .. Len(s) : t[i] = s[i]
Shifted(s, t, n) ==
  /\ Len(t) \in Nat /\ Len(s) = Len(t) + n
  /\ \A i \in 1 .. Len(t) : t[i] = s[i + n]
Starting(s, t, m) ==
  /\ Len(t) = m
  /\ \A i \in 1 .. m : t[i] = s[i]

LEMMA GrownIs ==
  ASSUME NEW S, NEW s \in Seq(S), NEW x \in S
  PROVE  Append(s, x) \in Seq(S) /\ Grown(s, Append(s, x), x)
BY AppendProperties, LenProperties DEF Grown

LEMMA ShiftedIs ==
  ASSUME NEW S, NEW s \in Seq(S), NEW n \in 0 .. Len(s)
  PROVE  Drop(s, n) \in Seq(S) /\ Shifted(s, Drop(s, n), n)
<1> PICK k : k = Len(s)
  OBVIOUS
<1>1. k \in Nat /\ n \in Nat /\ n <= k /\ k - n \in Nat
  BY LenProperties
<1>2. \A i \in 1 .. k : s[i] \in S
  BY ElementOfSeq
<1>3. n + 1 \in Int /\ k \in Int /\ \A i \in n + 1 .. k : s[i] \in S
  BY <1>1, <1>2
<1> PICK t : t = Drop(s, n)
  OBVIOUS
<1>4. /\ t \in Seq(S) /\ Len(t) = IF n + 1 <= k THEN k - (n + 1) + 1 ELSE 0
      /\ \A i \in 1 .. k - (n + 1) + 1 : t[i] = s[n + 1 + i - 1]
  BY <1>3, SubSeqProperties DEF Drop
<1>5. Len(t) = k - n
  BY <1>1, <1>4
<1>6. \A i \in 1 .. k - n : i \in 1 .. k - (n + 1) + 1 /\ n + 1 + i - 1 = i + n
  BY <1>1
<1>7. \A i \in 1 .. k - n : t[i] = s[i + n]
  BY <1>4, <1>6
<1> QED
  BY <1>1, <1>4, <1>5, <1>7 DEF Shifted

LEMMA StartingIs ==
  ASSUME NEW S, NEW s \in Seq(S), NEW m \in 0 .. Len(s)
  PROVE  Take(s, m) \in Seq(S) /\ Starting(s, Take(s, m), m)
<1>1. /\ Len(s) \in Nat /\ m \in Nat /\ m \in Int /\ 1 \in Int /\ m <= Len(s)
      /\ \A i \in 1 .. m : s[i] \in S
  BY LenProperties, ElementOfSeq
<1> PICK t : t = Take(s, m)
  OBVIOUS
<1>2. /\ t \in Seq(S) /\ Len(t) = IF 1 <= m THEN m - 1 + 1 ELSE 0
      /\ \A i \in 1 .. m - 1 + 1 : t[i] = s[1 + i - 1]
  BY <1>1, SubSeqProperties DEF Take
<1>3. \A i \in 1 .. m : i \in 1 .. m - 1 + 1 /\ 1 + i - 1 = i
  BY <1>1
<1>4. Len(t) = m
  BY <1>1, <1>2
<1>5. \A i \in 1 .. m : t[i] = s[i]
  BY <1>2, <1>3
<1> QED
  BY <1>2, <1>4, <1>5 DEF Starting

LEMMA TailShifts ==
  ASSUME NEW S, NEW s \in Seq(S), s # <<>>
  PROVE  /\ Tail(s) \in Seq(S) /\ Shifted(s, Tail(s), 1)
         /\ Head(s) = s[1] /\ Head(s) \in S /\ 1 \in 1 .. Len(s)
<1>1. Len(s) \in Nat /\ Len(s) # 0
  BY EmptySeq, LenProperties
<1>2. Tail(s) \in Seq(S) /\ Len(Tail(s)) = Len(s) - 1 /\ \A i \in 1 .. Len(Tail(s)) : Tail(s)[i] = s[i + 1]
  BY HeadTailProperties
<1>3. Head(s) = s[1] /\ Head(s) \in S
  BY HeadTailProperties
<1> QED
  BY <1>1, <1>2, <1>3 DEF Shifted

-----------------------------------------------------------------------------
(* Ordinals of the calls that are answered.                                 *)

LEMMA OrdinalSet ==
  ASSUME NEW cs, NEW k \in Nat
  PROVE  IsFiniteSet({j \in 1 .. k : cs[j].op # "ONEWAY"})
<1>1. IsFiniteSet(1 .. k)
  BY FS_Interval
<1> QED
  BY <1>1, FS_Subset

LEMMA OrdinalType ==
  ASSUME NEW cs, NEW k \in Nat
  PROVE  Ordinal(cs, k) \in Nat /\ Ordinal(cs, 0) = 0
<1>1. Ordinal(cs, k) \in Nat
  BY OrdinalSet, FS_CardinalityType DEF Ordinal
<1>2. {j \in 1 .. 0 : cs[j].op # "ONEWAY"} = {}
  OBVIOUS
<1> QED
  BY <1>1, <1>2, FS_EmptySet DEF Ordinal

LEMMA OrdinalNext ==
  ASSUME NEW cs, NEW k \in Nat
  PROVE  Ordinal(cs, k + 1) = IF cs[k + 1].op = "ONEWAY" THEN Ordinal(cs, k)
                                                        ELSE Ordinal(cs, k) + 1
<1> DEFINE A == {j \in 1 .. k : cs[j].op # "ONEWAY"}
           B == {j \in 1 .. k + 1 : cs[j].op # "ONEWAY"}
<1>1. \A j \in 1 .. k + 1 : j \in 1 .. k \/ j = k + 1
  OBVIOUS
<1>2. \A j \in 1 .. k : j \in 1 .. k + 1 /\ j # k + 1
  OBVIOUS
<1>3. CASE cs[k + 1].op = "ONEWAY"
  <2>1. B = A
    BY <1>1, <1>2, <1>3
  <2> QED
    BY <1>3, <2>1 DEF Ordinal
<1>4. CASE cs[k + 1].op # "ONEWAY"
  <2>1. k + 1 \in 1 .. k + 1 /\ k + 1 \notin A
    OBVIOUS
  <2>2. B = A \cup {k + 1}
    BY <1>1, <1>2, <1>4, <2>1
  <2>3. IsFiniteSet(A)
    BY OrdinalSet
  <2> HIDE DEF A
  <2>4. Cardinality(A \cup {k + 1}) = Cardinality(A) + 1
    BY <2>1, <2>3, FS_AddElement
  <2>5. Cardinality(B) = Cardinality(A) + 1
    BY <2>2, <2>4
  <2> QED
    BY <1>4, <2>5 DEF A, Ordinal
<1> QED
  BY <1>3, <1>4

LEMMA OrdinalGrows ==
  ASSUME NEW cs, NEW k \in Nat, NEW j \in 0 .. k
  PROVE  Ordinal(cs, j) <= Ordinal(cs, k)
<1>1. {i \in 1 .. j : cs[i].op # "ONEWAY"} \subseteq {i \in 1 .. k : cs[i].op # "ONEWAY"}
  <2>1. \A i \in 1 .. j : i \in 1 .. k
    OBVIOUS
  <2> QED
    BY <2>1
<1> DEFINE A == {i \in 1 .. j : cs[i].op # "ONEWAY"}
           B == {i \in 1 .. k : cs[i].op # "ONEWAY"}
<1>2. IsFiniteSet(B)
  BY OrdinalSet
<1>3. A \in SUBSET B
  BY <1>1
<1> HIDE DEF A, B
<1>4. Cardinality(A) <= Cardinality(B)
  BY <1>2, <1>3, FS_Subset
<1> QED
  BY <1>4 DEF A, B, Ordinal

(* A call that is answered has a higher ordinal than every call before it. *)
LEMMA OrdinalRises ==
  ASSUME NEW cs, NEW k \in Nat \ {0}, cs[k].op # "ONEWAY", NEW j \in 0 .. k - 1
  PROVE  Ordinal(cs, j) < Ordinal(cs, k)
<1>1. k - 1 \in Nat /\ (k - 1) + 1 = k /\ k \in Nat /\ j \in Nat
  OBVIOUS
<1>2. Ordinal(cs, k) = Ordinal(cs, k - 1) + 1
  BY <1>1, OrdinalNext
<1>3. Ordinal(cs, j) <= Ordinal(cs, k - 1)
  BY <1>1, OrdinalGrows
<1>4. Ordinal(cs, j) \in Nat /\ Ordinal(cs, k - 1) \in Nat
  BY <1>1, OrdinalType
<1> QED
  BY <1>2, <1>3, <1>4

LEMMA OrdinalNames ==
  ASSUME NEW cs, NEW j, NEW k, Len(cs) \in Nat, Due(cs, j), Due(cs, k),
         Ordinal(cs, j) = Ordinal(cs, k)
  PROVE  j = k
<1>1. j \in Nat \ {0} /\ k \in Nat \ {0} /\ cs[j].op # "ONEWAY" /\ cs[k].op # "ONEWAY"
  BY DEF Due
<1>2. Ordinal(cs, j) \in Nat /\ Ordinal(cs, k) \in Nat
  BY <1>1, OrdinalType
<1>3. CASE j < k
  <2>1. j \in 0 .. k - 1
    BY <1>1, <1>3
  <2>2. Ordinal(cs, j) < Ordinal(cs, k)
    BY <1>1, <2>1, OrdinalRises
  <2> QED
    BY <1>2, <2>2
<1>4. CASE k < j
  <2>1. k \in 0 .. j - 1
    BY <1>1, <1>4
  <2>2. Ordinal(cs, k) < Ordinal(cs, j)
    BY <1>1, <2>1, OrdinalRises
  <2> QED
    BY <1>2, <2>2
<1> QED
  BY <1>1, <1>3, <1>4

(* A call written later changes no ordinal. *)
LEMMA OrdinalKept ==
  ASSUME NEW cs, NEW cs2, NEW c, Grown(cs, cs2, c), NEW k \in 0 .. Len(cs)
  PROVE  Ordinal(cs2, k) = Ordinal(cs, k)
<1>1. \A j \in 1 .. k : cs2[j] = cs[j]
  BY DEF Grown
<1>2. {j \in 1 .. k : cs2[j].op # "ONEWAY"} = {j \in 1 .. k : cs[j].op # "ONEWAY"}
  BY <1>1
<1> QED
  BY <1>2 DEF Ordinal

LEMMA OrdinalCounts ==
  ASSUME NEW cs, NEW k \in Nat
  PROVE  Ordinal(cs, k) <= k
<1>1. IsFiniteSet(1 .. k) /\ Cardinality(1 .. k) = k
  BY FS_Interval
<1>2. {j \in 1 .. k : cs[j].op # "ONEWAY"} \in SUBSET (1 .. k)
  OBVIOUS
<1>3. Cardinality({j \in 1 .. k : cs[j].op # "ONEWAY"}) <= Cardinality(1 .. k)
  BY <1>1, <1>2, FS_Subset
<1> QED
  BY <1>1, <1>3 DEF Ordinal

-----------------------------------------------------------------------------
(* The client takes one unit of a reply.                                    *)

LEMMA UnitOf ==
  ASSUME NEW s \in Seq(ReplyUnit)
  PROVE  /\ Len(s) \in Nat
         /\ \A i \in 1 .. Len(s) : /\ s[i] \in ReplyUnit /\ s[i].call \in Nat /\ s[i].part \in {0, 1}
                                   /\ s[i] = [call |-> s[i].call, part |-> s[i].part,
                                              answer |-> s[i].answer]
<1>1. Len(s) \in Nat /\ \A i \in 1 .. Len(s) : s[i] \in ReplyUnit
  BY LenProperties, ElementOfSeq
<1>2. ASSUME NEW u \in ReplyUnit
      PROVE  /\ u.call \in Nat /\ u.part \in {0, 1}
             /\ u = [call |-> u.call, part |-> u.part, answer |-> u.answer]
  BY RpcAssumption DEF ReplyUnit, Calls
<1> QED
  BY <1>1, <1>2

(* Taking unit u = s[j + 1] ends a reply, or begins one. *)
Moves(cs, r, a, inb, s, j, u) ==
  /\ Sound(cs, a, u) /\ u \in ReplyUnit
  /\ ~EndsReply(u) =>
       /\ Len(inb) = 0
       /\ \A t : Len(t) = 1 /\ t[1] = u =>
            /\ Halved(cs, r, a, t) /\ Replied(cs, r, a, t, s, j + 1)
            /\ AllReplied(cs, r, a, inb, s, j) => AllReplied(cs, r, a, t, s, j + 1)
  /\ EndsReply(u) =>
       /\ Ordinal(cs, u.call) = r + 1
       /\ \A t : Len(t) = 0 =>
            /\ Halved(cs, r + 1, a, t) /\ Replied(cs, r + 1, a, t, s, j + 1)
            /\ AllReplied(cs, r, a, inb, s, j) => AllReplied(cs, r + 1, a, t, s, j + 1)

LEMMA UnitTaken ==
  ASSUME NEW cs, NEW r \in Nat, NEW a \in Nat, NEW inb,
         NEW s \in Seq(ReplyUnit), NEW j \in Nat, j < Len(s), NEW u, u = s[j + 1],
         Halved(cs, r, a, inb), Replied(cs, r, a, inb, s, j)
  PROVE  Moves(cs, r, a, inb, s, j, u)
<1>1. Len(s) \in Nat /\ j + 1 \in 1 .. Len(s) /\ j < j + 1 /\ j + 1 \in Nat /\ r + 1 \in Nat
  BY UnitOf
<1>2. u \in ReplyUnit /\ u.call \in Nat /\ u.part \in {0, 1}
      /\ u = [call |-> u.call, part |-> u.part, answer |-> u.answer]
  BY <1>1, UnitOf
<1>3. Sound(cs, a, u)
  BY <1>1 DEF Replied
<1>4. \A i \in 1 .. Len(s) : j + 1 < i => j < i
  BY <1>1
<1>5. /\ \A i \in 1 .. Len(s) : j + 1 < i => Sound(cs, a, s[i])
      /\ \A i \in 1 .. Len(s) : j + 1 < i /\ i < Len(s) => Behind(cs, s[i], s[i + 1])
  BY <1>4 DEF Replied
<1>6. j + 1 < Len(s) => Behind(cs, u, s[j + 2])
  <2>1. j + 1 < Len(s) => Behind(cs, s[j + 1], s[(j + 1) + 1])
    BY <1>1 DEF Replied
  <2>2. (j + 1) + 1 = j + 2
    BY <1>1
  <2> QED
    BY <2>1, <2>2
<1>7. (j + 1) + 1 = j + 2
  OBVIOUS
<1>8. IF Len(inb) = 0 THEN Opens(cs, r, u) ELSE u = Payload(inb[1])
  BY DEF Replied
<1>9. ASSUME Len(inb) # 0
      PROVE  EndsReply(u) /\ Ordinal(cs, u.call) = r + 1
  <2>1. Len(inb) = 1
    BY <1>9 DEF Halved
  <2>2. Opens(cs, r, inb[1]) /\ ~EndsReply(inb[1])
    BY <2>1 DEF Halved
  <2>3. u.call = inb[1].call /\ u.part = 1 /\ u.answer = inb[1].answer
    BY <1>8, <1>9 DEF Payload
  <2> QED
    BY <2>2, <2>3 DEF Opens, EndsReply
<1>10. ASSUME Len(inb) = 0
       PROVE  u.part = 0 /\ Ordinal(cs, u.call) = r + 1
  BY <1>8, <1>10 DEF Opens
<1>11. ASSUME ~EndsReply(u), NEW t, Len(t) = 1, t[1] = u
       PROVE  /\ Halved(cs, r, a, t) /\ Replied(cs, r, a, t, s, j + 1)
              /\ AllReplied(cs, r, a, inb, s, j) => AllReplied(cs, r, a, t, s, j + 1)
  <2>1. Halved(cs, r, a, t)
    <3>1. Opens(cs, r, u)
      BY <1>9, <1>10, <1>11 DEF Opens
    <3> QED
      BY <1>3, <1>11, <3>1 DEF Halved
  <2>2. j + 1 < Len(s) => s[j + 2] = Payload(t[1])
    BY <1>6, <1>11 DEF Behind
  <2>3. Replied(cs, r, a, t, s, j + 1)
    BY <1>5, <1>7, <1>11, <2>2 DEF Replied
  <2>4. ASSUME AllReplied(cs, r, a, inb, s, j) PROVE AllReplied(cs, r, a, t, s, j + 1)
    <3>1. EndsReply(Last(s)) /\ Ordinal(cs, Last(s).call) = Ordinal(cs, a)
      BY <2>4 DEF AllReplied
    <3>2. j + 1 # Len(s)
      BY <1>11, <3>1 DEF Last
    <3>3. j + 1 < Len(s)
      BY <1>1, <3>2
    <3> QED
      BY <3>1, <3>3 DEF AllReplied
  <2> QED
    BY <2>1, <2>3, <2>4
<1>12. ASSUME EndsReply(u), NEW t, Len(t) = 0
       PROVE  /\ Halved(cs, r + 1, a, t) /\ Replied(cs, r + 1, a, t, s, j + 1)
              /\ AllReplied(cs, r, a, inb, s, j) => AllReplied(cs, r + 1, a, t, s, j + 1)
  <2>1. Halved(cs, r + 1, a, t)
    BY <1>12 DEF Halved
  <2>2. Ordinal(cs, u.call) = r + 1
    BY <1>9, <1>10
  <2>3. j + 1 < Len(s) => Opens(cs, r + 1, s[j + 2])
    BY <1>6, <1>12, <2>2 DEF Behind
  <2>4. Replied(cs, r + 1, a, t, s, j + 1)
    BY <1>5, <1>7, <1>12, <2>3 DEF Replied
  <2>5. ASSUME AllReplied(cs, r, a, inb, s, j) PROVE AllReplied(cs, r + 1, a, t, s, j + 1)
    <3>1. EndsReply(Last(s)) /\ Ordinal(cs, Last(s).call) = Ordinal(cs, a)
      BY <2>5 DEF AllReplied
    <3>2. CASE j + 1 < Len(s)
      BY <3>1, <3>2 DEF AllReplied
    <3>3. CASE ~(j + 1 < Len(s))
      <4>1. j + 1 = Len(s)
        BY <1>1, <3>3
      <4>2. r + 1 = Ordinal(cs, a)
        BY <2>2, <3>1, <4>1 DEF Last
      <4> QED
        BY <1>12, <3>3, <4>2 DEF AllReplied
    <3> QED
      BY <3>2, <3>3
  <2> QED
    BY <2>1, <2>4, <2>5
<1> QED
  BY <1>2, <1>3, <1>9, <1>10, <1>11, <1>12 DEF Moves

LEMMA PeeledIs ==
  ASSUME NEW c \in Client, NEW u \in ReplyUnit, NEW p, p = Peeled(c, u)
  PROVE  /\ p \in Client
         /\ ~EndsReply(u) =>
              /\ p.pending = c.pending /\ p.completed = c.completed /\ p.sink = c.sink
              /\ Grown(c.inbound, p.inbound, u)
         /\ EndsReply(u) =>
              /\ p.inbound = <<>>
              /\ c.pending = <<>> =>
                   p.pending = <<>> /\ p.completed = c.completed /\ p.sink = c.sink
              /\ c.pending # <<>> =>
                   /\ Shifted(c.pending, p.pending, 1) /\ p.completed = c.completed + 1
                   /\ \/ p.sink = c.sink
                      \/ Grown(c.sink, p.sink, [name |-> c.pending[1], reply |-> u.call])
<1>1. /\ c.inbound \in Seq(ReplyUnit) /\ c.pending \in Seq(Calls) /\ c.completed \in Nat
      /\ c.sink \in Seq([name : Calls, reply : Calls])
  BY DEF Client
<1>2. CASE ~EndsReply(u)
  <2>1. PICK t : t = Append(c.inbound, u)
    OBVIOUS
  <2>2. t \in Seq(ReplyUnit) /\ Grown(c.inbound, t, u)
    BY <1>1, <2>1, GrownIs
  <2>3. p = [c EXCEPT !.inbound = t]
    BY <1>2, <2>1 DEF Peeled
  <2>4. /\ p \in Client /\ p.pending = c.pending /\ p.completed = c.completed /\ p.sink = c.sink
        /\ p.inbound = t
    BY <2>2, <2>3 DEF Client
  <2> QED
    BY <1>2, <2>2, <2>4
<1>3. CASE EndsReply(u)
  <2>1. PICK z : z = [c EXCEPT !.inbound = <<>>]
    OBVIOUS
  <2>2. <<>> \in Seq(ReplyUnit)
    BY EmptySeq
  <2>3. /\ z \in Client /\ z.inbound = <<>> /\ z.pending = c.pending /\ z.completed = c.completed
        /\ z.sink = c.sink
    BY <2>1, <2>2 DEF Client
  <2>4. p = Completed(z, u)
    BY <1>3, <2>1 DEF Peeled
  <2>5. CASE c.pending = <<>>
    <3>1. p = z
      BY <2>3, <2>4, <2>5 DEF Completed
    <3> QED
      BY <1>3, <2>3, <2>5, <3>1
  <2>6. CASE c.pending # <<>>
    <3>1. PICK t : t = Tail(c.pending)
      OBVIOUS
    <3>2. t \in Seq(Calls) /\ Shifted(c.pending, t, 1) /\ Head(c.pending) = c.pending[1]
          /\ c.pending[1] \in Calls
      BY <1>1, <2>6, <3>1, TailShifts
    <3>3. PICK k : k = IF u.answer # "err" THEN c.sink
                       ELSE Append(c.sink, [name |-> c.pending[1], reply |-> u.call])
      OBVIOUS
    <3>4. /\ k \in Seq([name : Calls, reply : Calls])
          /\ k = c.sink \/ Grown(c.sink, k, [name |-> c.pending[1], reply |-> u.call])
      <4>1. PICK e : e = [name |-> c.pending[1], reply |-> u.call]
        OBVIOUS
      <4>2. e \in [name : Calls, reply : Calls]
        BY <3>2, <4>1 DEF ReplyUnit
      <4>3. Append(c.sink, e) \in Seq([name : Calls, reply : Calls]) /\ Grown(c.sink, Append(c.sink, e), e)
        BY <1>1, <4>2, GrownIs
      <4> QED
        BY <1>1, <3>3, <4>1, <4>3
    <3>5. p = [z EXCEPT !.pending = t, !.completed = c.completed + 1, !.sink = k]
      BY <2>3, <2>4, <2>6, <3>1, <3>2, <3>3 DEF Completed
    <3>6. p \in Client /\ p.inbound = <<>> /\ p.pending = t /\ p.completed = c.completed + 1 /\ p.sink = k
      <4>1. PICK n : n = c.completed + 1
        OBVIOUS
      <4>2. t \in Seq(Calls) /\ k \in Seq([name : Calls, reply : Calls]) /\ n \in Nat /\ z \in Client
        BY <1>1, <2>3, <3>2, <3>4, <4>1
      <4>3. p = [z EXCEPT !.pending = t, !.completed = n, !.sink = k]
        BY <3>5, <4>1, Zenon
      <4>4. /\ p.inbound = z.inbound /\ p.pending = t /\ p.completed = n /\ p.sink = k
            /\ p \in Client
        BY <4>2, <4>3 DEF Client
      <4> QED
        BY <2>3, <4>1, <4>4
    <3> QED
      BY <1>3, <2>6, <3>2, <3>4, <3>6
  <2> QED
    BY <2>5, <2>6
<1> QED
  BY <1>2, <1>3

(* The invariant while the client c has taken j units of s. *)
Serving(cs, r, a, ab, d, rs, c, s, j) ==
  /\ c \in Client /\ c.completed <= r /\ r <= Ordinal(cs, a)
  /\ Promised(cs, r, ab, c.completed) /\ Covered(cs, r, ab, 0, c.pending)
  /\ Halved(cs, r, a, c.inbound) /\ Replied(cs, r, a, c.inbound, s, j)
  /\ ~d => AllReplied(cs, r, a, c.inbound, s, j)
  /\ ab = {} => Lined(cs, r, 0, c.pending) /\ Matched(rs, c.sink)

LEMMA PromisedLater ==
  ASSUME NEW cs \in Seq(CallRecord), NEW r \in Nat, NEW ab, IsFiniteSet(ab), NEW n \in Nat,
         Promised(cs, r, ab, n)
  PROVE  Promised(cs, r + 1, ab, n) /\ Promised(cs, r + 1, ab, n + 1)
<1>1. Cardinality(ab) \in Nat
  BY FS_CardinalityType
<1>2. ASSUME NEW k \in 1 .. Len(cs)
      PROVE  Ordinal(cs, k) \in Nat /\ cs[k].ticket \in Nat
  <2>1. k \in Nat /\ cs[k] \in CallRecord
    BY LenProperties, ElementOfSeq
  <2> QED
    BY <2>1, OrdinalType DEF CallRecord
<1>3. \A o, t, e \in Nat : n + o <= r + t + e => n + o <= r + 1 + t + e /\ n + 1 + o <= r + 1 + t + e
  OBVIOUS
<1> QED
  BY <1>1, <1>2, <1>3 DEF Promised

LEMMA PeeledServes ==
  ASSUME NEW cs \in Seq(CallRecord), NEW r \in Nat, NEW a \in Nat, a <= Len(cs),
         NEW ab, IsFiniteSet(ab), NEW d, NEW rs, NEW c, NEW s \in Seq(ReplyUnit),
         NEW j \in Nat, j < Len(s), Serving(cs, r, a, ab, d, rs, c, s, j)
  PROVE  \E r2 \in Nat : Serving(cs, r2, a, ab, d, rs, Peeled(c, s[j + 1]), s, j + 1)
<1> PICK u : u = s[j + 1]
  OBVIOUS
<1> PICK p : p = Peeled(c, u)
  OBVIOUS
<1> PICK inb : inb = c.inbound
  OBVIOUS
<1>1. /\ c \in Client /\ c.completed <= r /\ r <= Ordinal(cs, a)
      /\ Promised(cs, r, ab, c.completed) /\ Covered(cs, r, ab, 0, c.pending)
      /\ Halved(cs, r, a, c.inbound) /\ Replied(cs, r, a, c.inbound, s, j)
      /\ ~d => AllReplied(cs, r, a, c.inbound, s, j)
      /\ ab = {} => Lined(cs, r, 0, c.pending) /\ Matched(rs, c.sink)
  BY DEF Serving
<1>2. /\ Sound(cs, a, u) /\ u \in ReplyUnit
      /\ ~EndsReply(u) =>
           /\ Len(c.inbound) = 0
           /\ \A t : Len(t) = 1 /\ t[1] = u =>
                /\ Halved(cs, r, a, t) /\ Replied(cs, r, a, t, s, j + 1)
                /\ AllReplied(cs, r, a, c.inbound, s, j) => AllReplied(cs, r, a, t, s, j + 1)
      /\ EndsReply(u) =>
           /\ Ordinal(cs, u.call) = r + 1
           /\ \A t : Len(t) = 0 =>
                /\ Halved(cs, r + 1, a, t) /\ Replied(cs, r + 1, a, t, s, j + 1)
                /\ AllReplied(cs, r, a, c.inbound, s, j) => AllReplied(cs, r + 1, a, t, s, j + 1)
  <2>1. Halved(cs, r, a, inb) /\ Replied(cs, r, a, inb, s, j)
    BY <1>1
  <2>2. Moves(cs, r, a, inb, s, j, u)
    BY <2>1, UnitTaken
  <2> QED
    BY <2>2 DEF Moves
<1>3. /\ p \in Client
      /\ ~EndsReply(u) =>
           /\ p.pending = c.pending /\ p.completed = c.completed /\ p.sink = c.sink
           /\ Grown(c.inbound, p.inbound, u)
      /\ EndsReply(u) =>
           /\ p.inbound = <<>>
           /\ c.pending = <<>> =>
                p.pending = <<>> /\ p.completed = c.completed /\ p.sink = c.sink
           /\ c.pending # <<>> =>
                /\ Shifted(c.pending, p.pending, 1) /\ p.completed = c.completed + 1
                /\ \/ p.sink = c.sink
                   \/ Grown(c.sink, p.sink, [name |-> c.pending[1], reply |-> u.call])
  BY <1>1, <1>2, PeeledIs
<1>4. Len(cs) \in Nat /\ c.completed \in Nat /\ c.pending \in Seq(Calls) /\ Len(c.pending) \in Nat
  BY <1>1, LenProperties DEF Client
<1>5. Cardinality(ab) \in Nat
  BY FS_CardinalityType
<1>6. Ordinal(cs, a) \in Nat /\ Ordinal(cs, Len(cs)) \in Nat /\ Ordinal(cs, a) <= Ordinal(cs, Len(cs))
  <2>1. a \in 0 .. Len(cs)
    BY <1>4
  <2> QED
    BY <1>4, <2>1, OrdinalType, OrdinalGrows
<1>7. CASE ~EndsReply(u)
  <2>1. Len(p.inbound) = 1 /\ p.inbound[1] = u
    <3>1. Len(c.inbound) = 0
      BY <1>2, <1>7
    <3>2. Grown(c.inbound, p.inbound, u)
      BY <1>3, <1>7
    <3>3. Len(p.inbound) = 0 + 1 /\ p.inbound[0 + 1] = u
      BY <3>1, <3>2 DEF Grown
    <3> QED
      BY <3>3
  <2>2. /\ Halved(cs, r, a, p.inbound) /\ Replied(cs, r, a, p.inbound, s, j + 1)
        /\ ~d => AllReplied(cs, r, a, p.inbound, s, j + 1)
    BY <1>1, <1>2, <1>7, <2>1
  <2>3. Serving(cs, r, a, ab, d, rs, p, s, j + 1)
    BY <1>1, <1>3, <1>7, <2>2 DEF Serving
  <2> QED
    BY <2>3
<1>8. CASE EndsReply(u)
  <2>1. u.call \in 0 .. a /\ Due(cs, u.call) /\ Ordinal(cs, u.call) = r + 1
    BY <1>2, <1>8 DEF Sound, Due
  <2>2. r + 1 \in Nat /\ r + 1 <= Ordinal(cs, a)
    <3>1. Ordinal(cs, u.call) <= Ordinal(cs, a)
      BY <2>1, OrdinalGrows
    <3> QED
      BY <2>1, <3>1
  <2>3. Len(p.inbound) = 0
    BY <1>3, <1>8, EmptySeq
  <2>4. /\ Halved(cs, r + 1, a, p.inbound) /\ Replied(cs, r + 1, a, p.inbound, s, j + 1)
        /\ ~d => AllReplied(cs, r + 1, a, p.inbound, s, j + 1)
    BY <1>1, <1>2, <1>8, <2>3
  <2>5. Promised(cs, r + 1, ab, c.completed) /\ Promised(cs, r + 1, ab, c.completed + 1)
    BY <1>1, <1>4, PromisedLater
  <2>6. CASE c.pending = <<>>
    <3>1. p.pending = <<>> /\ p.completed = c.completed /\ p.sink = c.sink
      BY <1>3, <1>8, <2>6
    <3>2. Len(c.pending) = 0
      BY <2>6, EmptySeq
    <3>3. Covered(cs, r, ab, 0, <<>>)
      BY <1>1, <2>6
    <3>4. Covered(cs, r + 1, ab, 0, <<>>)
      <4>1. Ordinal(cs, Len(cs)) <= r + Len(<<>>) + 0 + Cardinality(ab)
        BY <3>3 DEF Covered, Blocked
      <4>2. Len(<<>>) = 0
        BY EmptySeq
      <4>3. \A o, e \in Nat : o <= r + 0 + 0 + e => o <= r + 1 + 0 + 0 + e
        OBVIOUS
      <4>4. Ordinal(cs, Len(cs)) <= r + 1 + 0 + 0 + Cardinality(ab)
        BY <1>5, <1>6, <4>1, <4>2, <4>3
      <4> QED
        BY <4>2, <4>4 DEF Covered, Blocked
    <3>5. ab # {}
      <4>1. ab = {} => Ordinal(cs, Len(cs)) = r + Len(c.pending) + 0
        BY <1>1 DEF Lined, Blocked
      <4>2. \A o, e \in Nat : r + 1 <= o /\ o <= e => e # r + 0 + 0
        OBVIOUS
      <4> QED
        BY <1>6, <2>2, <3>2, <4>1, <4>2
    <3>6. p.completed <= r + 1
      BY <1>1, <1>4, <3>1
    <3>7. Promised(cs, r + 1, ab, p.completed)
      BY <2>5, <3>1
    <3>8. Serving(cs, r + 1, a, ab, d, rs, p, s, j + 1)
      BY <1>3, <2>2, <2>4, <3>1, <3>4, <3>5, <3>6, <3>7 DEF Serving
    <3> QED
      BY <2>2, <3>8
  <2>7. CASE c.pending # <<>>
    <3>1. Shifted(c.pending, p.pending, 1) /\ p.completed = c.completed + 1
      BY <1>3, <1>8, <2>7
    <3>2. /\ Len(p.pending) \in Nat /\ Len(c.pending) = Len(p.pending) + 1
          /\ \A i \in 1 .. Len(p.pending) : p.pending[i] = c.pending[i + 1]
      BY <3>1 DEF Shifted
    <3>3. Covered(cs, r + 1, ab, 0, p.pending)
      <4>1. Ordinal(cs, Len(cs)) <= r + Len(c.pending) + 0 + Cardinality(ab)
        BY <1>1 DEF Covered, Blocked
      <4>2. \A o, e, m, n \in Nat : m = n + 1 /\ o <= r + m + 0 + e => o <= r + 1 + n + 0 + e
        OBVIOUS
      <4>3. Ordinal(cs, Len(cs)) <= r + 1 + Len(p.pending) + 0 + Cardinality(ab)
        BY <1>4, <1>5, <1>6, <3>2, <4>1, <4>2
      <4> QED
        BY <4>3 DEF Covered, Blocked
    <3>4. ASSUME ab = {} PROVE Lined(cs, r + 1, 0, p.pending) /\ Matched(rs, p.sink)
      <4>1. Lined(cs, r, 0, c.pending) /\ Matched(rs, c.sink)
        BY <1>1, <3>4
      <4>2. \A i \in 1 .. Len(p.pending) : i + 1 \in 1 .. Len(c.pending) /\ r + (i + 1) = r + 1 + i
        BY <3>2
      <4>3. \A i \in 1 .. Len(p.pending) : Due(cs, p.pending[i]) /\ Ordinal(cs, p.pending[i]) = r + 1 + i
        BY <3>2, <4>1, <4>2 DEF Lined
      <4>4. Ordinal(cs, Len(cs)) = r + 1 + Len(p.pending) + 0
        <5>1. Ordinal(cs, Len(cs)) = r + Len(c.pending) + 0
          BY <4>1 DEF Lined, Blocked
        <5>2. \A m, n \in Nat : m = n + 1 => r + m + 0 = r + 1 + n + 0
          OBVIOUS
        <5> QED
          BY <1>4, <3>2, <5>1, <5>2
      <4>5. Lined(cs, r + 1, 0, p.pending)
        BY <4>3, <4>4 DEF Lined, Blocked
      <4>6. c.pending[1] = u.call
        <5>1. 1 \in 1 .. Len(c.pending)
          BY <3>2
        <5>2. Due(cs, c.pending[1]) /\ Ordinal(cs, c.pending[1]) = r + 1
          BY <4>1, <5>1 DEF Lined
        <5> QED
          BY <1>4, <2>1, <5>2, OrdinalNames
      <4>7. Matched(rs, p.sink)
        <5>1. CASE p.sink = c.sink
          BY <4>1, <5>1
        <5>2. CASE Grown(c.sink, p.sink, [name |-> c.pending[1], reply |-> u.call])
          <6>1. /\ Len(c.sink) \in Nat /\ Len(p.sink) = Len(c.sink) + 1
                /\ p.sink[Len(c.sink) + 1] = [name |-> c.pending[1], reply |-> u.call]
                /\ \A i \in 1 .. Len(c.sink) : p.sink[i] = c.sink[i]
            BY <5>2 DEF Grown
          <6>2. \A i \in 1 .. Len(p.sink) : i \in 1 .. Len(c.sink) \/ i = Len(c.sink) + 1
            BY <6>1
          <6>3. \A i \in 1 .. Len(c.sink) : p.sink[i].reply = p.sink[i].name
            BY <4>1, <6>1 DEF Matched
          <6>4. p.sink[Len(c.sink) + 1].reply = p.sink[Len(c.sink) + 1].name
            BY <4>6, <6>1
          <6> QED
            BY <4>1, <6>2, <6>3, <6>4 DEF Matched
        <5> QED
          BY <1>3, <1>8, <2>7, <5>1, <5>2
      <4> QED
        BY <4>5, <4>7
    <3>5. p.completed <= r + 1
      BY <1>1, <1>4, <3>1
    <3>6. Promised(cs, r + 1, ab, p.completed)
      BY <2>5, <3>1
    <3>7. Serving(cs, r + 1, a, ab, d, rs, p, s, j + 1)
      BY <1>3, <2>2, <2>4, <3>3, <3>4, <3>5, <3>6 DEF Serving
    <3> QED
      BY <2>2, <3>7
  <2> QED
    BY <2>6, <2>7
<1> QED
  BY <1>7, <1>8

(* Pumped is a run of Peeled. *)
Start == [inbound |-> inbound, pending |-> pending, completed |-> completed, sink |-> sink]

LEMMA PumpedRuns ==
  ASSUME TypeInv, NEW n \in 0 .. Len(down)
  PROVE  \E w : /\ Pumped(n) = w[n] /\ w[0] = Start
                /\ \A k \in 1 .. n : w[k] = Peeled(w[k - 1], down[k])
<1>0. n \in Nat /\ \A k \in 1 .. n : down[k] \in ReplyUnit
  <2>1. down \in Seq(ReplyUnit)
    BY DEF TypeInv
  <2>2. Len(down) \in Nat /\ \A k \in 1 .. Len(down) : down[k] \in ReplyUnit
    BY <2>1, LenProperties, ElementOfSeq
  <2>3. \A k \in 1 .. n : k \in 1 .. Len(down)
    BY <2>2
  <2> QED
    BY <2>2, <2>3
<1>1. Start \in Client
  BY DEF TypeInv, Start, Client
<1>2. ASSUME NEW k \in 1 .. n, NEW x \in Client PROVE Peeled(x, down[k]) \in Client
  <2>1. PICK u : u = down[k]
    OBVIOUS
  <2>2. u \in ReplyUnit
    BY <1>0, <2>1
  <2>3. PICK p : p = Peeled(x, u)
    OBVIOUS
  <2>4. p \in Client
    BY <2>2, <2>3, PeeledIs
  <2> QED
    BY <2>1, <2>3, <2>4
<1> DEFINE F == [k \in 1 .. n |-> [x \in Client |-> Peeled(x, down[k])]]
<1>3. F \in [1 .. n -> [Client -> Client]]
  BY <1>2
<1>4. PICK v : Steps(Client, n, Start, F, v)
  <2> HIDE DEF F
  <2> QED
    BY <1>0, <1>1, <1>3, StepsExist
<1>5. v \in [0 .. n -> Client] /\ v[0] = Start
  BY <1>4 DEF Steps
<1>6. \A k \in 1 .. n : v[k] = Peeled(v[k - 1], down[k])
  <2> SUFFICES ASSUME NEW k \in 1 .. n PROVE v[k] = Peeled(v[k - 1], down[k])
    OBVIOUS
  <2>1. k - 1 \in 0 .. n
    BY <1>0
  <2>2. v[k - 1] \in Client /\ v[k] = F[k][v[k - 1]]
    BY <1>4, <1>5, <2>1 DEF Steps
  <2>3. \A x \in Client : F[k][x] = Peeled(x, down[k])
    OBVIOUS
  <2> HIDE DEF F
  <2> QED
    BY <2>2, <2>3
<1> HIDE DEF F
<1> DEFINE Runs(z) == [i \in 0 .. n |->
             IF i = 0 THEN [inbound   |-> inbound,   pending |-> pending,
                            completed |-> completed, sink    |-> sink]
             ELSE Peeled(z[i - 1], down[i])]
<1>7. v = Runs(v)
  <2>1. \A k \in 0 .. n : k = 0 \/ k \in 1 .. n
    BY <1>0
  <2>2. \A k \in 0 .. n : v[k] = IF k = 0 THEN [inbound   |-> inbound,   pending |-> pending,
                                                completed |-> completed, sink    |-> sink]
                                 ELSE Peeled(v[k - 1], down[k])
    BY <1>5, <1>6, <2>1 DEF Start
  <2> QED
    BY <1>5, <2>2
<1>8. PICK w : w = CHOOSE z : z = Runs(z)
  OBVIOUS
<1>9. w = Runs(w)
  BY <1>7, <1>8, Zenon
<1>10. Pumped(n) = w[n]
  BY <1>8, Zenon DEF Pumped
<1>11. \A k \in 0 .. n : w[k] = IF k = 0 THEN Start ELSE Peeled(w[k - 1], down[k])
  <2>1. \A k \in 0 .. n : Runs(w)[k] = IF k = 0 THEN Start ELSE Peeled(w[k - 1], down[k])
    BY DEF Start
  <2> HIDE DEF Runs
  <2> QED
    BY <1>9, <2>1
<1>12. 0 \in 0 .. n /\ \A k \in 1 .. n : k \in 0 .. n /\ k # 0
  BY <1>0
<1>13. w[0] = Start /\ \A k \in 1 .. n : w[k] = Peeled(w[k - 1], down[k])
  BY <1>11, <1>12
<1> QED
  BY <1>10, <1>13

LEMMA PumpedServes ==
  ASSUME TypeInv, NEW n \in 0 .. Len(down), NEW r \in Nat, NEW a \in Nat, a <= Len(calls),
         IsFiniteSet(abandoned), NEW d,
         Serving(calls, r, a, abandoned, d, reads, Start, down, 0)
  PROVE  \E r2 \in Nat : Serving(calls, r2, a, abandoned, d, reads, Pumped(n), down, n)
<1>1. PICK w : /\ Pumped(n) = w[n] /\ w[0] = Start
               /\ \A k \in 1 .. n : w[k] = Peeled(w[k - 1], down[k])
  BY PumpedRuns
<1>2. calls \in Seq(CallRecord) /\ down \in Seq(ReplyUnit) /\ Len(down) \in Nat /\ n \in Nat
  <2>1. calls \in Seq(CallRecord) /\ down \in Seq(ReplyUnit)
    BY DEF TypeInv
  <2>2. Len(down) \in Nat
    BY <2>1, LenProperties
  <2> QED
    BY <2>1, <2>2
<1> DEFINE G == {k \in 0 .. n : \E r2 \in Nat :
                   Serving(calls, r2, a, abandoned, d, reads, w[k], down, k)}
<1>3. 0 \in G
  BY <1>1, <1>2
<1>4. ASSUME NEW k \in 0 .. n, k \in G, k < n PROVE k + 1 \in G
  <2>1. PICK r2 \in Nat : Serving(calls, r2, a, abandoned, d, reads, w[k], down, k)
    BY <1>4
  <2>2. /\ k \in Nat /\ k < Len(down) /\ k + 1 \in 1 .. n /\ k + 1 \in 0 .. n
        /\ (k + 1) - 1 = k
    BY <1>2, <1>4
  <2>3. \E r3 \in Nat : Serving(calls, r3, a, abandoned, d, reads, Peeled(w[k], down[k + 1]), down, k + 1)
    BY <1>2, <2>1, <2>2, PeeledServes
  <2>4. w[k + 1] = Peeled(w[k], down[k + 1])
    BY <1>1, <2>2
  <2> QED
    BY <2>2, <2>3, <2>4
<1> HIDE DEF G
<1>5. n \in G
  <2>1. n \in 0 .. n
    BY <1>2
  <2> QED
    BY <1>2, <1>3, <1>4, <2>1, CountUp
<1> QED
  BY <1>1, <1>5 DEF G

LEMMA RepliedRest ==
  ASSUME NEW cs, NEW r, NEW a, NEW inb, NEW s, NEW t, NEW n \in Nat, Shifted(s, t, n)
  PROVE  /\ Replied(cs, r, a, inb, s, n) => Replied(cs, r, a, inb, t, 0)
         /\ AllReplied(cs, r, a, inb, s, n) => AllReplied(cs, r, a, inb, t, 0)
<1>1. /\ Len(t) \in Nat /\ Len(s) = Len(t) + n
      /\ \A i \in 1 .. Len(t) : t[i] = s[i + n]
  BY DEF Shifted
<1>2. \A i \in 1 .. Len(t) : /\ i + n \in 1 .. Len(s) /\ n < i + n
                             /\ i < Len(t) => i + n < Len(s) /\ i + 1 \in 1 .. Len(t)
                                              /\ (i + n) + 1 = (i + 1) + n
  BY <1>1
<1>3. /\ n < Len(s) <=> 0 < Len(t)
      /\ 0 < Len(t) => 1 \in 1 .. Len(t) /\ Len(t) \in 1 .. Len(t) /\ 1 + n = n + 1
  BY <1>1
<1>4. ASSUME Replied(cs, r, a, inb, s, n) PROVE Replied(cs, r, a, inb, t, 0)
  <2>1. 0 < Len(t) => IF Len(inb) = 0 THEN Opens(cs, r, t[0 + 1]) ELSE t[0 + 1] = Payload(inb[1])
    <3>1. 0 < Len(t) => t[0 + 1] = s[n + 1]
      BY <1>1, <1>3
    <3> QED
      BY <1>3, <1>4, <3>1 DEF Replied
  <2>2. \A i \in 1 .. Len(t) : Sound(cs, a, t[i])
    BY <1>1, <1>2, <1>4 DEF Replied
  <2>3. ASSUME NEW i \in 1 .. Len(t), i < Len(t) PROVE Behind(cs, t[i], t[i + 1])
    <3>1. Behind(cs, s[i + n], s[(i + n) + 1])
      BY <1>2, <1>4, <2>3 DEF Replied
    <3>2. t[i] = s[i + n] /\ t[i + 1] = s[(i + n) + 1]
      BY <1>1, <1>2, <2>3
    <3> QED
      BY <3>1, <3>2
  <2> QED
    BY <2>1, <2>2, <2>3 DEF Replied
<1>5. 0 < Len(t) => Last(t) = Last(s)
  BY <1>1, <1>3 DEF Last
<1>6. ASSUME AllReplied(cs, r, a, inb, s, n) PROVE AllReplied(cs, r, a, inb, t, 0)
  BY <1>3, <1>5, <1>6 DEF AllReplied
<1> QED
  BY <1>4, <1>6

-----------------------------------------------------------------------------
(* The host takes one unit of a request.                                    *)

LEMMA RepliedGrown ==
  ASSUME NEW cs, NEW r, NEW a, NEW inb, NEW s, NEW t, NEW x, Grown(s, t, x),
         Replied(cs, r, a, inb, s, 0), Sound(cs, a, x),
         IF Len(s) = 0 THEN IF Len(inb) = 0 THEN Opens(cs, r, x) ELSE x = Payload(inb[1])
                       ELSE Behind(cs, s[Len(s)], x)
  PROVE  Replied(cs, r, a, inb, t, 0)
<1>1. /\ Len(s) \in Nat /\ Len(t) = Len(s) + 1 /\ t[Len(s) + 1] = x
      /\ \A i \in 1 .. Len(s) : t[i] = s[i]
  BY DEF Grown
<1>2. \A i \in 1 .. Len(t) : i \in 1 .. Len(s) \/ i = Len(s) + 1
  BY <1>1
<1>3. \A i \in 1 .. Len(t) : Sound(cs, a, t[i])
  <2>1. \A i \in 1 .. Len(s) : Sound(cs, a, t[i])
    BY <1>1 DEF Replied
  <2> QED
    BY <1>1, <1>2, <2>1
<1>4. IF Len(inb) = 0 THEN Opens(cs, r, t[0 + 1]) ELSE t[0 + 1] = Payload(inb[1])
  <2>1. CASE Len(s) = 0
    BY <1>1, <2>1
  <2>2. CASE Len(s) # 0
    <3>1. 0 < Len(s) /\ t[0 + 1] = s[0 + 1]
      BY <1>1, <2>2
    <3> QED
      BY <3>1 DEF Replied
  <2> QED
    BY <2>1, <2>2
<1>5. ASSUME NEW i \in 1 .. Len(t), i < Len(t) PROVE Behind(cs, t[i], t[i + 1])
  <2>1. i \in 1 .. Len(s) /\ t[i] = s[i]
    BY <1>1, <1>5
  <2>2. CASE i = Len(s)
    <3>1. t[i + 1] = x /\ Len(s) # 0
      BY <1>1, <2>1, <2>2
    <3> QED
      BY <2>1, <2>2, <3>1
  <2>3. CASE i # Len(s)
    <3>1. i < Len(s) /\ i + 1 \in 1 .. Len(s) /\ 0 < i
      BY <1>1, <2>1, <2>3
    <3>2. t[i + 1] = s[i + 1] /\ Behind(cs, s[i], s[i + 1])
      BY <1>1, <2>1, <3>1 DEF Replied
    <3> QED
      BY <2>1, <3>2
  <2> QED
    BY <2>2, <2>3
<1> QED
  BY <1>3, <1>4, <1>5 DEF Replied

LEMMA RepliedLater ==
  ASSUME NEW cs, NEW r, NEW a \in Nat, NEW inb, NEW s \in Seq(ReplyUnit)
  PROVE  /\ Replied(cs, r, a, inb, s, 0) => Replied(cs, r, a + 1, inb, s, 0)
         /\ inb \in Seq(ReplyUnit) /\ Halved(cs, r, a, inb) => Halved(cs, r, a + 1, inb)
<1>1. ASSUME NEW u \in ReplyUnit, Sound(cs, a, u) PROVE Sound(cs, a + 1, u)
  <2>1. u.call \in Nat
    BY RpcAssumption DEF ReplyUnit, Calls
  <2> QED
    BY <1>1, <2>1 DEF Sound
<1>2. \A i \in 1 .. Len(s) : s[i] \in ReplyUnit
  BY UnitOf
<1>3. ASSUME Replied(cs, r, a, inb, s, 0) PROVE Replied(cs, r, a + 1, inb, s, 0)
  <2>1. \A i \in 1 .. Len(s) : 0 < i => Sound(cs, a + 1, s[i])
    BY <1>1, <1>2, <1>3 DEF Replied
  <2> QED
    BY <1>3, <2>1 DEF Replied
<1>4. ASSUME inb \in Seq(ReplyUnit), Halved(cs, r, a, inb) PROVE Halved(cs, r, a + 1, inb)
  <2>1. Len(inb) = 1 => inb[1] \in ReplyUnit
    BY <1>4, UnitOf
  <2> QED
    BY <1>1, <1>4, <2>1 DEF Halved
<1> QED
  BY <1>3, <1>4

LEMMA RepliedCut ==
  ASSUME NEW cs, NEW r, NEW a, NEW inb, NEW s, NEW t, Len(s) \in Nat, NEW m \in 0 .. Len(s),
         Starting(s, t, m), Replied(cs, r, a, inb, s, 0)
  PROVE  Replied(cs, r, a, inb, t, 0)
<1>1. m \in Nat /\ Len(t) = m /\ \A i \in 1 .. m : t[i] = s[i] /\ i \in 1 .. Len(s)
  BY DEF Starting
<1>2. 0 < m => t[0 + 1] = s[0 + 1] /\ 0 < Len(s)
  BY <1>1
<1>3. 0 < m => IF Len(inb) = 0 THEN Opens(cs, r, t[0 + 1]) ELSE t[0 + 1] = Payload(inb[1])
  BY <1>2 DEF Replied
<1>4. \A i \in 1 .. m : Sound(cs, a, t[i])
  BY <1>1 DEF Replied
<1>5. ASSUME NEW i \in 1 .. m, i < m PROVE Behind(cs, t[i], t[i + 1])
  <2>1. i < Len(s) /\ i + 1 \in 1 .. m /\ 0 < i /\ i \in 1 .. Len(s)
    BY <1>1, <1>5
  <2>2. Behind(cs, s[i], s[i + 1])
    BY <2>1 DEF Replied
  <2> QED
    BY <1>1, <2>1, <2>2
<1> QED
  BY <1>1, <1>3, <1>4, <1>5 DEF Replied

(* t is s and the reply to k behind it. *)
Answering(s, t, k, answer) ==
  \/ ~HasReply(k) /\ t = s
  \/ /\ HasReply(k) /\ answer = "empty"
     /\ Grown(s, t, [call |-> k, part |-> 0, answer |-> answer])
  \/ /\ HasReply(k) /\ answer # "empty"
     /\ \E z \in Seq(ReplyUnit) :
          /\ Grown(s, z, [call |-> k, part |-> 0, answer |-> answer])
          /\ Grown(z, t, [call |-> k, part |-> 1, answer |-> answer])

LEMMA ReplyIs ==
  ASSUME NEW s \in Seq(ReplyUnit), NEW k \in Calls, NEW answer \in Answers
  PROVE  /\ s \o ReplyTo(k, answer) \in Seq(ReplyUnit)
         /\ Answering(s, s \o ReplyTo(k, answer), k, answer)
<1> PICK x, y : /\ x = [call |-> k, part |-> 0, answer |-> answer]
                /\ y = [call |-> k, part |-> 1, answer |-> answer]
  OBVIOUS
<1>1. x \in ReplyUnit /\ y \in ReplyUnit
  BY DEF ReplyUnit
<1>2. CASE ~HasReply(k)
  <2>1. ReplyTo(k, answer) = <<>>
    BY <1>2 DEF ReplyTo
  <2>2. s \o <<>> = s
    BY ConcatEmptySeq
  <2> QED
    BY <1>2, <2>1, <2>2 DEF Answering
<1>3. CASE HasReply(k) /\ answer = "empty"
  <2>1. ReplyTo(k, answer) = <<x>>
    BY <1>3 DEF ReplyTo
  <2>2. s \o <<x>> = Append(s, x)
    BY <1>1, AppendIsConcat
  <2>3. Append(s, x) \in Seq(ReplyUnit) /\ Grown(s, Append(s, x), x)
    BY <1>1, GrownIs
  <2> QED
    BY <1>3, <2>1, <2>2, <2>3 DEF Answering
<1>4. CASE HasReply(k) /\ answer # "empty"
  <2>1. ReplyTo(k, answer) = <<x, y>>
    BY <1>4 DEF ReplyTo
  <2>2. <<x, y>> \in Seq(ReplyUnit) /\ Len(<<x, y>>) = 2 /\ <<x, y>>[1] = x /\ <<x, y>>[2] = y
    BY <1>1
  <2> PICK q : q = <<x, y>>
    OBVIOUS
  <2> PICK t : t = s \o q
    OBVIOUS
  <2>3. /\ t \in Seq(ReplyUnit) /\ Len(t) = Len(s) + Len(q)
        /\ \A i \in 1 .. Len(s) + Len(q) : t[i] = IF i <= Len(s) THEN s[i] ELSE q[i - Len(s)]
    BY <2>2, ConcatProperties
  <2> PICK z : z = Append(s, x)
    OBVIOUS
  <2>4. z \in Seq(ReplyUnit) /\ Grown(s, z, x)
    BY <1>1, GrownIs
  <2>5. Len(s) \in Nat /\ Len(q) = 2 /\ q[1] = x /\ q[2] = y
    BY <2>2, LenProperties
  <2>6. /\ Len(z) = Len(s) + 1 /\ z[Len(s) + 1] = x /\ \A i \in 1 .. Len(s) : z[i] = s[i]
    BY <2>4 DEF Grown
  <2>7. /\ Len(t) = Len(s) + 2 /\ Len(z) \in Nat /\ Len(t) = Len(z) + 1
        /\ t[Len(s) + 1] = x /\ t[Len(s) + 2] = y /\ Len(z) + 1 = Len(s) + 2
        /\ \A i \in 1 .. Len(s) : t[i] = s[i]
    BY <2>3, <2>5, <2>6
  <2>8. \A i \in 1 .. Len(z) : i \in 1 .. Len(s) \/ i = Len(s) + 1
    BY <2>5, <2>6
  <2>9. \A i \in 1 .. Len(z) : t[i] = z[i]
    BY <2>6, <2>7, <2>8
  <2>10. Grown(z, t, y)
    BY <2>7, <2>9 DEF Grown
  <2>11. s \o ReplyTo(k, answer) = t
    BY <2>1
  <2> QED
    BY <1>4, <2>3, <2>4, <2>10, <2>11 DEF Answering
<1> QED
  BY <1>2, <1>3, <1>4

LEMMA AnswerKeeps ==
  ASSUME NEW r \in Nat, NEW a \in Nat, a + 1 <= Len(calls), Len(calls) \in Nat,
         NEW inb \in Seq(ReplyUnit), NEW s \in Seq(ReplyUnit), NEW t, NEW answer,
         Answering(s, t, a + 1, answer),
         Halved(calls, r, a, inb), Replied(calls, r, a, inb, s, 0), AllReplied(calls, r, a, inb, s, 0)
  PROVE  /\ Halved(calls, r, a + 1, inb) /\ Replied(calls, r, a + 1, inb, t, 0)
         /\ AllReplied(calls, r, a + 1, inb, t, 0)
<1>0. a + 1 \in Nat /\ a + 1 \in 1 .. Len(calls) /\ Len(s) \in Nat
  BY LenProperties
<1>1. Halved(calls, r, a + 1, inb) /\ Replied(calls, r, a + 1, inb, s, 0)
  BY RepliedLater
<1>2. HasReply(a + 1) <=> calls[a + 1].op # "ONEWAY"
  BY DEF HasReply
<1>3. Ordinal(calls, a + 1) = IF HasReply(a + 1) THEN Ordinal(calls, a) + 1 ELSE Ordinal(calls, a)
  BY <1>2, OrdinalNext
<1>4. CASE ~HasReply(a + 1)
  <2>1. t = s
    BY <1>4 DEF Answering
  <2>2. AllReplied(calls, r, a + 1, inb, s, 0)
    BY <1>3, <1>4 DEF AllReplied
  <2> QED
    BY <1>1, <2>1, <2>2
<1>5. ASSUME HasReply(a + 1), NEW x, NEW z, x = [call |-> a + 1, part |-> 0, answer |-> answer],
             Grown(s, z, x)
      PROVE  Replied(calls, r, a + 1, inb, z, 0) /\ Sound(calls, a + 1, x)
  <2>1. Ordinal(calls, a + 1) = Ordinal(calls, a) + 1 /\ x.call = a + 1 /\ x.part = 0
    BY <1>3, <1>5
  <2>2. Sound(calls, a + 1, x)
    BY <1>0, <1>2, <1>5, <2>1 DEF Sound, Due
  <2>3. CASE Len(s) = 0
    <3>1. Len(inb) = 0 /\ r = Ordinal(calls, a)
      BY <2>3 DEF AllReplied
    <3>2. Opens(calls, r, x)
      BY <2>1, <3>1 DEF Opens
    <3> QED
      BY <1>1, <1>5, <2>2, <2>3, <3>1, <3>2, RepliedGrown
  <2>4. CASE Len(s) # 0
    <3>1. EndsReply(s[Len(s)]) /\ Ordinal(calls, s[Len(s)].call) = Ordinal(calls, a)
      BY <1>0, <2>4 DEF AllReplied, Last
    <3>2. Opens(calls, Ordinal(calls, s[Len(s)].call), x)
      BY <2>1, <3>1 DEF Opens
    <3>3. Behind(calls, s[Len(s)], x)
      BY <3>1, <3>2 DEF Behind
    <3> QED
      BY <1>1, <1>5, <2>2, <2>4, <3>3, RepliedGrown
  <2> QED
    BY <2>3, <2>4
<1>6. ASSUME NEW q, NEW y, Len(q) \in Nat, Grown(q, t, y), y.call = a + 1, EndsReply(y)
      PROVE  AllReplied(calls, r, a + 1, inb, t, 0)
  <2>1. 0 < Len(t) /\ Last(t) = y
    BY <1>6 DEF Grown, Last
  <2> QED
    BY <1>6, <2>1 DEF AllReplied
<1>7. CASE HasReply(a + 1) /\ answer = "empty"
  <2> PICK x : x = [call |-> a + 1, part |-> 0, answer |-> answer]
    OBVIOUS
  <2>1. Grown(s, t, x)
    BY <1>7 DEF Answering
  <2>2. Replied(calls, r, a + 1, inb, t, 0)
    BY <1>5, <1>7, <2>1
  <2>3. x.call = a + 1 /\ EndsReply(x)
    BY <1>7 DEF EndsReply
  <2>4. AllReplied(calls, r, a + 1, inb, t, 0)
    BY <1>0, <1>6, <2>1, <2>3
  <2> QED
    BY <1>1, <2>2, <2>4
<1>8. CASE HasReply(a + 1) /\ answer # "empty"
  <2> PICK x : x = [call |-> a + 1, part |-> 0, answer |-> answer]
    OBVIOUS
  <2> PICK y : y = [call |-> a + 1, part |-> 1, answer |-> answer]
    OBVIOUS
  <2>1. PICK z \in Seq(ReplyUnit) : Grown(s, z, x) /\ Grown(z, t, y)
    BY <1>8 DEF Answering
  <2>2. Replied(calls, r, a + 1, inb, z, 0) /\ Sound(calls, a + 1, x)
    BY <1>5, <1>8, <2>1
  <2>3. Len(z) \in Nat /\ Len(z) # 0 /\ z[Len(z)] = x
    BY <1>0, <2>1 DEF Grown
  <2>4. Sound(calls, a + 1, y)
    BY <1>8, <2>2 DEF Sound
  <2>5. Behind(calls, x, y)
    BY <1>8 DEF Behind, EndsReply, Payload
  <2>6. Replied(calls, r, a + 1, inb, t, 0)
    BY <2>1, <2>2, <2>3, <2>4, <2>5, RepliedGrown
  <2>7. y.call = a + 1 /\ EndsReply(y)
    BY <1>8 DEF EndsReply
  <2>8. AllReplied(calls, r, a + 1, inb, t, 0)
    BY <1>6, <2>1, <2>3, <2>7
  <2> QED
    BY <1>1, <2>6, <2>8
<1> QED
  BY <1>4, <1>7, <1>8

(* Unit j + 1 of the requests s is e, and f goes on from it. *)
Follows(cs, e, f, s, j) ==
  /\ s[j + 1] = e /\ e.call \in 1 .. Len(cs) /\ Asked(cs, f, s, j + 1)
  /\ AllAsked(cs, e, s, j) => AllAsked(cs, f, s, j + 1)

LEMMA AskedNext ==
  ASSUME NEW cs, NEW e, NEW f, f = NextUnit(cs, e), NEW s, Len(s) \in Nat,
         NEW j \in Nat, j < Len(s), Asked(cs, e, s, j)
  PROVE  Follows(cs, e, f, s, j)
<1>1. j + 1 \in 1 .. Len(s) /\ j < j + 1 /\ (j + 1 < Len(s) \/ j + 1 = Len(s))
  OBVIOUS
<1>2. s[j + 1] = e
  BY DEF Asked
<1>3. e.call \in 1 .. Len(cs)
  BY <1>1, <1>2 DEF Asked
<1>4. j + 1 < Len(s) => s[(j + 1) + 1] = f
  BY <1>1, <1>2 DEF Asked
<1>5. \A i \in 1 .. Len(s) : j + 1 < i => j < i
  OBVIOUS
<1>6. Asked(cs, f, s, j + 1)
  <2>1. \A i \in 1 .. Len(s) : j + 1 < i => s[i].call \in 1 .. Len(cs)
    BY <1>5 DEF Asked
  <2>2. \A i \in 1 .. Len(s) : j + 1 < i /\ i < Len(s) => s[i + 1] = NextUnit(cs, s[i])
    BY <1>5 DEF Asked
  <2> QED
    BY <1>4, <2>1, <2>2 DEF Asked
<1>7. AllAsked(cs, e, s, j) => AllAsked(cs, f, s, j + 1)
  <2>1. CASE j + 1 < Len(s)
    BY <2>1 DEF AllAsked
  <2>2. CASE j + 1 = Len(s)
    <3>1. Last(s) = e /\ ~(j + 1 < Len(s))
      BY <1>2, <2>2 DEF Last
    <3> QED
      BY <3>1 DEF AllAsked
  <2> QED
    BY <1>1, <2>1, <2>2
<1> QED
  BY <1>2, <1>3, <1>6, <1>7 DEF Follows

(* The invariant while the host h has taken j units of up. *)
Taking(r, h, j) ==
  /\ h \in Host /\ Begun(calls, h) /\ Asked(calls, Expected(h), up, j)
  /\ ~gone => AllAsked(calls, Expected(h), up, j)
  /\ r <= Ordinal(calls, Len(h.applied))
  /\ ~garbled /\ ~gone =>
       /\ Halved(calls, r, Len(h.applied), inbound)
       /\ Replied(calls, r, Len(h.applied), inbound, h.down, 0)
       /\ AllReplied(calls, r, Len(h.applied), inbound, h.down, 0)

LEMMA ServedTakes ==
  ASSUME TypeInv, NEW r \in Nat, NEW h, NEW j \in Nat, j < Len(up), Taking(r, h, j),
         NEW u, u = up[j + 1], NEW answer, answer[u.call] \in Answers,
         NEW p, p = Served(h, u, answer)
  PROVE  Taking(r, p, j + 1)
<1>1. /\ h.inbuf \in Seq(RequestUnit) /\ h.applied \in Seq(Calls) /\ h.down \in Seq(ReplyUnit)
      /\ h \in Host
  BY DEF Taking, Host
<1>2. /\ calls \in Seq(CallRecord) /\ up \in Seq(RequestUnit) /\ inbound \in Seq(ReplyUnit)
      /\ Len(calls) <= MaxCalls
  BY DEF TypeInv
<1>3. /\ Len(calls) \in Nat /\ Len(up) \in Nat /\ Len(h.inbuf) \in Nat /\ Len(h.applied) \in Nat
  BY <1>1, <1>2, LenProperties
<1>4. j + 1 \in 1 .. Len(up) /\ u \in RequestUnit
  <2>1. j + 1 \in 1 .. Len(up)
    BY <1>3
  <2> QED
    BY <1>2, <2>1, ElementOfSeq
<1> PICK a : a = Len(h.applied)
  OBVIOUS
<1> PICK b : b = Len(h.inbuf)
  OBVIOUS
<1> PICK e : e = Expected(h)
  OBVIOUS
<1>5. e = [call |-> a + 1, part |-> b]
  BY DEF Expected
<1>5a. a \in Nat /\ b \in Nat
  BY <1>3
<1>6. /\ Begun(calls, h) /\ Asked(calls, e, up, j)
      /\ ~gone => AllAsked(calls, e, up, j)
      /\ r <= Ordinal(calls, a)
      /\ ~garbled /\ ~gone =>
           /\ Halved(calls, r, a, inbound)
           /\ Replied(calls, r, a, inbound, h.down, 0)
           /\ AllReplied(calls, r, a, inbound, h.down, 0)
  BY DEF Taking
<1> PICK f : f = NextUnit(calls, e)
  OBVIOUS
<1>7. /\ u = e /\ e.call \in 1 .. Len(calls) /\ Asked(calls, f, up, j + 1)
      /\ ~gone => AllAsked(calls, f, up, j + 1)
  <2>1. Asked(calls, e, up, j) /\ Len(up) \in Nat
    BY <1>3, <1>6
  <2>2. /\ up[j + 1] = e /\ e.call \in 1 .. Len(calls) /\ Asked(calls, f, up, j + 1)
        /\ AllAsked(calls, e, up, j) => AllAsked(calls, f, up, j + 1)
    <3>1. Follows(calls, e, f, up, j)
      BY <2>1, AskedNext
    <3> QED
      BY <3>1 DEF Follows
  <2> QED
    BY <1>6, <2>2
<1>8. u.call = a + 1 /\ u.part = b /\ a + 1 \in 1 .. Len(calls) /\ a + 1 \in Calls
      /\ a + 1 <= Len(calls)
  <2>1. u.call = a + 1 /\ u.part = b /\ a + 1 \in 1 .. Len(calls)
    BY <1>5, <1>7
  <2>2. \A x, y, z \in Nat : x + 1 \in 1 .. y /\ y <= z => x + 1 \in 1 .. z /\ x + 1 <= y
    OBVIOUS
  <2>3. MaxCalls \in Nat
    BY RpcAssumption
  <2>4. a + 1 \in 1 .. MaxCalls /\ a + 1 <= Len(calls)
    BY <1>2, <1>3, <1>5a, <2>1, <2>2, <2>3
  <2> QED
    BY <2>1, <2>4 DEF Calls
<1>9. /\ \A i \in 1 .. a : h.applied[i] = i
      /\ \A i \in 1 .. b : h.inbuf[i] = [call |-> a + 1, part |-> i - 1]
  <2>1. Begun(calls, h)
    BY <1>6
  <2> QED
    BY <2>1 DEF Begun
<1>10. CASE ~EndsRequest(u)
  <2>1. PICK t : t = Append(h.inbuf, u)
    OBVIOUS
  <2>2. t \in Seq(RequestUnit) /\ Grown(h.inbuf, t, u)
    BY <1>1, <1>4, <2>1, GrownIs
  <2>3. p = [h EXCEPT !.inbuf = t]
    BY <1>10, <2>1 DEF Served
  <2>4. p \in Host /\ p.inbuf = t /\ p.applied = h.applied /\ p.down = h.down
    BY <1>1, <2>2, <2>3 DEF Host
  <2>5. Len(t) = b + 1 /\ t[b + 1] = u /\ \A i \in 1 .. b : t[i] = h.inbuf[i]
    BY <2>2 DEF Grown
  <2>6. f = [call |-> a + 1, part |-> b + 1]
    BY <1>5, <1>7, <1>8, <1>10 DEF NextUnit, EndsRequest
  <2>7. Expected(p) = f
    BY <2>4, <2>5, <2>6 DEF Expected
  <2>8. Begun(calls, p)
    <3>1. \A i \in 1 .. b + 1 : i \in 1 .. b \/ (i = b + 1 /\ i - 1 = b)
      <4>1. \A x \in Nat : \A i \in 1 .. x + 1 : i \in 1 .. x \/ (i = x + 1 /\ i - 1 = x)
        OBVIOUS
      <4> QED
        BY <1>5a, <4>1
    <3>2. \A i \in 1 .. Len(t) : t[i] = [call |-> a + 1, part |-> i - 1]
      <4>1. u = [call |-> a + 1, part |-> b]
        BY <1>5, <1>7
      <4> QED
        BY <1>9, <2>5, <3>1, <4>1
    <3>3. Len(p.applied) = a /\ Len(p.applied) <= Len(calls)
      <4>1. Begun(calls, h)
        BY <1>6
      <4> QED
        BY <2>4, <4>1 DEF Begun
    <3>4. \A i \in 1 .. Len(p.applied) : p.applied[i] = i
      BY <1>9, <2>4, <3>3
    <3>5. \A i \in 1 .. Len(p.inbuf) : p.inbuf[i] = [call |-> Len(p.applied) + 1, part |-> i - 1]
      BY <2>4, <3>2, <3>3
    <3> QED
      BY <3>3, <3>4, <3>5 DEF Begun
  <2> QED
    BY <1>6, <1>7, <2>4, <2>7, <2>8 DEF Taking
<1>11. CASE EndsRequest(u)
  <2>1. PICK q : q = Append(h.applied, a + 1)
    OBVIOUS
  <2>2. q \in Seq(Calls) /\ Grown(h.applied, q, a + 1)
    BY <1>1, <1>8, <2>1, GrownIs
  <2>3. PICK w : w = answer[u.call]
    OBVIOUS
  <2>4. PICK t : t = h.down \o ReplyTo(a + 1, w)
    OBVIOUS
  <2>5. t \in Seq(ReplyUnit) /\ Answering(h.down, t, a + 1, w)
    <3>1. w \in Answers
      BY <2>3
    <3> QED
      BY <1>1, <1>8, <2>4, <3>1, ReplyIs
  <2>6. p = [inbuf |-> <<>>, applied |-> q, down |-> t]
    BY <1>8, <1>11, <2>1, <2>3, <2>4 DEF Served
  <2>7. p \in Host /\ p.inbuf = <<>> /\ p.applied = q /\ p.down = t
    <3>1. <<>> \in Seq(RequestUnit)
      BY EmptySeq
    <3> QED
      BY <2>2, <2>5, <2>6, <3>1 DEF Host
  <2>8. Len(q) = a + 1 /\ q[a + 1] = a + 1 /\ \A i \in 1 .. a : q[i] = h.applied[i]
    BY <2>2 DEF Grown
  <2>9. f = [call |-> (a + 1) + 1, part |-> 0]
    BY <1>5, <1>7, <1>8, <1>11 DEF NextUnit, EndsRequest
  <2>10. Len(p.inbuf) = 0
    BY <2>7, EmptySeq
  <2>11. Expected(p) = f
    BY <2>7, <2>8, <2>9, <2>10 DEF Expected
  <2>12. Begun(calls, p)
    <3>1. \A i \in 1 .. a + 1 : i \in 1 .. a \/ i = a + 1
      <4>1. \A x \in Nat : \A i \in 1 .. x + 1 : i \in 1 .. x \/ i = x + 1
        OBVIOUS
      <4> QED
        BY <1>5a, <4>1
    <3>2. \A i \in 1 .. Len(q) : q[i] = i
      BY <1>9, <2>8, <3>1
    <3>3. \A i \in 1 .. Len(p.inbuf) : FALSE
      BY <2>10
    <3>4. Len(p.applied) <= Len(calls)
      BY <1>8, <2>7, <2>8
    <3> QED
      BY <2>7, <3>2, <3>3, <3>4 DEF Begun
  <2>13. r <= Ordinal(calls, a + 1)
    <3>1. a \in 0 .. a + 1 /\ a + 1 \in Nat
      BY <1>5a
    <3>2. Ordinal(calls, a) <= Ordinal(calls, a + 1)
      BY <3>1, OrdinalGrows
    <3>3. Ordinal(calls, a) \in Nat /\ Ordinal(calls, a + 1) \in Nat
      BY <1>5a, <3>1, OrdinalType
    <3> QED
      BY <1>6, <3>2, <3>3
  <2>14. ASSUME ~garbled, ~gone
         PROVE  /\ Halved(calls, r, a + 1, inbound) /\ Replied(calls, r, a + 1, inbound, t, 0)
                /\ AllReplied(calls, r, a + 1, inbound, t, 0)
    <3>1. /\ Halved(calls, r, a, inbound) /\ Replied(calls, r, a, inbound, h.down, 0)
          /\ AllReplied(calls, r, a, inbound, h.down, 0)
      BY <1>6, <2>14
    <3> QED
      BY <1>1, <1>2, <1>3, <1>5a, <1>8, <2>5, <3>1, AnswerKeeps
  <2> QED
    BY <1>7, <2>7, <2>8, <2>11, <2>12, <2>13, <2>14 DEF Taking
<1> QED
  BY <1>10, <1>11

(* Drained is a run of Served. *)
Idle == [inbuf |-> inbuf, applied |-> applied, down |-> down]

LEMMA DrainedTakes ==
  ASSUME TypeInv, NEW n \in 0 .. Len(up), NEW r \in Nat, Taking(r, Idle, 0),
         NEW answer, \A i \in 1 .. n : answer[up[i].call] \in Answers
  PROVE  Taking(r, Drained(n, answer), n)
<1>1. n \in Nat /\ Len(up) \in Nat
  <2>1. up \in Seq(RequestUnit)
    BY DEF TypeInv
  <2>2. Len(up) \in Nat
    BY <2>1, LenProperties
  <2> QED
    BY <2>2
<1> DEFINE D == {h \in Host : \E j \in 0 .. n : Taking(r, h, j)}
           Step(k, x) == IF Taking(r, x, k - 1) THEN Served(x, up[k], answer) ELSE x
           F == [k \in 1 .. n |-> [x \in Host |-> Step(k, x)]]
<1>2. Idle \in Host
  BY DEF Taking
<1>3. ASSUME NEW k \in 1 .. n, NEW x \in Host PROVE Step(k, x) \in Host
  <2>1. CASE Taking(r, x, k - 1)
    <3>1. k - 1 \in Nat /\ k - 1 < Len(up) /\ (k - 1) + 1 = k
      BY <1>1
    <3> PICK u : u = up[k]
      OBVIOUS
    <3> PICK p : p = Served(x, u, answer)
      OBVIOUS
    <3>2. answer[u.call] \in Answers /\ u = up[(k - 1) + 1]
      BY <3>1
    <3>3. Taking(r, p, (k - 1) + 1)
      BY <2>1, <3>1, <3>2, ServedTakes
    <3>4. p \in Host
      BY <3>3 DEF Taking
    <3> QED
      BY <2>1, <3>4
  <2>2. CASE ~Taking(r, x, k - 1)
    BY <2>2
  <2> QED
    BY <2>1, <2>2
<1> HIDE DEF Step
<1>4. F \in [1 .. n -> [Host -> Host]]
  BY <1>3
<1>5. PICK v : Steps(Host, n, Idle, F, v)
  <2> HIDE DEF F
  <2> QED
    BY <1>1, <1>2, <1>4, StepsExist
<1>6. v \in [0 .. n -> Host] /\ v[0] = Idle /\ \A k \in 1 .. n : v[k] = F[k][v[k - 1]]
  BY <1>5 DEF Steps
<1>7. \A k \in 1 .. n : v[k] = Step(k, v[k - 1])
  <2> SUFFICES ASSUME NEW k \in 1 .. n PROVE v[k] = Step(k, v[k - 1])
    OBVIOUS
  <2>1. k - 1 \in 0 .. n
    BY <1>1
  <2>2. v[k - 1] \in Host /\ v[k] = F[k][v[k - 1]]
    BY <1>6, <2>1
  <2>3. \A x \in Host : F[k][x] = Step(k, x)
    OBVIOUS
  <2> HIDE DEF F
  <2> QED
    BY <2>2, <2>3
<1> HIDE DEF F
<1> DEFINE G == {k \in 0 .. n : Taking(r, v[k], k)}
<1>8. 0 \in G
  BY <1>1, <1>6
<1>9. ASSUME NEW k \in 0 .. n, k \in G, k < n
      PROVE  k + 1 \in G /\ v[k + 1] = Served(v[k], up[k + 1], answer)
  <2>1. k + 1 \in 1 .. n /\ k + 1 \in 0 .. n /\ (k + 1) - 1 = k /\ k \in Nat /\ k < Len(up)
    BY <1>1, <1>9
  <2>2. Taking(r, v[k], k)
    BY <1>9
  <2>3. v[k + 1] = Step(k + 1, v[k])
    BY <1>7, <2>1
  <2>4. v[k + 1] = Served(v[k], up[k + 1], answer)
    BY <2>1, <2>2, <2>3 DEF Step
  <2> PICK u : u = up[k + 1]
    OBVIOUS
  <2> PICK h : h = v[k]
    OBVIOUS
  <2> PICK p : p = Served(h, u, answer)
    OBVIOUS
  <2>5. Taking(r, p, k + 1)
    <3>1. answer[u.call] \in Answers
      BY <2>1
    <3> QED
      BY <2>1, <2>2, <3>1, ServedTakes
  <2> QED
    BY <2>1, <2>4, <2>5
<1>10. \A k \in 0 .. n : k \in G
  <2> HIDE DEF G
  <2> QED
    BY <1>1, <1>8, <1>9, CountUp
<1>11. \A k \in 1 .. n : v[k] = Served(v[k - 1], up[k], answer)
  <2> SUFFICES ASSUME NEW k \in 1 .. n PROVE v[k] = Served(v[k - 1], up[k], answer)
    OBVIOUS
  <2>1. k - 1 \in 0 .. n /\ k - 1 < n /\ (k - 1) + 1 = k
    BY <1>1
  <2> HIDE DEF G
  <2>2. v[(k - 1) + 1] = Served(v[k - 1], up[(k - 1) + 1], answer)
    BY <1>9, <1>10, <2>1
  <2> QED
    BY <2>1, <2>2
<1> DEFINE Runs(z) == [i \in 0 .. n |->
             IF i = 0 THEN [inbuf |-> inbuf, applied |-> applied, down |-> down]
             ELSE Served(z[i - 1], up[i], answer)]
<1>12. v = Runs(v)
  <2>1. \A k \in 0 .. n : k = 0 \/ k \in 1 .. n
    BY <1>1
  <2>2. \A k \in 0 .. n : v[k] = IF k = 0 THEN [inbuf |-> inbuf, applied |-> applied, down |-> down]
                                 ELSE Served(v[k - 1], up[k], answer)
    BY <1>6, <1>11, <2>1 DEF Idle
  <2> QED
    BY <1>6, <2>2
<1>13. PICK w : w = CHOOSE z : z = Runs(z)
  OBVIOUS
<1>14. w = Runs(w)
  BY <1>12, <1>13, Zenon
<1>15. Drained(n, answer) = w[n]
  BY <1>13, Zenon DEF Drained
<1>16. \A k \in 0 .. n : w[k] = IF k = 0 THEN Idle ELSE Served(w[k - 1], up[k], answer)
  <2>1. \A k \in 0 .. n : Runs(w)[k] = IF k = 0 THEN Idle ELSE Served(w[k - 1], up[k], answer)
    BY DEF Idle
  <2> HIDE DEF Runs
  <2> QED
    BY <1>14, <2>1
<1> HIDE DEF Runs
<1> DEFINE H == {k \in 0 .. n : w[k] = v[k]}
<1>17. 0 \in H
  <2>1. 0 \in 0 .. n
    BY <1>1
  <2> QED
    BY <1>6, <1>16, <2>1
<1>18. ASSUME NEW k \in 0 .. n, k \in H, k < n PROVE k + 1 \in H
  <2>1. k + 1 \in 1 .. n /\ k + 1 \in 0 .. n /\ (k + 1) - 1 = k /\ k + 1 # 0
    BY <1>1, <1>18
  <2>2. w[k] = v[k]
    BY <1>18
  <2>3. w[k + 1] = Served(w[k], up[k + 1], answer) /\ v[k + 1] = Served(v[k], up[k + 1], answer)
    BY <1>11, <1>16, <2>1
  <2>4. w[k + 1] = v[k + 1]
    BY <2>2, <2>3
  <2> QED
    BY <2>1, <2>4
<1> HIDE DEF H
<1>19. n \in 0 .. n
  BY <1>1
<1>20. n \in H
  BY <1>1, <1>17, <1>18, <1>19, CountUp
<1>21. w[n] = v[n] /\ Taking(r, v[n], n)
  BY <1>10, <1>19, <1>20 DEF H
<1> QED
  BY <1>15, <1>21

LEMMA AskedRest ==
  ASSUME NEW cs, NEW e, NEW s, NEW t, NEW n \in Nat, Shifted(s, t, n)
  PROVE  /\ Asked(cs, e, s, n) => Asked(cs, e, t, 0)
         /\ AllAsked(cs, e, s, n) => AllAsked(cs, e, t, 0)
<1>1. /\ Len(t) \in Nat /\ Len(s) = Len(t) + n
      /\ \A i \in 1 .. Len(t) : t[i] = s[i + n]
  BY DEF Shifted
<1>2. \A i \in 1 .. Len(t) : /\ i + n \in 1 .. Len(s) /\ n < i + n
                             /\ i < Len(t) => i + n < Len(s) /\ i + 1 \in 1 .. Len(t)
                                              /\ (i + n) + 1 = (i + 1) + n
  BY <1>1
<1>3. /\ n < Len(s) <=> 0 < Len(t)
      /\ 0 < Len(t) => 1 \in 1 .. Len(t) /\ Len(t) \in 1 .. Len(t) /\ 1 + n = n + 1
  BY <1>1
<1>4. ASSUME Asked(cs, e, s, n) PROVE Asked(cs, e, t, 0)
  <2>1. 0 < Len(t) => t[0 + 1] = e
    <3>1. 0 < Len(t) => t[0 + 1] = s[n + 1]
      BY <1>1, <1>3
    <3> QED
      BY <1>3, <1>4, <3>1 DEF Asked
  <2>2. \A i \in 1 .. Len(t) : t[i].call \in 1 .. Len(cs)
    BY <1>1, <1>2, <1>4 DEF Asked
  <2>3. ASSUME NEW i \in 1 .. Len(t), i < Len(t) PROVE t[i + 1] = NextUnit(cs, t[i])
    <3>1. s[(i + n) + 1] = NextUnit(cs, s[i + n])
      BY <1>2, <1>4, <2>3 DEF Asked
    <3>2. t[i] = s[i + n] /\ t[i + 1] = s[(i + n) + 1]
      BY <1>1, <1>2, <2>3
    <3> QED
      BY <3>1, <3>2
  <2> QED
    BY <2>1, <2>2, <2>3 DEF Asked
<1>5. 0 < Len(t) => Last(t) = Last(s)
  BY <1>1, <1>3 DEF Last
<1>6. ASSUME AllAsked(cs, e, s, n) PROVE AllAsked(cs, e, t, 0)
  BY <1>3, <1>5, <1>6 DEF AllAsked
<1> QED
  BY <1>4, <1>6

-----------------------------------------------------------------------------
(* The host's step.                                                         *)

LEMMA IdleTakes ==
  ASSUME TypeInv, NEW r \in Nat, Paired(r), Ordered, dead = FALSE
  PROVE  Taking(r, Idle, 0)
<1>1. Idle \in Host /\ Idle.inbuf = inbuf /\ Idle.applied = applied /\ Idle.down = down
  BY DEF TypeInv, Idle, Host
<1>2. LET h == [inbuf |-> inbuf, applied |-> applied]
      IN  /\ Begun(calls, h) /\ Asked(calls, Expected(h), up, 0)
          /\ ~gone => AllAsked(calls, Expected(h), up, 0)
  BY DEF Ordered
<1>3. Expected([inbuf |-> inbuf, applied |-> applied]) = Expected(Idle)
  BY <1>1 DEF Expected
<1>4. Begun(calls, [inbuf |-> inbuf, applied |-> applied]) <=> Begun(calls, Idle)
  BY <1>1 DEF Begun
<1>5. /\ Begun(calls, Idle) /\ Asked(calls, Expected(Idle), up, 0)
      /\ ~gone => AllAsked(calls, Expected(Idle), up, 0)
  BY <1>2, <1>3, <1>4
<1>6. /\ r <= Ordinal(calls, Len(applied))
      /\ ~garbled /\ ~gone =>
           /\ Halved(calls, r, Len(applied), inbound)
           /\ Replied(calls, r, Len(applied), inbound, down, 0)
           /\ AllReplied(calls, r, Len(applied), inbound, down, 0)
  BY DEF Paired
<1> QED
  BY <1>1, <1>5, <1>6 DEF Taking

(* What the client's books say is not the host's to change. *)
LEMMA BooksKept ==
  ASSUME TypeInv, NEW r \in Nat, Paired(r), Named, UNCHANGED <<calls, session, history>>
  PROVE  /\ completed' <= r /\ Promised(calls', r, abandoned', completed') /\ Named'
         /\ ~garbled' /\ ~gone' =>
              /\ ~garbled /\ ~gone
              /\ Covered(calls', r, abandoned', waiting', pending')
              /\ abandoned' = {} => Lined(calls', r, waiting', pending')
<1>1. /\ calls' = calls /\ completed' = completed /\ abandoned' = abandoned /\ waiting' = waiting
      /\ pending' = pending /\ garbled' = garbled /\ gone' = gone /\ reads' = reads /\ sink' = sink
  BY DEF session, history
<1>2. Named'
  BY <1>1 DEF Named
<1> QED
  BY <1>1, <1>2 DEF Paired

LEMMA HostKilled ==
  ASSUME TypeInv, NEW r \in Nat, Paired(r), Named, NEW h, NEW j, Taking(r, h, j),
         UNCHANGED <<calls, session, history>>, up' \in Seq(RequestUnit), faults' \in 0 .. MaxFaults,
         applied' = h.applied, dead' = TRUE, inbuf' = <<>>,
         NEW m \in 0 .. Len(h.down), down' = Take(h.down, m)
  PROVE  TypeInv' /\ Replies'
<1>1. /\ h.inbuf \in Seq(RequestUnit) /\ h.applied \in Seq(Calls) /\ h.down \in Seq(ReplyUnit)
      /\ Begun(calls, h) /\ r <= Ordinal(calls, Len(h.applied))
      /\ ~garbled /\ ~gone =>
           /\ Halved(calls, r, Len(h.applied), inbound)
           /\ Replied(calls, r, Len(h.applied), inbound, h.down, 0)
  BY DEF Taking, Host
<1>2. down' \in Seq(ReplyUnit) /\ Starting(h.down, down', m)
  BY <1>1, StartingIs
<1>3. Len(h.down) \in Nat
  BY <1>1, LenProperties
<1>4. ASSUME ~garbled, ~gone PROVE Replied(calls, r, Len(h.applied), inbound, down', 0)
  BY <1>1, <1>2, <1>3, <1>4, RepliedCut
<1>5. <<>> \in Seq(RequestUnit)
  BY EmptySeq
<1>6. TypeInv'
  BY <1>1, <1>2, <1>5 DEF TypeInv, session, history
<1>7. calls' = calls /\ inbound' = inbound
  BY DEF session
<1>8. Paired(r)'
  <2>1. r <= Ordinal(calls', Len(applied'))
    BY <1>1, <1>7
  <2>2. ~garbled' /\ ~gone' =>
          /\ Halved(calls', r, Len(applied'), inbound')
          /\ Replied(calls', r, Len(applied'), inbound', down', 0)
    BY <1>1, <1>4, <1>7, BooksKept
  <2> QED
    BY <2>1, <2>2, BooksKept DEF Paired
<1>9. Ordered'
  BY <1>1, <1>7 DEF Ordered, Begun
<1> QED
  BY <1>6, <1>8, <1>9, BooksKept DEF Replies

LEMMA HostServed ==
  ASSUME TypeInv, NEW r \in Nat, Paired(r), Named, NEW h, NEW n \in 0 .. Len(up), Taking(r, h, n),
         UNCHANGED <<calls, session, history>>, up' = Drop(up, n), faults' = faults,
         dead' = dead, inbuf' = h.inbuf, applied' = h.applied, down' = h.down
  PROVE  TypeInv' /\ Replies'
<1>1. /\ h.inbuf \in Seq(RequestUnit) /\ h.applied \in Seq(Calls) /\ h.down \in Seq(ReplyUnit)
      /\ Begun(calls, h) /\ Asked(calls, Expected(h), up, n)
      /\ ~gone => AllAsked(calls, Expected(h), up, n)
      /\ r <= Ordinal(calls, Len(h.applied))
      /\ ~garbled /\ ~gone =>
           /\ Halved(calls, r, Len(h.applied), inbound)
           /\ Replied(calls, r, Len(h.applied), inbound, h.down, 0)
           /\ AllReplied(calls, r, Len(h.applied), inbound, h.down, 0)
  BY DEF Taking, Host
<1>2. up \in Seq(RequestUnit) /\ Len(up) \in Nat /\ n \in Nat
  <2>1. up \in Seq(RequestUnit)
    BY DEF TypeInv
  <2>2. Len(up) \in Nat
    BY <2>1, LenProperties
  <2> QED
    BY <2>1, <2>2
<1>3. up' \in Seq(RequestUnit) /\ Shifted(up, up', n)
  BY <1>2, ShiftedIs
<1>4. /\ Asked(calls, Expected(h), up', 0)
      /\ ~gone => AllAsked(calls, Expected(h), up', 0)
  BY <1>1, <1>2, <1>3, AskedRest
<1>5. TypeInv'
  BY <1>1, <1>3 DEF TypeInv, session, history
<1>6. calls' = calls /\ inbound' = inbound /\ gone' = gone
  BY DEF session
<1>7. Paired(r)'
  <2>1. r <= Ordinal(calls', Len(applied'))
    BY <1>1, <1>6
  <2>2. ~garbled' /\ ~gone' =>
          /\ Halved(calls', r, Len(applied'), inbound')
          /\ Replied(calls', r, Len(applied'), inbound', down', 0)
          /\ AllReplied(calls', r, Len(applied'), inbound', down', 0)
    BY <1>1, <1>6, BooksKept
  <2> QED
    BY <2>1, <2>2, BooksKept DEF Paired
<1>8. Ordered'
  <2> PICK g : g = [inbuf |-> inbuf', applied |-> applied']
    OBVIOUS
  <2>1. g.inbuf = h.inbuf /\ g.applied = h.applied
    OBVIOUS
  <2>2. Expected(g) = Expected(h) /\ (Begun(calls, g) <=> Begun(calls, h))
    BY <2>1 DEF Expected, Begun
  <2>3. /\ Begun(calls', g) /\ Asked(calls', Expected(g), up', 0)
        /\ ~gone' => AllAsked(calls', Expected(g), up', 0)
    BY <1>1, <1>4, <1>6, <2>2
  <2>4. Len(applied') <= Len(calls') /\ \A i \in 1 .. Len(applied') : applied'[i] = i
    BY <1>1, <1>6 DEF Begun
  <2> QED
    BY <2>3, <2>4 DEF Ordered
<1> QED
  BY <1>5, <1>7, <1>8, BooksKept DEF Replies

LEMMA HostReceivesKeeps ==
  ASSUME TypeInv, Replies, NEW n \in 1 .. CHUNK_MAX, n <= Len(up), HostReceives(n)
  PROVE  TypeInv' /\ Replies'
<1>1. /\ up' = Drop(up, n) /\ UNCHANGED <<calls, session, history>>
      /\ \/ /\ dead
            /\ UNCHANGED <<down, server, faults>>
         \/ /\ ~dead /\ Len(inbuf) + n > FRAME_MAX
            /\ Kill(down)
            /\ UNCHANGED <<applied, faults>>
         \/ /\ ~dead /\ Len(inbuf) + n <= FRAME_MAX
            /\ Drain(n)
  BY Zenon DEF HostReceives
<1>2. PICK r \in Nat : Paired(r)
  BY DEF Replies
<1>3. Ordered /\ Named
  BY DEF Replies
<1>4. up \in Seq(RequestUnit) /\ Len(up) \in Nat /\ n \in 0 .. Len(up) /\ n \in Nat
  <2>1. up \in Seq(RequestUnit)
    BY DEF TypeInv
  <2>2. Len(up) \in Nat
    BY <2>1, LenProperties
  <2> QED
    BY <2>1, <2>2, RpcAssumption
<1>5. up' \in Seq(RequestUnit)
  BY <1>1, <1>4, ShiftedIs
<1>6. faults \in 0 .. MaxFaults /\ dead \in BOOLEAN /\ MaxFaults \in Nat
  BY RpcAssumption DEF TypeInv
<1>7. Idle.inbuf = inbuf /\ Idle.applied = applied /\ Idle.down = down
  BY DEF Idle
<1>8. CASE dead /\ UNCHANGED <<down, server, faults>>
  <2>1. TypeInv'
    BY <1>1, <1>5, <1>8 DEF TypeInv, session, server, history
  <2>2. Paired(r)'
    BY <1>1, <1>2, <1>8 DEF Paired, session, server, history
  <2>3. Ordered'
    BY <1>1, <1>3, <1>8 DEF Ordered, session, server
  <2>4. Named'
    BY <1>1, <1>3 DEF Named, session, history
  <2> QED
    BY <2>1, <2>2, <2>3, <2>4 DEF Replies
<1>9. CASE ~dead /\ Kill(down) /\ UNCHANGED <<applied, faults>>
  <2>1. Taking(r, Idle, 0)
    BY <1>2, <1>3, <1>6, <1>9, IdleTakes
  <2>2. dead' = TRUE /\ inbuf' = <<>> /\ \E m \in 0 .. Len(down) : down' = Take(down, m)
    BY <1>9 DEF Kill
  <2>3. PICK m \in 0 .. Len(Idle.down) : down' = Take(Idle.down, m)
    BY <1>7, <2>2
  <2>4. applied' = Idle.applied /\ faults' \in 0 .. MaxFaults
    BY <1>6, <1>7, <1>9
  <2> QED
    BY <1>1, <1>2, <1>3, <1>5, <2>1, <2>2, <2>3, <2>4, HostKilled
<1>10. CASE ~dead /\ Drain(n)
  <2>1. Taking(r, Idle, 0)
    BY <1>2, <1>3, <1>6, <1>10, IdleTakes
  <2>2. PICK answer \in [{up[i].call : i \in 1 .. n} -> Answers] :
          \/ LET s == Drained(n, answer)
             IN  /\ inbuf' = s.inbuf /\ applied' = s.applied /\ down' = s.down
                 /\ UNCHANGED <<dead, faults>>
          \/ /\ faults < MaxFaults /\ faults' = faults + 1
             /\ \E j \in 1 .. n :
                  /\ EndsRequest(up[j]) /\ HasReply(up[j].call)
                  /\ LET s == Drained(j, answer)
                     IN  applied' = s.applied /\ Kill(s.down)
    BY <1>10, Zenon DEF Drain
  <2>3. \A i \in 1 .. n : answer[up[i].call] \in Answers
    OBVIOUS
  <2>4. CASE LET s == Drained(n, answer)
             IN  /\ inbuf' = s.inbuf /\ applied' = s.applied /\ down' = s.down
                 /\ UNCHANGED <<dead, faults>>
    <3> PICK h : h = Drained(n, answer)
      OBVIOUS
    <3>1. Taking(r, h, n)
      BY <1>4, <2>1, <2>3, DrainedTakes
    <3>2. inbuf' = h.inbuf /\ applied' = h.applied /\ down' = h.down /\ dead' = dead /\ faults' = faults
      BY <2>4
    <3> QED
      BY <1>1, <1>2, <1>3, <1>4, <3>1, <3>2, HostServed
  <2>5. ASSUME faults < MaxFaults, faults' = faults + 1, NEW j \in 1 .. n,
               applied' = Drained(j, answer).applied, Kill(Drained(j, answer).down)
        PROVE  TypeInv' /\ Replies'
    <3> PICK h : h = Drained(j, answer)
      OBVIOUS
    <3>1. j \in 0 .. Len(up) /\ \A i \in 1 .. j : answer[up[i].call] \in Answers
      <4>1. j \in 0 .. Len(up) /\ \A i \in 1 .. j : i \in 1 .. n
        BY <1>4
      <4> QED
        BY <2>3, <4>1
    <3>2. Taking(r, h, j)
      BY <2>1, <3>1, DrainedTakes
    <3>3. /\ applied' = h.applied /\ dead' = TRUE /\ inbuf' = <<>>
          /\ \E m \in 0 .. Len(h.down) : down' = Take(h.down, m)
      BY <2>5 DEF Kill
    <3>4. PICK m \in 0 .. Len(h.down) : down' = Take(h.down, m)
      BY <3>3
    <3>5. faults' \in 0 .. MaxFaults
      BY <1>6, <2>5
    <3> QED
      BY <1>1, <1>2, <1>3, <1>5, <3>2, <3>3, <3>4, <3>5, HostKilled
  <2> QED
    BY <2>2, <2>4, <2>5, Zenon
<1> QED
  BY <1>1, <1>8, <1>9, <1>10, Zenon

-----------------------------------------------------------------------------
(* One more request has been written: cs has grown to cs2.                  *)

LEMMA WrittenKeeps ==
  ASSUME NEW cs, NEW cs2, NEW c, Grown(cs, cs2, c), NEW k, Due(cs, k)
  PROVE  Due(cs2, k) /\ Ordinal(cs2, k) = Ordinal(cs, k)
<1>1. k \in 1 .. Len(cs) /\ Len(cs) \in Nat /\ cs2[k] = cs[k] /\ Len(cs2) = Len(cs) + 1
  BY DEF Due, Grown
<1>2. k \in 0 .. Len(cs) /\ k \in 1 .. Len(cs2)
  BY <1>1
<1> QED
  BY <1>1, <1>2, OrdinalKept DEF Due

LEMMA RepliedWritten ==
  ASSUME NEW cs, NEW cs2, NEW c, Grown(cs, cs2, c), NEW r, NEW a \in 0 .. Len(cs), NEW inb, NEW s,
         Len(s) \in Nat, Halved(cs, r, a, inb), Replied(cs, r, a, inb, s, 0)
  PROVE  /\ Halved(cs2, r, a, inb) /\ Replied(cs2, r, a, inb, s, 0)
         /\ AllReplied(cs, r, a, inb, s, 0) => AllReplied(cs2, r, a, inb, s, 0)
<1>1. ASSUME NEW u, Sound(cs, a, u)
      PROVE  Sound(cs2, a, u) /\ Ordinal(cs2, u.call) = Ordinal(cs, u.call)
  BY <1>1, WrittenKeeps DEF Sound
<1>2. \A i \in 1 .. Len(s) : Sound(cs, a, s[i])
  BY DEF Replied
<1>3. Halved(cs2, r, a, inb)
  <2>1. Len(inb) = 1 => Sound(cs, a, inb[1]) /\ Opens(cs, r, inb[1]) /\ ~EndsReply(inb[1])
    BY DEF Halved
  <2>2. Len(inb) = 1 => Sound(cs2, a, inb[1]) /\ Opens(cs2, r, inb[1])
    BY <1>1, <2>1 DEF Opens
  <2>3. Len(inb) \in {0, 1}
    BY DEF Halved
  <2> QED
    BY <2>1, <2>2, <2>3 DEF Halved
<1>4. Replied(cs2, r, a, inb, s, 0)
  <2>1. 0 < Len(s) => IF Len(inb) = 0 THEN Opens(cs2, r, s[0 + 1]) ELSE s[0 + 1] = Payload(inb[1])
    <3>1. 0 < Len(s) => IF Len(inb) = 0 THEN Opens(cs, r, s[0 + 1]) ELSE s[0 + 1] = Payload(inb[1])
      BY DEF Replied
    <3>2. 0 < Len(s) => Ordinal(cs2, s[0 + 1].call) = Ordinal(cs, s[0 + 1].call)
      <4>1. 0 < Len(s) => 0 + 1 \in 1 .. Len(s)
        OBVIOUS
      <4> QED
        BY <1>1, <1>2, <4>1
    <3> QED
      BY <3>1, <3>2 DEF Opens
  <2>2. \A i \in 1 .. Len(s) : Sound(cs2, a, s[i])
    BY <1>1, <1>2
  <2>3. ASSUME NEW i \in 1 .. Len(s), i < Len(s) PROVE Behind(cs2, s[i], s[i + 1])
    <3>1. i + 1 \in 1 .. Len(s) /\ 0 < i
      BY <2>3
    <3>2. Behind(cs, s[i], s[i + 1])
      BY <2>3, <3>1 DEF Replied
    <3>3. /\ Ordinal(cs2, s[i].call) = Ordinal(cs, s[i].call)
          /\ Ordinal(cs2, s[i + 1].call) = Ordinal(cs, s[i + 1].call)
      BY <1>1, <1>2, <3>1
    <3> QED
      BY <3>2, <3>3 DEF Behind, Opens
  <2> QED
    BY <2>1, <2>2, <2>3 DEF Replied
<1>5. ASSUME AllReplied(cs, r, a, inb, s, 0) PROVE AllReplied(cs2, r, a, inb, s, 0)
  <2>1. Ordinal(cs2, a) = Ordinal(cs, a)
    BY OrdinalKept
  <2>2. 0 < Len(s) => Ordinal(cs2, Last(s).call) = Ordinal(cs, Last(s).call)
    <3>1. 0 < Len(s) => Len(s) \in 1 .. Len(s)
      OBVIOUS
    <3> QED
      BY <1>1, <1>2, <3>1 DEF Last
  <2> QED
    BY <1>5, <2>1, <2>2 DEF AllReplied
<1> QED
  BY <1>3, <1>4, <1>5

(* What the new call's ticket promises, and what the books say of it. *)
LEMMA PromisedWritten ==
  ASSUME NEW cs \in Seq(CallRecord), NEW cs2, NEW c \in CallRecord, Grown(cs, cs2, c),
         NEW r \in Nat, NEW ab, IsFiniteSet(ab), NEW n \in Nat, Promised(cs, r, ab, n),
         c.op = "CALL" /\ Len(cs) + 1 \notin ab =>
           n + Ordinal(cs, Len(cs)) + 1 <= r + c.ticket + Cardinality(ab)
  PROVE  Promised(cs2, r, ab, n)
<1>1. /\ Len(cs) \in Nat /\ Len(cs2) = Len(cs) + 1 /\ cs2[Len(cs) + 1] = c
      /\ \A i \in 1 .. Len(cs) : cs2[i] = cs[i]
  BY DEF Grown
<1> SUFFICES ASSUME NEW k \in 1 .. Len(cs2), cs2[k].op = "CALL", k \notin ab
             PROVE  n + Ordinal(cs2, k) <= r + cs2[k].ticket + Cardinality(ab)
  BY DEF Promised
<1>2. CASE k \in 1 .. Len(cs)
  <2>1. cs2[k] = cs[k] /\ k \in 0 .. Len(cs)
    BY <1>1, <1>2
  <2>2. Ordinal(cs2, k) = Ordinal(cs, k)
    BY <2>1, OrdinalKept
  <2> QED
    BY <1>2, <2>1, <2>2 DEF Promised
<1>3. CASE k = Len(cs) + 1
  <2>1. cs2[k] = c /\ Len(cs) \in 0 .. Len(cs)
    BY <1>1, <1>3
  <2>2. Ordinal(cs2, Len(cs) + 1) = Ordinal(cs2, Len(cs)) + 1
    BY <1>1, <1>3, <2>1, OrdinalNext
  <2>3. Ordinal(cs2, Len(cs)) = Ordinal(cs, Len(cs)) /\ Ordinal(cs, Len(cs)) \in Nat
    BY <1>1, <2>1, OrdinalKept, OrdinalType
  <2>4. n + Ordinal(cs, Len(cs)) + 1 <= r + c.ticket + Cardinality(ab)
    BY <1>3, <2>1
  <2>5. \A o \in Nat : n + (o + 1) = n + o + 1
    OBVIOUS
  <2> QED
    BY <1>3, <2>1, <2>2, <2>3, <2>4, <2>5
<1> QED
  BY <1>1, <1>2, <1>3

LEMMA OrdinalWritten ==
  ASSUME NEW cs, NEW cs2, NEW c, Grown(cs, cs2, c)
  PROVE  /\ Len(cs2) = Len(cs) + 1 /\ Ordinal(cs, Len(cs)) \in Nat
         /\ Ordinal(cs2, Len(cs2)) = IF c.op = "ONEWAY" THEN Ordinal(cs, Len(cs))
                                                       ELSE Ordinal(cs, Len(cs)) + 1
         /\ c.op # "ONEWAY" => Due(cs2, Len(cs) + 1)
<1>1. Len(cs) \in Nat /\ Len(cs2) = Len(cs) + 1 /\ cs2[Len(cs) + 1] = c /\ Len(cs) \in 0 .. Len(cs)
  BY DEF Grown
<1>2. Ordinal(cs2, Len(cs)) = Ordinal(cs, Len(cs)) /\ Ordinal(cs, Len(cs)) \in Nat
  BY <1>1, OrdinalKept, OrdinalType
<1>3. Ordinal(cs2, Len(cs) + 1) = IF c.op = "ONEWAY" THEN Ordinal(cs2, Len(cs))
                                                   ELSE Ordinal(cs2, Len(cs)) + 1
  BY <1>1, OrdinalNext
<1>4. Len(cs) + 1 \in 1 .. Len(cs2)
  BY <1>1
<1> QED
  BY <1>1, <1>2, <1>3, <1>4 DEF Due

(* One abandoned call more. *)
LEMMA Abandons ==
  ASSUME NEW ab, IsFiniteSet(ab), NEW k, k \notin ab
  PROVE  /\ IsFiniteSet(ab \cup {k}) /\ Cardinality(ab) \in Nat
         /\ Cardinality(ab \cup {k}) = Cardinality(ab) + 1
BY FS_AddElement, FS_CardinalityType

LEMMA PromisedAbandons ==
  ASSUME NEW cs \in Seq(CallRecord), NEW r \in Nat, NEW ab, IsFiniteSet(ab), NEW k, k \notin ab,
         NEW n \in Nat, Promised(cs, r, ab, n)
  PROVE  Promised(cs, r, ab \cup {k}, n)
<1>1. Cardinality(ab) \in Nat /\ Cardinality(ab \cup {k}) = Cardinality(ab) + 1
  BY Abandons
<1>2. ASSUME NEW i \in 1 .. Len(cs)
      PROVE  Ordinal(cs, i) \in Nat /\ cs[i].ticket \in Nat
  <2>1. i \in Nat /\ cs[i] \in CallRecord
    BY LenProperties, ElementOfSeq
  <2> QED
    BY <2>1, OrdinalType DEF CallRecord
<1>3. \A o, t, e \in Nat : n + o <= r + t + e => n + o <= r + t + (e + 1)
  OBVIOUS
<1>4. \A i \in 1 .. Len(cs) : cs[i].op = "CALL" /\ i \notin ab \cup {k} =>
        n + Ordinal(cs, i) <= r + cs[i].ticket + Cardinality(ab)
  BY DEF Promised
<1>5. \A i \in 1 .. Len(cs) : cs[i].op = "CALL" /\ i \notin ab \cup {k} =>
        n + Ordinal(cs, i) <= r + cs[i].ticket + Cardinality(ab \cup {k})
  BY <1>1, <1>2, <1>3, <1>4
<1> QED
  BY <1>5 DEF Promised

(* t is s and the units of a request k behind it. *)
Extended(s, t, k, size) ==
  /\ Len(s) \in Nat /\ Len(t) = Len(s) + size + 1
  /\ \A i \in 1 .. Len(s) : t[i] = s[i]
  /\ \A q \in 1 .. size + 1 : t[Len(s) + q] = [call |-> k, part |-> q - 1]

LEMMA RequestIs ==
  ASSUME NEW s \in Seq(RequestUnit), NEW k \in Calls, NEW size \in Sizes
  PROVE  s \o Request(k, size) \in Seq(RequestUnit) /\ Extended(s, s \o Request(k, size), k, size)
<1> PICK x : x = Request(k, size)
  OBVIOUS
<1>1. size \in Nat /\ size <= FRAME_MAX /\ FRAME_MAX \in Nat
  BY RpcAssumption
<1>2. \A i \in 1 .. size + 1 : i - 1 \in 0 .. FRAME_MAX
  BY <1>1
<1>3. x = [i \in 1 .. size + 1 |-> [call |-> k, part |-> i - 1]]
  BY DEF Request
<1>4. \A i \in 1 .. size + 1 : [call |-> k, part |-> i - 1] \in RequestUnit
  BY <1>2 DEF RequestUnit
<1>5. size + 1 \in Nat
  BY <1>1
<1>6. x \in Seq(RequestUnit) /\ Len(x) = size + 1 /\ \A i \in 1 .. size + 1 : x[i] = [call |-> k, part |-> i - 1]
  <2>1. x \in [1 .. size + 1 -> RequestUnit]
    BY <1>3, <1>4
  <2>2. x \in Seq(RequestUnit)
    BY <1>5, <2>1, SeqDef
  <2>3. DOMAIN x = 1 .. size + 1 /\ DOMAIN x = 1 .. Len(x) /\ Len(x) \in Nat
    BY <2>1, <2>2, LenProperties
  <2>4. \A m, n \in Nat : 1 .. m = 1 .. n => m = n
    <3> SUFFICES ASSUME NEW m \in Nat, NEW n \in Nat, 1 .. m = 1 .. n PROVE m = n
      OBVIOUS
    <3>1. CASE m < n
      <4>1. n \in 1 .. n /\ n \notin 1 .. m
        BY <3>1
      <4> QED
        BY <4>1
    <3>2. CASE n < m
      <4>1. m \in 1 .. m /\ m \notin 1 .. n
        BY <3>2
      <4> QED
        BY <4>1
    <3> QED
      BY <3>1, <3>2
  <2>5. Len(x) = size + 1
    BY <1>5, <2>3, <2>4
  <2> QED
    BY <1>3, <2>2, <2>5
<1> PICK t : t = s \o x
  OBVIOUS
<1>7. /\ t \in Seq(RequestUnit) /\ Len(t) = Len(s) + Len(x)
      /\ \A i \in 1 .. Len(s) + Len(x) : t[i] = IF i <= Len(s) THEN s[i] ELSE x[i - Len(s)]
  BY <1>6, ConcatProperties
<1>8. Len(s) \in Nat
  BY LenProperties
<1>9. Len(t) = Len(s) + size + 1
  <2>1. \A m, n \in Nat : m + (n + 1) = m + n + 1
    OBVIOUS
  <2> QED
    BY <1>1, <1>6, <1>7, <1>8, <2>1
<1>10. \A i \in 1 .. Len(s) : t[i] = s[i]
  <2>1. \A i \in 1 .. Len(s) : i \in 1 .. Len(s) + Len(x) /\ i <= Len(s)
    BY <1>1, <1>6, <1>8
  <2> QED
    BY <1>7, <2>1
<1>11. \A q \in 1 .. size + 1 : t[Len(s) + q] = [call |-> k, part |-> q - 1]
  <2>1. \A q \in 1 .. size + 1 : /\ Len(s) + q \in 1 .. Len(s) + Len(x) /\ ~(Len(s) + q <= Len(s))
                                 /\ (Len(s) + q) - Len(s) = q
    BY <1>1, <1>6, <1>8
  <2>2. \A q \in 1 .. size + 1 : t[Len(s) + q] = x[q]
    BY <1>7, <2>1
  <2> QED
    BY <1>6, <2>2
<1>12. s \o Request(k, size) = t
  OBVIOUS
<1> QED
  BY <1>7, <1>8, <1>9, <1>10, <1>11, <1>12 DEF Extended

LEMMA AskedWritten ==
  ASSUME NEW cs, NEW cs2, NEW c, Grown(cs, cs2, c), c.size \in Nat, NEW e, NEW s, NEW t,
         Extended(s, t, Len(cs) + 1, c.size), Asked(cs, e, s, 0), AllAsked(cs, e, s, 0)
  PROVE  Asked(cs2, e, t, 0) /\ AllAsked(cs2, e, t, 0)
<1> PICK k : k = Len(cs) + 1
  OBVIOUS
<1> PICK z : z = c.size
  OBVIOUS
<1>1. /\ Len(cs) \in Nat /\ Len(cs2) = Len(cs) + 1 /\ cs2[k] = c
      /\ \A i \in 1 .. Len(cs) : cs2[i] = cs[i]
  BY DEF Grown
<1>2. /\ Len(s) \in Nat /\ Len(t) = Len(s) + z + 1
      /\ \A i \in 1 .. Len(s) : t[i] = s[i]
      /\ \A q \in 1 .. z + 1 : t[Len(s) + q] = [call |-> k, part |-> q - 1]
  BY DEF Extended
<1>3. z \in Nat /\ k \in 1 .. Len(cs2) /\ \A i \in 1 .. Len(cs) : i \in 1 .. Len(cs2)
  BY <1>1
<1>4. t[Len(s) + 1] = [call |-> k, part |-> 0]
  <2>1. 1 \in 1 .. z + 1 /\ 1 - 1 = 0
    BY <1>3
  <2> QED
    BY <1>2, <2>1
<1>5. t[0 + 1] = e
  <2>1. CASE Len(s) = 0
    <3>1. e = [call |-> k, part |-> 0]
      BY <2>1 DEF AllAsked
    <3> QED
      BY <1>4, <2>1, <3>1
  <2>2. CASE Len(s) # 0
    <3>1. 0 < Len(s) /\ 0 + 1 \in 1 .. Len(s)
      BY <1>2, <2>2
    <3>2. s[0 + 1] = e
      BY <3>1 DEF Asked
    <3> QED
      BY <1>2, <3>1, <3>2
  <2> QED
    BY <2>1, <2>2
<1>6. \A i \in 1 .. Len(t) : i \in 1 .. Len(s) \/ \E q \in 1 .. z + 1 : i = Len(s) + q
  <2> SUFFICES ASSUME NEW i \in 1 .. Len(t), i \notin 1 .. Len(s)
               PROVE  \E q \in 1 .. z + 1 : i = Len(s) + q
    OBVIOUS
  <2>1. i - Len(s) \in 1 .. z + 1 /\ i = Len(s) + (i - Len(s))
    BY <1>2, <1>3
  <2> QED
    BY <2>1
<1>7. \A i \in 1 .. Len(s) : s[i].call \in 1 .. Len(cs)
  BY DEF Asked
<1>8. \A i \in 1 .. Len(t) : t[i].call \in 1 .. Len(cs2)
  <2>1. \A i \in 1 .. Len(s) : t[i].call \in 1 .. Len(cs2)
    BY <1>2, <1>3, <1>7
  <2>2. \A q \in 1 .. z + 1 : t[Len(s) + q].call \in 1 .. Len(cs2)
    <3>1. ASSUME NEW q \in 1 .. z + 1 PROVE t[Len(s) + q].call = k
      <4> PICK v : v = [call |-> k, part |-> q - 1]
        OBVIOUS
      <4>1. t[Len(s) + q] = v
        BY <1>2
      <4>2. v.call = k
        OBVIOUS
      <4> QED
        BY <4>1, <4>2
    <3> QED
      BY <1>3, <3>1, Zenon
  <2> QED
    BY <1>6, <2>1, <2>2
<1>9. ASSUME NEW i \in 1 .. Len(s)
      PROVE  NextUnit(cs2, t[i]) = NextUnit(cs, s[i])
  BY <1>1, <1>2, <1>7 DEF NextUnit
<1>10. ASSUME NEW i \in 1 .. Len(t), i < Len(t) PROVE t[i + 1] = NextUnit(cs2, t[i])
  <2>1. CASE i \in 1 .. Len(s) /\ i < Len(s)
    <3>1. i + 1 \in 1 .. Len(s) /\ 0 < i
      <4>1. \A n \in Nat : \A x \in 1 .. n : x < n => x + 1 \in 1 .. n /\ 0 < x
        OBVIOUS
      <4>2. Len(s) \in Nat
        BY <1>2
      <4> QED
        BY <2>1, <4>1, <4>2
    <3>2. s[i + 1] = NextUnit(cs, s[i])
      BY <2>1, <3>1 DEF Asked
    <3> QED
      BY <1>2, <1>9, <2>1, <3>1, <3>2
  <2>2. CASE i \in 1 .. Len(s) /\ i = Len(s)
    <3>1. 0 < Len(s)
      BY <1>2, <2>2
    <3>2. [call |-> k, part |-> 0] = NextUnit(cs, s[i])
      BY <2>2, <3>1 DEF AllAsked, Last
    <3> QED
      BY <1>4, <1>9, <2>2, <3>2
  <2>3. ASSUME NEW q \in 1 .. z + 1, i = Len(s) + q PROVE t[i + 1] = NextUnit(cs2, t[i])
    <3>1. q # z + 1 /\ q + 1 \in 1 .. z + 1 /\ i + 1 = Len(s) + (q + 1) /\ (q + 1) - 1 = q
          /\ q - 1 # z /\ (q - 1) + 1 = q
      BY <1>2, <1>3, <1>10, <2>3
    <3>2. t[i] = [call |-> k, part |-> q - 1] /\ t[i + 1] = [call |-> k, part |-> q]
      BY <1>2, <2>3, <3>1
    <3>3. NextUnit(cs2, t[i]) = [call |-> k, part |-> (q - 1) + 1]
      BY <1>1, <3>1, <3>2 DEF NextUnit
    <3> QED
      BY <3>1, <3>2, <3>3
  <2>4. i \in 1 .. Len(s) => i < Len(s) \/ i = Len(s)
    BY <1>2
  <2> QED
    BY <1>6, <2>1, <2>2, <2>3, <2>4
<1>11. Asked(cs2, e, t, 0)
  BY <1>5, <1>8, <1>10 DEF Asked
<1>12. AllAsked(cs2, e, t, 0)
  <2>1. 0 < Len(t) /\ Len(t) = Len(s) + (z + 1) /\ z + 1 \in 1 .. z + 1 /\ (z + 1) - 1 = z
    <3>1. \A m, n \in Nat : /\ 0 < m + n + 1 /\ m + n + 1 = m + (n + 1)
                            /\ n + 1 \in 1 .. n + 1 /\ (n + 1) - 1 = n
      OBVIOUS
    <3>2. Len(s) \in Nat /\ z \in Nat /\ Len(t) = Len(s) + z + 1
      BY <1>2, <1>3
    <3> QED
      BY <3>1, <3>2
  <2>2. Last(t) = [call |-> k, part |-> z]
    BY <1>2, <2>1 DEF Last
  <2>3. NextUnit(cs2, Last(t)) = [call |-> k + 1, part |-> 0]
    BY <1>1, <2>2 DEF NextUnit
  <2>4. Len(cs2) + 1 = k + 1
    BY <1>1
  <2> QED
    BY <2>1, <2>3, <2>4 DEF AllAsked
<1> QED
  BY <1>11, <1>12

LEMMA AskedCut ==
  ASSUME NEW cs, NEW e, NEW s, NEW t, Len(s) \in Nat, NEW m \in 0 .. Len(s), Starting(s, t, m),
         Asked(cs, e, s, 0)
  PROVE  Asked(cs, e, t, 0)
<1>1. m \in Nat /\ Len(t) = m /\ \A i \in 1 .. m : t[i] = s[i] /\ i \in 1 .. Len(s) /\ 0 < i
  BY DEF Starting
<1>2. 0 < m => t[0 + 1] = s[0 + 1] /\ 0 < Len(s)
  BY <1>1
<1>3. 0 < m => t[0 + 1] = e
  BY <1>2 DEF Asked
<1>4. \A i \in 1 .. m : t[i].call \in 1 .. Len(cs)
  BY <1>1 DEF Asked
<1>5. ASSUME NEW i \in 1 .. m, i < m PROVE t[i + 1] = NextUnit(cs, t[i])
  <2>1. i < Len(s) /\ i + 1 \in 1 .. m /\ 0 < i /\ i \in 1 .. Len(s)
    BY <1>1, <1>5
  <2>2. s[i + 1] = NextUnit(cs, s[i])
    BY <2>1 DEF Asked
  <2> QED
    BY <1>1, <2>1, <2>2
<1> QED
  BY <1>1, <1>3, <1>4, <1>5 DEF Asked

(* What rpc_write_request does to the requests and to their order. *)
LEMMA WriteKeeps ==
  ASSUME TypeInv, Ordered, ~gone, ~gone', UNCHANGED server,
         NEW op \in Op, NEW size \in Sizes, NEW ticket \in Nat, WriteRequest(op, size, ticket)
  PROVE  /\ calls' \in Seq(CallRecord) /\ Len(calls') <= MaxCalls /\ up' \in Seq(RequestUnit)
         /\ Grown(calls, calls', [op |-> op, size |-> size, ticket |-> ticket])
         /\ Ordered' /\ Len(calls) + 1 \in Calls
<1> PICK c : c = [op |-> op, size |-> size, ticket |-> ticket]
  OBVIOUS
<1>1. Len(calls) < MaxCalls /\ calls' = Append(calls, c) /\ up' = up \o Request(Len(calls) + 1, size)
  BY DEF WriteRequest
<1>2. /\ calls \in Seq(CallRecord) /\ up \in Seq(RequestUnit) /\ c \in CallRecord /\ c.size = size
      /\ size \in Nat /\ MaxCalls \in Nat
  BY RpcAssumption DEF TypeInv, CallRecord
<1>3. calls' \in Seq(CallRecord) /\ Grown(calls, calls', c)
  BY <1>1, <1>2, GrownIs
<1>4. Len(calls) \in Nat /\ Len(calls') = Len(calls) + 1
  BY <1>3 DEF Grown
<1>5. Len(calls) + 1 \in Calls /\ Len(calls') <= MaxCalls
  BY <1>1, <1>2, <1>4 DEF Calls
<1>6. up' \in Seq(RequestUnit) /\ Extended(up, up', Len(calls) + 1, c.size)
  BY <1>1, <1>2, <1>5, RequestIs
<1>7. inbuf' = inbuf /\ applied' = applied /\ dead' = dead
  BY DEF server
<1> PICK h : h = [inbuf |-> inbuf, applied |-> applied]
  OBVIOUS
<1> PICK e : e = Expected(h)
  OBVIOUS
<1>8. /\ Len(applied) <= Len(calls) /\ \A i \in 1 .. Len(applied) : applied[i] = i
      /\ ~dead => /\ Begun(calls, h) /\ Asked(calls, e, up, 0)
                  /\ AllAsked(calls, e, up, 0)
  BY DEF Ordered
<1>9. Len(applied) \in Nat
  <2>1. applied \in Seq(Calls)
    BY DEF TypeInv
  <2> QED
    BY <2>1, LenProperties
<1>10. Len(applied) <= Len(calls')
  BY <1>4, <1>8, <1>9
<1>11. ASSUME ~dead
       PROVE  Begun(calls', h) /\ Asked(calls', e, up', 0) /\ AllAsked(calls', e, up', 0)
  <2>1. Asked(calls, e, up, 0) /\ AllAsked(calls, e, up, 0) /\ Begun(calls, h)
    BY <1>8, <1>11
  <2>2. Asked(calls', e, up', 0) /\ AllAsked(calls', e, up', 0)
    BY <1>2, <1>3, <1>6, <2>1, AskedWritten
  <2>3. h.applied = applied
    OBVIOUS
  <2>4. Begun(calls', h)
    BY <1>10, <2>1, <2>3 DEF Begun
  <2> QED
    BY <2>2, <2>4
<1>12. Ordered'
  BY <1>7, <1>8, <1>10, <1>11 DEF Ordered
<1> QED
  BY <1>3, <1>5, <1>6, <1>12

-----------------------------------------------------------------------------
(* The client's steps.                                                      *)

LEMMA Surfaced ==
  ASSUME TypeInv, Replies, gone = FALSE, garbled = FALSE, waiting = 0, NEW n \in 0 .. Len(down)
  PROVE  \E r \in Nat :
           /\ Serving(calls, r, Len(applied), abandoned, dead, reads, Pumped(n), Drop(down, n), 0)
           /\ Drop(down, n) \in Seq(ReplyUnit) /\ IsFiniteSet(abandoned)
<1>1. PICK r0 \in Nat : Paired(r0)
  BY DEF Replies
<1>2. Ordered /\ Named
  BY DEF Replies
<1>3. /\ calls \in Seq(CallRecord) /\ down \in Seq(ReplyUnit) /\ applied \in Seq(Calls)
      /\ abandoned \in SUBSET Calls
  BY DEF TypeInv
<1>4. /\ Len(calls) \in Nat /\ Len(down) \in Nat /\ Len(applied) \in Nat /\ n \in Nat
      /\ Len(applied) <= Len(calls)
  <2>1. Len(calls) \in Nat /\ Len(down) \in Nat /\ Len(applied) \in Nat
    BY <1>3, LenProperties
  <2> QED
    BY <1>2, <2>1 DEF Ordered
<1>5. IsFiniteSet(abandoned)
  <2>1. IsFiniteSet(Calls)
    BY FS_Interval, RpcAssumption DEF Calls
  <2> QED
    BY <1>3, <2>1, FS_Subset
<1>6. Start \in Client /\ Start.inbound = inbound /\ Start.pending = pending
      /\ Start.completed = completed /\ Start.sink = sink
  BY DEF TypeInv, Start, Client
<1>7. /\ r0 <= Ordinal(calls, Len(applied)) /\ completed <= r0
      /\ Promised(calls, r0, abandoned, completed)
      /\ Covered(calls, r0, abandoned, waiting, pending)
      /\ Halved(calls, r0, Len(applied), inbound)
      /\ Replied(calls, r0, Len(applied), inbound, down, 0)
      /\ ~dead => AllReplied(calls, r0, Len(applied), inbound, down, 0)
      /\ abandoned = {} => Lined(calls, r0, waiting, pending)
  BY <1>1 DEF Paired
<1>8. abandoned = {} => Matched(reads, sink)
  BY <1>2 DEF Named
<1>9. Serving(calls, r0, Len(applied), abandoned, dead, reads, Start, down, 0)
  BY <1>6, <1>7, <1>8 DEF Serving
<1> PICK a : a = Len(applied)
  OBVIOUS
<1>10. PICK r \in Nat : Serving(calls, r, a, abandoned, dead, reads, Pumped(n), down, n)
  <2>1. a \in Nat /\ a <= Len(calls)
    BY <1>4
  <2>2. Serving(calls, r0, a, abandoned, dead, reads, Start, down, 0)
    BY <1>9
  <2> QED
    BY <1>5, <2>1, <2>2, PumpedServes
<1> PICK t : t = Drop(down, n)
  OBVIOUS
<1>11. t \in Seq(ReplyUnit) /\ Shifted(down, t, n)
  BY <1>3, ShiftedIs
<1> PICK p : p = Pumped(n)
  OBVIOUS
<1>12. Serving(calls, r, a, abandoned, dead, reads, p, t, 0)
  <2>1. Serving(calls, r, a, abandoned, dead, reads, p, down, n)
    BY <1>10
  <2>2. Replied(calls, r, a, p.inbound, down, n) => Replied(calls, r, a, p.inbound, t, 0)
    BY <1>4, <1>11, RepliedRest
  <2>3. AllReplied(calls, r, a, p.inbound, down, n) => AllReplied(calls, r, a, p.inbound, t, 0)
    BY <1>4, <1>11, RepliedRest
  <2> QED
    BY <2>1, <2>2, <2>3 DEF Serving
<1> QED
  BY <1>5, <1>11, <1>12

LEMMA PumpKeeps ==
  ASSUME TypeInv, Replies, NEW n \in 0 .. Len(down), Pump(n)
  PROVE  TypeInv' /\ Replies'
<1> PICK p : p = Pumped(n)
  OBVIOUS
<1>1. /\ ~gone /\ ~garbled /\ waiting = 0
      /\ inbound' = p.inbound /\ pending' = p.pending /\ completed' = p.completed /\ sink' = p.sink
      /\ down' = Drop(down, n)
      /\ UNCHANGED <<calls, waiting, garbled, gone, closed, up, server, abandoned, reads, faults>>
  BY DEF Pump, Live
<1>2. gone = FALSE /\ garbled = FALSE
  BY <1>1 DEF TypeInv
<1>3. PICK r \in Nat :
           /\ Serving(calls, r, Len(applied), abandoned, dead, reads, Pumped(n), Drop(down, n), 0)
           /\ Drop(down, n) \in Seq(ReplyUnit) /\ IsFiniteSet(abandoned)
  BY <1>1, <1>2, Surfaced
<1>4. /\ Serving(calls, r, Len(applied), abandoned, dead, reads, p, down', 0)
      /\ down' \in Seq(ReplyUnit)
  BY <1>1, <1>3
<1>5. p \in Client
  BY <1>4 DEF Serving
<1>6. TypeInv'
  <2>1. /\ p.inbound \in Seq(ReplyUnit) /\ p.pending \in Seq(Calls) /\ p.completed \in Nat
        /\ p.sink \in Seq([name : Calls, reply : Calls])
    BY <1>5 DEF Client
  <2> QED
    BY <1>1, <1>4, <2>1 DEF TypeInv, server
<1>7. /\ calls' = calls /\ applied' = applied /\ abandoned' = abandoned /\ dead' = dead
      /\ reads' = reads /\ waiting' = 0 /\ gone' = gone /\ inbuf' = inbuf /\ up' = up
  BY <1>1 DEF server
<1>8. Paired(r)'
  <2>1. /\ r <= Ordinal(calls', Len(applied')) /\ completed' <= r
        /\ Promised(calls', r, abandoned', completed')
        /\ Covered(calls', r, abandoned', waiting', pending')
        /\ Halved(calls', r, Len(applied'), inbound')
        /\ Replied(calls', r, Len(applied'), inbound', down', 0)
        /\ ~dead' => AllReplied(calls', r, Len(applied'), inbound', down', 0)
        /\ abandoned' = {} => Lined(calls', r, waiting', pending')
    BY <1>1, <1>4, <1>7 DEF Serving
  <2> QED
    BY <2>1 DEF Paired
<1>9. Ordered'
  BY <1>7 DEF Ordered, Replies
<1>10. Named'
  <2>1. abandoned' = {} => Matched(reads', sink')
    BY <1>1, <1>4, <1>7 DEF Serving
  <2>2. Named
    BY DEF Replies
  <2>3. abandoned' \subseteq 1 .. Len(calls') /\ waiting' <= Len(calls') /\ waiting' \notin abandoned'
    BY <1>1, <1>7, <2>2 DEF Named
  <2> QED
    BY <1>7, <2>1, <2>3 DEF Named
<1> QED
  BY <1>6, <1>8, <1>9, <1>10 DEF Replies

LEMMA CallVoidKeeps ==
  ASSUME TypeInv, Replies, NEW size \in Sizes, NEW n \in 0 .. Len(down), CallVoid(size, n)
  PROVE  TypeInv' /\ Replies'
<1> PICK p : p = Pumped(n)
  OBVIOUS
<1> PICK k : k = Len(calls) + 1
  OBVIOUS
<1> PICK y : y = p.completed + Len(p.pending) + 1
  OBVIOUS
<1>1. /\ Live
      /\ inbound' = p.inbound /\ down' = Drop(down, n) /\ completed' = p.completed /\ sink' = p.sink
      /\ WriteRequest("CALL", size, y)
      /\ \/ /\ pending' = Append(p.pending, k)
            /\ UNCHANGED <<abandoned, faults>>
         \/ /\ FlushFails
            /\ pending' = p.pending
            /\ abandoned' = abandoned \union {k}
      /\ UNCHANGED <<waiting, garbled, gone, closed, server, reads>>
  BY Zenon DEF CallVoid
<1>2. gone = FALSE /\ garbled = FALSE /\ waiting = 0
  BY <1>1 DEF TypeInv, Live
<1>3. PICK r \in Nat :
           /\ Serving(calls, r, Len(applied), abandoned, dead, reads, Pumped(n), Drop(down, n), 0)
           /\ Drop(down, n) \in Seq(ReplyUnit) /\ IsFiniteSet(abandoned)
  BY <1>2, Surfaced
<1> PICK a : a = Len(applied)
  OBVIOUS
<1>4. /\ Serving(calls, r, a, abandoned, dead, reads, p, down', 0)
      /\ down' \in Seq(ReplyUnit) /\ IsFiniteSet(abandoned)
  BY <1>1, <1>3
<1>5. /\ p \in Client /\ p.completed <= r /\ r <= Ordinal(calls, a)
      /\ Promised(calls, r, abandoned, p.completed) /\ Covered(calls, r, abandoned, 0, p.pending)
      /\ Halved(calls, r, a, p.inbound) /\ Replied(calls, r, a, p.inbound, down', 0)
      /\ ~dead => AllReplied(calls, r, a, p.inbound, down', 0)
      /\ abandoned = {} => Lined(calls, r, 0, p.pending) /\ Matched(reads, p.sink)
  BY <1>4 DEF Serving
<1>6. /\ p.inbound \in Seq(ReplyUnit) /\ p.pending \in Seq(Calls) /\ p.completed \in Nat
      /\ p.sink \in Seq([name : Calls, reply : Calls])
  BY <1>5 DEF Client
<1>7. Len(p.pending) \in Nat
  BY <1>6, LenProperties
<1>8. y \in Nat
  <2>1. \A m, l \in Nat : m + l + 1 \in Nat
    OBVIOUS
  <2>2. p.completed \in Nat
    BY <1>6
  <2> QED
    BY <1>7, <2>1, <2>2
<1>9. Ordered /\ Named
  BY DEF Replies
<1> PICK c : c = [op |-> "CALL", size |-> size, ticket |-> y]
  OBVIOUS
<1>10. /\ calls' \in Seq(CallRecord) /\ Len(calls') <= MaxCalls /\ up' \in Seq(RequestUnit)
       /\ Grown(calls, calls', c) /\ Ordered' /\ k \in Calls
  <2>1. ~gone /\ ~gone' /\ UNCHANGED server
    BY <1>1, <1>2
  <2>2. "CALL" \in Op
    BY DEF Op
  <2> QED
    BY <1>1, <1>8, <1>9, <2>1, <2>2, WriteKeeps
<1>11. c.op = "CALL" /\ c.ticket = y /\ c \in CallRecord
  BY <1>8 DEF CallRecord, Op
<1>12. calls \in Seq(CallRecord) /\ Len(calls) \in Nat
  <2>1. calls \in Seq(CallRecord)
    BY DEF TypeInv
  <2> QED
    BY <2>1, LenProperties
<1>13. /\ Len(calls') = k /\ Ordinal(calls, Len(calls)) \in Nat
       /\ Ordinal(calls', Len(calls')) = Ordinal(calls, Len(calls)) + 1 /\ Due(calls', k)
  BY <1>10, <1>11, OrdinalWritten
<1>14. a \in 0 .. Len(calls) /\ Len(down') \in Nat /\ applied' = applied /\ dead' = dead
       /\ reads' = reads /\ waiting' = 0
  <2>1. applied \in Seq(Calls)
    BY DEF TypeInv
  <2>2. Len(applied) \in Nat /\ Len(down') \in Nat
    BY <1>4, <2>1, LenProperties
  <2>3. Len(applied) <= Len(calls)
    BY <1>9 DEF Ordered
  <2> QED
    BY <1>1, <1>2, <1>12, <2>2, <2>3 DEF server
<1>15. /\ Halved(calls', r, a, inbound') /\ Replied(calls', r, a, inbound', down', 0)
       /\ ~dead => AllReplied(calls', r, a, inbound', down', 0)
  <2>1. Halved(calls, r, a, inbound') /\ Replied(calls, r, a, inbound', down', 0)
    BY <1>1, <1>5
  <2>2. /\ Halved(calls', r, a, inbound') /\ Replied(calls', r, a, inbound', down', 0)
        /\ AllReplied(calls, r, a, inbound', down', 0) => AllReplied(calls', r, a, inbound', down', 0)
    BY <1>10, <1>14, <2>1, RepliedWritten
  <2> QED
    BY <1>1, <1>5, <2>2
<1>16. r <= Ordinal(calls', Len(applied')) /\ completed' <= r
  <2>1. Ordinal(calls', a) = Ordinal(calls, a)
    BY <1>10, <1>14, OrdinalKept
  <2> QED
    BY <1>1, <1>5, <1>14, <2>1
<1>17. Cardinality(abandoned) \in Nat
  BY <1>4, FS_CardinalityType
<1>18. Ordinal(calls, Len(calls)) <= r + Len(p.pending) + 0 + Cardinality(abandoned)
  BY <1>5 DEF Covered, Blocked
<1>19. abandoned \subseteq 1 .. Len(calls) /\ k \notin abandoned
  <2>1. abandoned \subseteq 1 .. Len(calls)
    BY <1>9 DEF Named
  <2>2. k \notin 1 .. Len(calls)
    BY <1>12
  <2> QED
    BY <2>1, <2>2
<1>20. \A i \in 1 .. Len(calls) : i \in 1 .. Len(calls')
  BY <1>12, <1>13
<1>21. k \in 1 .. Len(calls')
  BY <1>12, <1>13
<1>22. CASE pending' = Append(p.pending, k) /\ UNCHANGED <<abandoned, faults>>
  <2>1. pending' \in Seq(Calls) /\ Grown(p.pending, pending', k)
    BY <1>6, <1>10, <1>22, GrownIs
  <2>2. /\ Len(pending') = Len(p.pending) + 1 /\ pending'[Len(p.pending) + 1] = k
        /\ \A i \in 1 .. Len(p.pending) : pending'[i] = p.pending[i]
    BY <2>1 DEF Grown
  <2>3. TypeInv'
    BY <1>1, <1>4, <1>6, <1>10, <1>22, <2>1 DEF TypeInv, server
  <2>4. Promised(calls', r, abandoned', completed')
    <3>1. p.completed + Ordinal(calls, Len(calls)) + 1 <= r + c.ticket + Cardinality(abandoned)
      <4>1. \A m, o, l, e \in Nat : o <= r + l + 0 + e => m + o + 1 <= r + (m + l + 1) + e
        OBVIOUS
      <4> QED
        BY <1>6, <1>7, <1>11, <1>13, <1>17, <1>18, <4>1
    <3>2. Promised(calls', r, abandoned, p.completed)
      BY <1>4, <1>5, <1>6, <1>10, <1>11, <1>12, <3>1, PromisedWritten
    <3> QED
      BY <1>1, <1>22, <3>2
  <2>5. Covered(calls', r, abandoned', waiting', pending')
    <3>1. \A o, l, e \in Nat : o <= r + l + 0 + e => o + 1 <= r + (l + 1) + 0 + e
      OBVIOUS
    <3>2. Ordinal(calls', Len(calls')) <= r + Len(pending') + 0 + Cardinality(abandoned)
      BY <1>7, <1>13, <1>17, <1>18, <2>2, <3>1
    <3> QED
      BY <1>14, <1>22, <3>2 DEF Covered, Blocked
  <2>6. ASSUME abandoned = {} PROVE Lined(calls', r, 0, pending')
    <3>1. /\ \A i \in 1 .. Len(p.pending) : /\ Due(calls, p.pending[i])
                                            /\ Ordinal(calls, p.pending[i]) = r + i
          /\ Ordinal(calls, Len(calls)) = r + Len(p.pending) + 0
      BY <1>5, <2>6 DEF Lined, Blocked
    <3>2. \A i \in 1 .. Len(p.pending) : Due(calls', p.pending[i]) /\ Ordinal(calls', p.pending[i]) = r + i
      <4> SUFFICES ASSUME NEW i \in 1 .. Len(p.pending)
                   PROVE  Due(calls', p.pending[i]) /\ Ordinal(calls', p.pending[i]) = r + i
        OBVIOUS
      <4> PICK x : x = p.pending[i]
        OBVIOUS
      <4>1. Due(calls, x) /\ Ordinal(calls, x) = r + i
        BY <3>1
      <4>2. Grown(calls, calls', c)
        BY <1>10
      <4>3. Due(calls', x) /\ Ordinal(calls', x) = Ordinal(calls, x)
        BY <4>1, <4>2, WrittenKeeps
      <4> QED
        BY <4>1, <4>3
    <3>3. \A l \in Nat : r + l + 0 + 1 = r + (l + 1) /\ r + l + 0 + 1 = r + (l + 1) + 0
      OBVIOUS
    <3>4. Ordinal(calls', k) = r + Len(pending') /\ Ordinal(calls', Len(calls')) = r + Len(pending') + 0
      BY <1>7, <1>13, <2>2, <3>1, <3>3
    <3>5. \A l \in Nat : \A i \in 1 .. l + 1 : i \in 1 .. l \/ i = l + 1
      OBVIOUS
    <3>6. \A i \in 1 .. Len(pending') : i \in 1 .. Len(p.pending) \/ i = Len(p.pending) + 1
      BY <1>7, <2>2, <3>5
    <3>7. \A i \in 1 .. Len(pending') : Due(calls', pending'[i]) /\ Ordinal(calls', pending'[i]) = r + i
      BY <1>13, <2>2, <3>2, <3>4, <3>6
    <3> QED
      BY <3>4, <3>7 DEF Lined, Blocked
  <2>7. Paired(r)'
    <3>1. abandoned' = {} => Lined(calls', r, waiting', pending')
      BY <1>14, <1>22, <2>6
    <3>2. /\ Halved(calls', r, Len(applied'), inbound')
          /\ Replied(calls', r, Len(applied'), inbound', down', 0)
          /\ ~dead' => AllReplied(calls', r, Len(applied'), inbound', down', 0)
      BY <1>14, <1>15
    <3> QED
      BY <1>16, <2>4, <2>5, <3>1, <3>2 DEF Paired
  <2>8. Named'
    <3>1. abandoned' = {} => Matched(reads', sink')
      BY <1>1, <1>5, <1>14, <1>22
    <3>2. abandoned' \subseteq 1 .. Len(calls')
      BY <1>19, <1>20, <1>22
    <3>3. waiting' <= Len(calls') /\ waiting' \notin abandoned'
      BY <1>12, <1>13, <1>14, <1>19, <1>22
    <3> QED
      BY <1>14, <3>1, <3>2, <3>3 DEF Named
  <2> QED
    BY <1>10, <2>3, <2>7, <2>8 DEF Replies
<1>23. CASE FlushFails /\ pending' = p.pending /\ abandoned' = abandoned \union {k}
  <2>1. faults' \in 0 .. MaxFaults
    BY <1>23, RpcAssumption DEF FlushFails, TypeInv
  <2>2. abandoned' \in SUBSET Calls
    <3>1. abandoned \in SUBSET Calls
      BY DEF TypeInv
    <3> QED
      BY <1>10, <1>23, <3>1
  <2>3. TypeInv'
    BY <1>1, <1>4, <1>6, <1>10, <1>23, <2>1, <2>2 DEF TypeInv, server
  <2>4. IsFiniteSet(abandoned') /\ Cardinality(abandoned') = Cardinality(abandoned) + 1
    BY <1>4, <1>19, <1>23, Abandons
  <2>5. Promised(calls', r, abandoned', completed')
    <3>1. Promised(calls, r, abandoned', p.completed)
      BY <1>4, <1>5, <1>6, <1>12, <1>19, <1>23, PromisedAbandons
    <3>2. Len(calls) + 1 \in abandoned'
      BY <1>23
    <3>3. Promised(calls', r, abandoned', p.completed)
      BY <1>6, <1>10, <1>11, <1>12, <2>4, <3>1, <3>2, PromisedWritten
    <3> QED
      BY <1>1, <3>3
  <2>6. Covered(calls', r, abandoned', waiting', pending')
    <3>1. \A o, l, e \in Nat : o <= r + l + 0 + e => o + 1 <= r + l + 0 + (e + 1)
      OBVIOUS
    <3>2. Ordinal(calls', Len(calls')) <= r + Len(pending') + 0 + Cardinality(abandoned')
      BY <1>7, <1>13, <1>17, <1>18, <1>23, <2>4, <3>1
    <3> QED
      BY <1>14, <3>2 DEF Covered, Blocked
  <2>7. abandoned' # {}
    BY <1>23
  <2>8. Paired(r)'
    <3>1. /\ Halved(calls', r, Len(applied'), inbound')
          /\ Replied(calls', r, Len(applied'), inbound', down', 0)
          /\ ~dead' => AllReplied(calls', r, Len(applied'), inbound', down', 0)
      BY <1>14, <1>15
    <3> QED
      BY <1>16, <2>5, <2>6, <2>7, <3>1 DEF Paired
  <2>9. Named'
    <3>1. abandoned' \subseteq 1 .. Len(calls')
      BY <1>19, <1>20, <1>21, <1>23
    <3>2. waiting' <= Len(calls') /\ waiting' \notin abandoned'
      BY <1>12, <1>13, <1>14, <3>1
    <3> QED
      BY <1>14, <2>7, <3>1, <3>2 DEF Named
  <2> QED
    BY <1>10, <2>3, <2>8, <2>9 DEF Replies
<1> QED
  BY <1>1, <1>22, <1>23

(* The two calls that leave the pipeline alone. *)
LEMMA CallKeeps ==
  ASSUME TypeInv, Replies, Live, NEW op \in {"ONEWAY", "SYNC"}, NEW size \in Sizes,
         WriteRequest(op, size, 0), op = "SYNC" => pending = <<>>,
         waiting' = IF op = "SYNC" THEN Len(calls) + 1 ELSE waiting,
         UNCHANGED <<pending, inbound, completed, garbled, gone, closed, down, server, history, faults>>
  PROVE  TypeInv' /\ Replies'
<1> PICK k : k = Len(calls) + 1
  OBVIOUS
<1> PICK a : a = Len(applied)
  OBVIOUS
<1> PICK c : c = [op |-> op, size |-> size, ticket |-> 0]
  OBVIOUS
<1>1. /\ pending' = pending /\ inbound' = inbound /\ completed' = completed /\ garbled' = garbled
      /\ gone' = gone /\ closed' = closed /\ down' = down /\ inbuf' = inbuf /\ dead' = dead
      /\ applied' = applied /\ abandoned' = abandoned /\ reads' = reads /\ sink' = sink
      /\ faults' = faults
  BY DEF server, history
<1>2. gone = FALSE /\ garbled = FALSE /\ waiting = 0
  BY DEF TypeInv, Live
<1>3. PICK r \in Nat : Paired(r)
  BY DEF Replies
<1>4. Ordered /\ Named
  BY DEF Replies
<1>5. /\ calls' \in Seq(CallRecord) /\ Len(calls') <= MaxCalls /\ up' \in Seq(RequestUnit)
      /\ Grown(calls, calls', c) /\ Ordered' /\ k \in Calls
  <2>1. ~gone /\ ~gone' /\ UNCHANGED server
    BY <1>1, <1>2 DEF server
  <2>2. op \in Op /\ 0 \in Nat
    BY DEF Op
  <2> QED
    BY <1>4, <2>1, <2>2, WriteKeeps
<1>6. c.op = op /\ c.op # "CALL" /\ c \in CallRecord
  BY DEF CallRecord, Op
<1>7. /\ calls \in Seq(CallRecord) /\ Len(calls) \in Nat /\ Len(down) \in Nat /\ Len(pending) \in Nat
      /\ completed \in Nat /\ a \in 0 .. Len(calls)
  <2>1. /\ calls \in Seq(CallRecord) /\ down \in Seq(ReplyUnit) /\ applied \in Seq(Calls)
        /\ completed \in Nat /\ pending \in Seq(Calls)
    BY DEF TypeInv
  <2>2. Len(calls) \in Nat /\ Len(down) \in Nat /\ Len(applied) \in Nat /\ Len(pending) \in Nat
    BY <2>1, LenProperties
  <2>3. Len(applied) <= Len(calls)
    BY <1>4 DEF Ordered
  <2> QED
    BY <2>1, <2>2, <2>3
<1>8. IsFiniteSet(abandoned) /\ Cardinality(abandoned) \in Nat /\ abandoned \subseteq 1 .. Len(calls)
  <2>1. abandoned \subseteq 1 .. Len(calls)
    BY <1>4 DEF Named
  <2>2. IsFiniteSet(abandoned)
    <3>1. 1 \in Int /\ Len(calls) \in Int
      BY <1>7
    <3>2. IsFiniteSet(1 .. Len(calls))
      BY <3>1, FS_Interval
    <3>3. abandoned \in SUBSET (1 .. Len(calls))
      BY <2>1
    <3> QED
      BY <3>2, <3>3, FS_Subset
  <2> QED
    BY <2>1, <2>2, FS_CardinalityType
<1>9. /\ r <= Ordinal(calls, a) /\ completed <= r
      /\ Promised(calls, r, abandoned, completed)
      /\ Covered(calls, r, abandoned, 0, pending)
      /\ Halved(calls, r, a, inbound) /\ Replied(calls, r, a, inbound, down, 0)
      /\ ~dead => AllReplied(calls, r, a, inbound, down, 0)
      /\ abandoned = {} => Lined(calls, r, 0, pending)
  BY <1>2, <1>3 DEF Paired
<1>10. /\ Len(calls') = k /\ Ordinal(calls, Len(calls)) \in Nat
       /\ Ordinal(calls', Len(calls')) = IF op = "ONEWAY" THEN Ordinal(calls, Len(calls))
                                                          ELSE Ordinal(calls, Len(calls)) + 1
       /\ op # "ONEWAY" => Due(calls', k)
  BY <1>5, <1>6, OrdinalWritten
<1>11. /\ Halved(calls', r, a, inbound) /\ Replied(calls', r, a, inbound, down, 0)
       /\ AllReplied(calls, r, a, inbound, down, 0) => AllReplied(calls', r, a, inbound, down, 0)
  BY <1>5, <1>7, <1>9, RepliedWritten
<1>12. r <= Ordinal(calls', a)
  BY <1>5, <1>7, <1>9, OrdinalKept
<1>13. Promised(calls', r, abandoned, completed)
  BY <1>5, <1>6, <1>7, <1>8, <1>9, PromisedWritten
<1>14. Ordinal(calls, Len(calls)) <= r + Len(pending) + 0 + Cardinality(abandoned)
  BY <1>9 DEF Covered, Blocked
<1>15. TypeInv'
  <2>1. waiting' \in {0} \union Calls
    BY <1>2, <1>5
  <2> QED
    BY <1>1, <1>5, <2>1 DEF TypeInv
<1>16. ASSUME abandoned = {}
       PROVE  /\ \A i \in 1 .. Len(pending) : /\ Due(calls', pending[i])
                                              /\ Ordinal(calls', pending[i]) = r + i
              /\ Ordinal(calls, Len(calls)) = r + Len(pending) + 0
  <2>1. /\ \A i \in 1 .. Len(pending) : Due(calls, pending[i]) /\ Ordinal(calls, pending[i]) = r + i
        /\ Ordinal(calls, Len(calls)) = r + Len(pending) + 0
    BY <1>9, <1>16 DEF Lined, Blocked
  <2>2. ASSUME NEW i \in 1 .. Len(pending)
        PROVE  Due(calls', pending[i]) /\ Ordinal(calls', pending[i]) = r + i
    <3> PICK x : x = pending[i]
      OBVIOUS
    <3>1. Due(calls, x) /\ Ordinal(calls, x) = r + i
      BY <2>1
    <3>2. Grown(calls, calls', c)
      BY <1>5
    <3>3. Due(calls', x) /\ Ordinal(calls', x) = Ordinal(calls, x)
      BY <3>1, <3>2, WrittenKeeps
    <3> QED
      BY <3>1, <3>3
  <2> QED
    BY <2>1, <2>2
<1>17. CASE op = "ONEWAY"
  <2>1. waiting' = 0 /\ Ordinal(calls', Len(calls')) = Ordinal(calls, Len(calls))
    BY <1>2, <1>10, <1>17
  <2>2. Covered(calls', r, abandoned, 0, pending)
    BY <1>14, <2>1 DEF Covered, Blocked
  <2>3. abandoned = {} => Lined(calls', r, 0, pending)
    BY <1>16, <2>1 DEF Lined, Blocked
  <2>4. Paired(r)'
    BY <1>1, <1>9, <1>11, <1>12, <1>13, <2>1, <2>2, <2>3 DEF Paired
  <2>5. Named'
    <3>1. \A i \in 1 .. Len(calls) : i \in 1 .. Len(calls')
      BY <1>7, <1>10
    <3>2. 0 <= Len(calls') /\ 0 \notin abandoned
      BY <1>7, <1>8, <1>10
    <3>3. abandoned' \subseteq 1 .. Len(calls')
      BY <1>1, <1>8, <3>1
    <3>4. abandoned' = {} => Matched(reads', sink')
      BY <1>1, <1>4 DEF Named
    <3> QED
      BY <1>1, <2>1, <3>2, <3>3, <3>4 DEF Named
  <2> QED
    BY <1>5, <1>15, <2>4, <2>5 DEF Replies
<1>18. CASE op = "SYNC"
  <2>1. /\ waiting' = k /\ k # 0 /\ pending = <<>> /\ Len(pending) = 0 /\ Due(calls', k)
        /\ Ordinal(calls', k) = Ordinal(calls, Len(calls)) + 1
    BY <1>7, <1>10, <1>18, EmptySeq
  <2>2. Covered(calls', r, abandoned, k, pending)
    <3>1. \A o, e \in Nat : o <= r + 0 + 0 + e => o + 1 <= r + 0 + 1 + e
      OBVIOUS
    <3>2. Ordinal(calls', Len(calls')) <= r + Len(pending) + 1 + Cardinality(abandoned)
      BY <1>8, <1>10, <1>14, <2>1, <3>1
    <3> QED
      BY <2>1, <3>2 DEF Covered, Blocked
  <2>3. ASSUME abandoned = {} PROVE Lined(calls', r, k, pending)
    <3>1. Ordinal(calls', k) = r + 1 /\ Ordinal(calls', Len(calls')) = r + Len(pending) + 1
      <4>1. Ordinal(calls, Len(calls)) = r + Len(pending) + 0
        BY <1>16, <2>3
      <4>2. r + 0 + 0 + 1 = r + 1 /\ r + 0 + 0 + 1 = r + 0 + 1
        OBVIOUS
      <4> QED
        BY <1>10, <2>1, <4>1, <4>2
    <3>2. \A i \in 1 .. Len(pending) : Due(calls', pending[i]) /\ Ordinal(calls', pending[i]) = r + i
      BY <1>16, <2>3
    <3> QED
      BY <2>1, <3>1, <3>2 DEF Lined, Blocked
  <2>4. Paired(r)'
    BY <1>1, <1>9, <1>11, <1>12, <1>13, <2>1, <2>2, <2>3 DEF Paired
  <2>5. Named'
    <3>1. \A i \in 1 .. Len(calls) : i \in 1 .. Len(calls')
      BY <1>7, <1>10
    <3>2. k <= Len(calls') /\ k \notin abandoned
      BY <1>7, <1>8, <1>10
    <3>3. abandoned' \subseteq 1 .. Len(calls')
      BY <1>1, <1>8, <3>1
    <3>4. abandoned' = {} => Matched(reads', sink')
      BY <1>1, <1>4 DEF Named
    <3> QED
      BY <1>1, <1>2, <2>1, <3>2, <3>3, <3>4 DEF Named
  <2> QED
    BY <1>5, <1>15, <2>4, <2>5 DEF Replies
<1> QED
  BY <1>17, <1>18

(* The next reply ends at unit n of s, and what is left once it is taken. *)
EndsAt(s, n) == EndsReply(s[n]) /\ \A i \in 1 .. n - 1 : ~EndsReply(s[i])
Taken(cs, r, a, inb, s, n) ==
  /\ Sound(cs, a, s[n]) /\ Ordinal(cs, s[n].call) = r + 1 /\ s[n] \in ReplyUnit
  /\ Halved(cs, r + 1, a, inb) /\ Replied(cs, r + 1, a, inb, s, n)
  /\ AllReplied(cs, r, a, inb, s, 0) => AllReplied(cs, r + 1, a, inb, s, n)

LEMMA ReplyTaken ==
  ASSUME NEW cs, NEW r \in Nat, NEW a \in Nat, NEW inb, Len(inb) = 0, NEW s \in Seq(ReplyUnit),
         NEW n \in 1 .. Len(s), EndsAt(s, n),
         Halved(cs, r, a, inb), Replied(cs, r, a, inb, s, 0)
  PROVE  Taken(cs, r, a, inb, s, n)
<1>0. EndsReply(s[n]) /\ \A i \in 1 .. n - 1 : ~EndsReply(s[i])
  BY DEF EndsAt
<1>1. Len(s) \in Nat /\ n \in Nat /\ n >= 1 /\ 0 < Len(s) /\ 0 + 1 = 1
  BY UnitOf
<1> PICK u : u = s[1]
  OBVIOUS
<1>2. Moves(cs, r, a, inb, s, 0, u)
  <2>1. u = s[0 + 1]
    OBVIOUS
  <2> QED
    BY <1>1, <2>1, UnitTaken
<1>3. /\ Sound(cs, a, u) /\ u \in ReplyUnit
      /\ ~EndsReply(u) => \A t : Len(t) = 1 /\ t[1] = u =>
            /\ Halved(cs, r, a, t) /\ Replied(cs, r, a, t, s, 1)
            /\ AllReplied(cs, r, a, inb, s, 0) => AllReplied(cs, r, a, t, s, 1)
      /\ EndsReply(u) =>
           /\ Ordinal(cs, u.call) = r + 1
           /\ Halved(cs, r + 1, a, inb) /\ Replied(cs, r + 1, a, inb, s, 1)
           /\ AllReplied(cs, r, a, inb, s, 0) => AllReplied(cs, r + 1, a, inb, s, 1)
  BY <1>1, <1>2 DEF Moves
<1>4. CASE n = 1
  BY <1>0, <1>3, <1>4 DEF Taken
<1>5. CASE n # 1
  <2>1. 1 \in 1 .. n - 1 /\ 1 < Len(s) /\ 1 \in Nat /\ 1 + 1 = 2
    BY <1>1, <1>5
  <2>2. ~EndsReply(u)
    BY <1>0, <2>1
  <2> PICK t : t = <<u>>
    OBVIOUS
  <2>3. Len(t) = 1 /\ t[1] = u
    OBVIOUS
  <2>4. /\ Halved(cs, r, a, t) /\ Replied(cs, r, a, t, s, 1)
        /\ AllReplied(cs, r, a, inb, s, 0) => AllReplied(cs, r, a, t, s, 1)
    BY <1>3, <2>2, <2>3
  <2> PICK v : v = s[2]
    OBVIOUS
  <2>5. Moves(cs, r, a, t, s, 1, v)
    <3>1. v = s[1 + 1]
      OBVIOUS
    <3> QED
      BY <2>1, <2>4, <3>1, UnitTaken
  <2>6. /\ Sound(cs, a, v) /\ v \in ReplyUnit
        /\ ~EndsReply(v) => Len(t) = 0
        /\ EndsReply(v) =>
             /\ Ordinal(cs, v.call) = r + 1
             /\ Halved(cs, r + 1, a, inb) /\ Replied(cs, r + 1, a, inb, s, 2)
             /\ AllReplied(cs, r, a, t, s, 1) => AllReplied(cs, r + 1, a, inb, s, 2)
    BY <2>1, <2>5 DEF Moves
  <2>7. EndsReply(v)
    BY <2>3, <2>6
  <2>8. n = 2
    <3>1. n # 2 => 2 \in 1 .. n - 1
      BY <1>1, <1>5
    <3> QED
      BY <1>0, <2>7, <3>1
  <2> QED
    BY <2>4, <2>6, <2>7, <2>8 DEF Taken
<1> QED
  BY <1>4, <1>5

LEMMA FiniteAbandoned ==
  ASSUME TypeInv
  PROVE  IsFiniteSet(abandoned) /\ Cardinality(abandoned) \in Nat
<1>1. IsFiniteSet(Calls)
  BY FS_Interval, RpcAssumption DEF Calls
<1>2. abandoned \in SUBSET Calls
  BY DEF TypeInv
<1>3. IsFiniteSet(abandoned)
  BY <1>1, <1>2, FS_Subset
<1> QED
  BY <1>3, FS_CardinalityType

(* A round-trip that returns takes one reply for one call. *)
LEMMA BooksReturn ==
  ASSUME TypeInv, NEW r \in Nat, Promised(calls, r, abandoned, completed),
         Covered(calls, r, abandoned, waiting, pending), waiting # 0, pending = <<>>
  PROVE  /\ Promised(calls, r + 1, abandoned, completed)
         /\ Covered(calls, r + 1, abandoned, 0, pending)
         /\ Lined(calls, r, waiting, pending) =>
              Lined(calls, r + 1, 0, pending) /\ Due(calls, waiting) /\ Ordinal(calls, waiting) = r + 1
<1>1. calls \in Seq(CallRecord) /\ completed \in Nat /\ Len(calls) \in Nat
  <2>1. calls \in Seq(CallRecord) /\ completed \in Nat
    BY DEF TypeInv
  <2> QED
    BY <2>1, LenProperties
<1>2. IsFiniteSet(abandoned) /\ Cardinality(abandoned) \in Nat
  BY FiniteAbandoned
<1>3. Len(pending) = 0 /\ Blocked(waiting) = 1 /\ Blocked(0) = 0
  BY EmptySeq DEF Blocked
<1>4. Ordinal(calls, Len(calls)) \in Nat
  BY <1>1, OrdinalType
<1>5. Promised(calls, r + 1, abandoned, completed)
  BY <1>1, <1>2, PromisedLater
<1>6. Covered(calls, r + 1, abandoned, 0, pending)
  <2>1. \A o, e \in Nat : o <= r + 0 + 1 + e => o <= r + 1 + 0 + 0 + e
    OBVIOUS
  <2>2. Ordinal(calls, Len(calls)) <= r + 1 + 0 + 0 + Cardinality(abandoned)
    BY <1>2, <1>3, <1>4, <2>1 DEF Covered
  <2> QED
    BY <1>3, <2>2 DEF Covered
<1>7. ASSUME Lined(calls, r, waiting, pending)
      PROVE  Lined(calls, r + 1, 0, pending) /\ Due(calls, waiting) /\ Ordinal(calls, waiting) = r + 1
  <2>1. Ordinal(calls, Len(calls)) = r + 1 + 0 + 0
    <3>1. Ordinal(calls, Len(calls)) = r + 0 + 1
      BY <1>3, <1>7 DEF Lined
    <3>2. r + 0 + 1 = r + 1 + 0 + 0
      OBVIOUS
    <3> QED
      BY <3>1, <3>2
  <2>2. \A i \in 1 .. Len(pending) : FALSE
    BY <1>3
  <2>3. Lined(calls, r + 1, 0, pending)
    BY <1>3, <2>1, <2>2 DEF Lined
  <2> QED
    BY <1>7, <2>3 DEF Lined
<1> QED
  BY <1>5, <1>6, <1>7

LEMMA ReadReplyKeeps ==
  ASSUME TypeInv, Replies, ReadReply
  PROVE  TypeInv' /\ Replies'
<1>1. /\ waiting # 0
      /\ \/ /\ inbound = <<>>
            /\ \E n \in DOMAIN down :
                 /\ EndsReply(down[n])
                 /\ \A i \in 1 .. n - 1 : ~EndsReply(down[i])
                 /\ down' = Drop(down, n)
                 /\ reads' = Append(reads, [call |-> waiting, reply |-> down[n].call])
            /\ UNCHANGED garbled
         \/ /\ inbound # <<>> /\ down # <<>>
            /\ garbled' = TRUE
            /\ UNCHANGED <<down, reads>>
      /\ waiting' = 0
      /\ UNCHANGED <<calls, pending, inbound, completed, gone, closed, up, server, abandoned, sink, faults>>
  BY DEF ReadReply
<1>2. /\ calls' = calls /\ pending' = pending /\ inbound' = inbound /\ completed' = completed
      /\ gone' = gone /\ closed' = closed /\ up' = up /\ inbuf' = inbuf /\ dead' = dead
      /\ applied' = applied /\ abandoned' = abandoned /\ sink' = sink /\ faults' = faults
      /\ waiting' = 0
  BY <1>1 DEF server
<1>3. PICK r \in Nat : Paired(r)
  BY DEF Replies
<1>4. Ordered /\ Named
  BY DEF Replies
<1>5. pending = <<>> /\ ~garbled /\ ~gone /\ waiting \notin abandoned
      /\ abandoned \subseteq 1 .. Len(calls)
      /\ (abandoned = {} => Matched(reads, sink))
  BY <1>1, <1>4 DEF Named
<1>6. Len(calls) \in Nat /\ down \in Seq(ReplyUnit) /\ Len(down) \in Nat /\ DOMAIN down = 1 .. Len(down)
      /\ Len(applied) \in Nat /\ waiting \in Calls /\ completed \in Nat
  <2>1. /\ calls \in Seq(CallRecord) /\ down \in Seq(ReplyUnit) /\ applied \in Seq(Calls)
        /\ waiting \in {0} \union Calls /\ completed \in Nat
    BY DEF TypeInv
  <2> QED
    BY <1>1, <2>1, LenProperties
<1>7. Ordered'
  BY <1>2, <1>4 DEF Ordered
<1>8. 0 <= Len(calls) /\ 0 \notin abandoned
  BY <1>5, <1>6
<1>9. CASE inbound # <<>> /\ garbled' = TRUE /\ UNCHANGED <<down, reads>>
  <2>1. TypeInv'
    BY <1>2, <1>9 DEF TypeInv
  <2>2. Paired(r)'
    BY <1>2, <1>3, <1>9 DEF Paired
  <2>3. Named'
    BY <1>2, <1>5, <1>8, <1>9 DEF Named
  <2> QED
    BY <1>7, <2>1, <2>2, <2>3 DEF Replies
<1>10. ASSUME inbound = <<>>, NEW n \in DOMAIN down, EndsReply(down[n]),
              \A i \in 1 .. n - 1 : ~EndsReply(down[i]), down' = Drop(down, n),
              reads' = Append(reads, [call |-> waiting, reply |-> down[n].call]),
              garbled' = garbled
       PROVE  TypeInv' /\ Replies'
  <2> PICK a : a = Len(applied)
    OBVIOUS
  <2> PICK u : u = down[n]
    OBVIOUS
  <2>1. /\ r <= Ordinal(calls, a) /\ completed <= r
        /\ Promised(calls, r, abandoned, completed)
        /\ Covered(calls, r, abandoned, waiting, pending)
        /\ Halved(calls, r, a, inbound) /\ Replied(calls, r, a, inbound, down, 0)
        /\ ~dead => AllReplied(calls, r, a, inbound, down, 0)
        /\ abandoned = {} => Lined(calls, r, waiting, pending)
    BY <1>3, <1>5 DEF Paired
  <2>2. Len(inbound) = 0 /\ n \in 1 .. Len(down) /\ n \in Nat /\ n \in 0 .. Len(down) /\ a \in Nat
    BY <1>6, <1>10, EmptySeq
  <2>3. /\ Sound(calls, a, u) /\ Ordinal(calls, u.call) = r + 1 /\ u \in ReplyUnit
        /\ Halved(calls, r + 1, a, inbound) /\ Replied(calls, r + 1, a, inbound, down, n)
        /\ AllReplied(calls, r, a, inbound, down, 0) => AllReplied(calls, r + 1, a, inbound, down, n)
    <3>1. EndsAt(down, n)
      BY <1>10 DEF EndsAt
    <3>2. Taken(calls, r, a, inbound, down, n)
      BY <1>6, <2>1, <2>2, <3>1, ReplyTaken
    <3> QED
      BY <3>2 DEF Taken
  <2>4. down' \in Seq(ReplyUnit) /\ Shifted(down, down', n)
    BY <1>6, <1>10, <2>2, ShiftedIs
  <2>5. /\ Replied(calls, r + 1, a, inbound, down', 0)
        /\ AllReplied(calls, r, a, inbound, down, 0) => AllReplied(calls, r + 1, a, inbound, down', 0)
    BY <2>2, <2>3, <2>4, RepliedRest
  <2>6. /\ Promised(calls, r + 1, abandoned, completed)
        /\ Covered(calls, r + 1, abandoned, 0, pending)
        /\ Lined(calls, r, waiting, pending) =>
             Lined(calls, r + 1, 0, pending) /\ Due(calls, waiting) /\ Ordinal(calls, waiting) = r + 1
    BY <1>1, <1>5, <2>1, BooksReturn
  <2>7. r + 1 \in Nat /\ r + 1 <= Ordinal(calls, a) /\ completed <= r + 1
    <3>1. u.call \in 0 .. a
      BY <2>3 DEF Sound, Due
    <3>2. Ordinal(calls, u.call) <= Ordinal(calls, a)
      BY <2>2, <3>1, OrdinalGrows
    <3> QED
      BY <1>6, <2>1, <2>3, <3>2
  <2> PICK x : x = [call |-> waiting, reply |-> u.call]
    OBVIOUS
  <2>8. x \in [call : Calls, reply : Calls]
    BY <1>6, <2>3 DEF ReplyUnit
  <2>9. reads' \in Seq([call : Calls, reply : Calls]) /\ Grown(reads, reads', x)
    <3>1. reads \in Seq([call : Calls, reply : Calls])
      BY DEF TypeInv
    <3> QED
      BY <1>10, <2>8, <3>1, GrownIs
  <2>10. TypeInv'
    BY <1>2, <1>10, <2>4, <2>9 DEF TypeInv
  <2>11. Paired(r + 1)'
    <3>1. /\ Halved(calls', r + 1, Len(applied'), inbound')
          /\ Replied(calls', r + 1, Len(applied'), inbound', down', 0)
          /\ ~dead' => AllReplied(calls', r + 1, Len(applied'), inbound', down', 0)
      BY <1>2, <2>1, <2>3, <2>5
    <3>2. /\ r + 1 <= Ordinal(calls', Len(applied')) /\ completed' <= r + 1
          /\ Promised(calls', r + 1, abandoned', completed')
          /\ Covered(calls', r + 1, abandoned', waiting', pending')
          /\ abandoned' = {} => Lined(calls', r + 1, waiting', pending')
      BY <1>2, <2>1, <2>6, <2>7
    <3> QED
      BY <3>1, <3>2 DEF Paired
  <2>12. ASSUME abandoned = {} PROVE Matched(reads', sink)
    <3>1. Matched(reads, sink) /\ Due(calls, waiting) /\ Ordinal(calls, waiting) = r + 1
      BY <1>5, <2>1, <2>6, <2>12
    <3>2. Due(calls, u.call)
      BY <2>3 DEF Sound
    <3>3. u.call = waiting
      BY <1>6, <2>3, <3>1, <3>2, OrdinalNames
    <3>4. /\ Len(reads) \in Nat /\ Len(reads') = Len(reads) + 1 /\ reads'[Len(reads) + 1] = x
          /\ \A i \in 1 .. Len(reads) : reads'[i] = reads[i]
      BY <2>9 DEF Grown
    <3>5. \A i \in 1 .. Len(reads') : i \in 1 .. Len(reads) \/ i = Len(reads) + 1
      BY <3>4
    <3>6. x.reply = x.call
      BY <3>3
    <3>7. \A i \in 1 .. Len(reads') : reads'[i].reply = reads'[i].call
      BY <3>1, <3>4, <3>5, <3>6 DEF Matched
    <3> QED
      BY <3>1, <3>7 DEF Matched
  <2>13. Named'
    BY <1>2, <1>5, <1>8, <2>12 DEF Named
  <2>14. \E r2 \in Nat : Paired(r2)'
    BY <2>7, <2>11
  <2> QED
    BY <1>7, <2>10, <2>13, <2>14 DEF Replies
<1> QED
  BY <1>1, <1>9, <1>10

LEMMA GiveUpKeeps ==
  ASSUME TypeInv, Replies, GiveUp
  PROVE  TypeInv' /\ Replies'
<1>1. /\ waiting # 0
      /\ \/ faults' = faults
         \/ faults < MaxFaults /\ faults' = faults + 1
      /\ garbled' \in {FALSE, down # <<>> /\ ~EndsReply(down[1])}
      /\ abandoned' = abandoned \union {waiting}
      /\ waiting' = 0
      /\ UNCHANGED <<calls, pending, inbound, completed, gone, closed, up, down, server, reads, sink>>
  BY DEF GiveUp
<1>2. /\ calls' = calls /\ pending' = pending /\ inbound' = inbound /\ completed' = completed
      /\ gone' = gone /\ closed' = closed /\ up' = up /\ inbuf' = inbuf /\ dead' = dead
      /\ applied' = applied /\ down' = down /\ sink' = sink /\ reads' = reads /\ waiting' = 0
      /\ abandoned' = abandoned \union {waiting} /\ garbled' \in BOOLEAN
  BY <1>1 DEF server
<1>3. PICK r \in Nat : Paired(r)
  BY DEF Replies
<1>4. Ordered /\ Named
  BY DEF Replies
<1>5. pending = <<>> /\ ~garbled /\ ~gone /\ waiting \notin abandoned
      /\ abandoned \subseteq 1 .. Len(calls) /\ waiting <= Len(calls)
  BY <1>1, <1>4 DEF Named
<1>6. Len(calls) \in Nat /\ calls \in Seq(CallRecord) /\ completed \in Nat /\ waiting \in Calls
      /\ waiting \in 1 .. Len(calls)
  <2>1. calls \in Seq(CallRecord) /\ waiting \in {0} \union Calls /\ completed \in Nat
    BY DEF TypeInv
  <2>2. Len(calls) \in Nat
    BY <2>1, LenProperties
  <2>3. waiting \in Nat /\ waiting >= 1
    BY <1>1, <2>1, RpcAssumption DEF Calls
  <2>4. waiting \in 1 .. Len(calls)
    BY <1>5, <2>2, <2>3
  <2> QED
    BY <1>1, <2>1, <2>2, <2>4
<1>7. IsFiniteSet(abandoned) /\ Cardinality(abandoned) \in Nat
  BY FiniteAbandoned
<1>8. Cardinality(abandoned') = Cardinality(abandoned) + 1
  BY <1>2, <1>5, <1>7, Abandons
<1>9. TypeInv'
  <2>1. faults' \in 0 .. MaxFaults
    BY <1>1, RpcAssumption DEF TypeInv
  <2>2. abandoned' \in SUBSET Calls
    <3>1. abandoned \in SUBSET Calls
      BY DEF TypeInv
    <3> QED
      BY <1>2, <1>6, <3>1
  <2> QED
    BY <1>2, <2>1, <2>2 DEF TypeInv
<1>10. Paired(r)'
  <2>1. /\ r <= Ordinal(calls, Len(applied)) /\ completed <= r
        /\ Promised(calls, r, abandoned, completed)
        /\ Covered(calls, r, abandoned, waiting, pending)
        /\ Halved(calls, r, Len(applied), inbound)
        /\ Replied(calls, r, Len(applied), inbound, down, 0)
        /\ ~dead => AllReplied(calls, r, Len(applied), inbound, down, 0)
    BY <1>3, <1>5 DEF Paired
  <2>2. Promised(calls, r, abandoned', completed)
    BY <1>2, <1>5, <1>6, <1>7, <2>1, PromisedAbandons
  <2>3. Covered(calls, r, abandoned', 0, pending)
    <3>1. Ordinal(calls, Len(calls)) \in Nat /\ Len(pending) = 0
      BY <1>5, <1>6, OrdinalType, EmptySeq
    <3>2. Ordinal(calls, Len(calls)) <= r + 0 + 1 + Cardinality(abandoned)
      BY <1>1, <2>1, <3>1 DEF Covered, Blocked
    <3>3. \A o, e \in Nat : o <= r + 0 + 1 + e => o <= r + 0 + 0 + (e + 1)
      OBVIOUS
    <3>4. Ordinal(calls, Len(calls)) <= r + Len(pending) + 0 + Cardinality(abandoned')
      BY <1>7, <1>8, <3>1, <3>2, <3>3
    <3> QED
      BY <3>4 DEF Covered, Blocked
  <2>4. abandoned' # {}
    BY <1>2
  <2> QED
    BY <1>2, <2>1, <2>2, <2>3, <2>4 DEF Paired
<1>11. Ordered'
  BY <1>2, <1>4 DEF Ordered
<1>12. Named'
  <2>1. abandoned' \subseteq 1 .. Len(calls') /\ abandoned' # {}
    BY <1>2, <1>5, <1>6
  <2>2. 0 <= Len(calls') /\ 0 \notin abandoned'
    BY <1>2, <1>6, <2>1
  <2> QED
    BY <1>2, <2>1, <2>2 DEF Named
<1> QED
  BY <1>9, <1>10, <1>11, <1>12 DEF Replies

LEMMA CloseKeeps ==
  ASSUME TypeInv, Replies, CloseArrives
  PROVE  TypeInv' /\ Replies'
<1>1. /\ closed' = TRUE
      /\ UNCHANGED <<calls, pending, waiting, inbound, completed, garbled, gone, up, down,
                     server, history, faults>>
  BY DEF CloseArrives
<1>2. TypeInv'
  BY <1>1 DEF TypeInv, server, history
<1>3. PICK r \in Nat : Paired(r)
  BY DEF Replies
<1>4. Paired(r)'
  BY <1>1, <1>3 DEF Paired, server, history
<1>5. Ordered'
  <2>1. Ordered
    BY DEF Replies
  <2> QED
    BY <1>1, <2>1 DEF Ordered, server
<1>6. Named'
  <2>1. Named
    BY DEF Replies
  <2> QED
    BY <1>1, <2>1 DEF Named, server, history
<1> QED
  BY <1>2, <1>4, <1>5, <1>6 DEF Replies

LEMMA DestroyKeeps ==
  ASSUME TypeInv, Replies, NEW n \in 0 .. Len(down), Destroy(n)
  PROVE  TypeInv' /\ Replies'
<1>1. /\ ~gone /\ waiting = 0
      /\ sink' = IF garbled THEN sink ELSE Pumped(n).sink
      /\ completed' = IF garbled THEN completed ELSE Pumped(n).completed
      /\ pending' = <<>> /\ inbound' = <<>> /\ down' = <<>>
      /\ gone' = TRUE
      /\ \E m \in 0 .. Len(up) : up' = Take(up, m)
      /\ UNCHANGED <<calls, waiting, garbled, closed, server, abandoned, reads, faults>>
  BY DEF Destroy
<1>2. /\ calls' = calls /\ waiting' = 0 /\ garbled' = garbled /\ closed' = closed /\ inbuf' = inbuf
      /\ dead' = dead /\ applied' = applied /\ abandoned' = abandoned /\ reads' = reads
      /\ faults' = faults
  BY <1>1 DEF server
<1>3. Ordered /\ Named
  BY DEF Replies
<1>4. \E r \in Nat : /\ r <= Ordinal(calls, Len(applied)) /\ completed' <= r /\ completed' \in Nat
                     /\ Promised(calls, r, abandoned, completed')
                     /\ sink' \in Seq([name : Calls, reply : Calls])
                     /\ abandoned = {} => Matched(reads, sink')
  <2>1. CASE garbled
    <3>1. PICK r \in Nat : Paired(r)
      BY DEF Replies
    <3>2. sink' = sink /\ completed' = completed
      BY <1>1, <2>1
    <3>3. completed \in Nat /\ sink \in Seq([name : Calls, reply : Calls])
      BY DEF TypeInv
    <3>4. /\ r <= Ordinal(calls, Len(applied)) /\ completed <= r
          /\ Promised(calls, r, abandoned, completed)
      BY <3>1 DEF Paired
    <3>5. abandoned = {} => Matched(reads, sink)
      BY <1>3 DEF Named
    <3> QED
      BY <3>2, <3>3, <3>4, <3>5
  <2>2. CASE ~garbled
    <3> PICK p : p = Pumped(n)
      OBVIOUS
    <3>1. sink' = p.sink /\ completed' = p.completed
      BY <1>1, <2>2
    <3>2. gone = FALSE /\ garbled = FALSE
      BY <1>1, <2>2 DEF TypeInv
    <3>3. PICK r \in Nat :
            Serving(calls, r, Len(applied), abandoned, dead, reads, Pumped(n), Drop(down, n), 0)
      BY <1>1, <3>2, Surfaced
    <3>4. /\ p \in Client /\ p.completed <= r /\ r <= Ordinal(calls, Len(applied))
          /\ Promised(calls, r, abandoned, p.completed)
          /\ abandoned = {} => Matched(reads, p.sink)
      BY <3>3 DEF Serving
    <3>5. p.completed \in Nat /\ p.sink \in Seq([name : Calls, reply : Calls])
      BY <3>4 DEF Client
    <3> QED
      BY <3>1, <3>4, <3>5
  <2> QED
    BY <2>1, <2>2
<1>5. PICK r \in Nat : /\ r <= Ordinal(calls, Len(applied)) /\ completed' <= r /\ completed' \in Nat
                       /\ Promised(calls, r, abandoned, completed')
                       /\ sink' \in Seq([name : Calls, reply : Calls])
                       /\ abandoned = {} => Matched(reads, sink')
  BY <1>4
<1>6. up \in Seq(RequestUnit) /\ Len(up) \in Nat
  <2>1. up \in Seq(RequestUnit)
    BY DEF TypeInv
  <2> QED
    BY <2>1, LenProperties
<1>7. PICK m \in 0 .. Len(up) : up' = Take(up, m)
  BY <1>1
<1>8. up' \in Seq(RequestUnit) /\ Starting(up, up', m)
  BY <1>6, <1>7, StartingIs
<1>9. TypeInv'
  <2>1. <<>> \in Seq(Calls) /\ <<>> \in Seq(ReplyUnit)
    BY EmptySeq
  <2> QED
    BY <1>1, <1>2, <1>5, <1>8, <2>1 DEF TypeInv
<1>10. Paired(r)'
  BY <1>1, <1>2, <1>5 DEF Paired
<1>11. Ordered'
  <2> PICK h : h = [inbuf |-> inbuf, applied |-> applied]
    OBVIOUS
  <2> PICK e : e = Expected(h)
    OBVIOUS
  <2>1. /\ Len(applied) <= Len(calls) /\ \A i \in 1 .. Len(applied) : applied[i] = i
        /\ ~dead => Begun(calls, h) /\ Asked(calls, e, up, 0)
    BY <1>3 DEF Ordered
  <2>2. ~dead => Asked(calls, e, up', 0)
    BY <1>6, <1>8, <2>1, AskedCut
  <2> QED
    BY <1>1, <1>2, <2>1, <2>2 DEF Ordered
<1>12. Named'
  BY <1>1, <1>2, <1>3, <1>5 DEF Named
<1> QED
  BY <1>9, <1>10, <1>11, <1>12 DEF Replies

-----------------------------------------------------------------------------
(* The theorems.                                                            *)

LEMMA InitPaired ==
  ASSUME Init
  PROVE  TypeInv /\ Replies
<1>1. /\ calls = <<>> /\ pending = <<>> /\ waiting = 0 /\ inbound = <<>>
      /\ completed = 0 /\ garbled = FALSE /\ gone = FALSE /\ closed = FALSE
      /\ up = <<>> /\ down = <<>> /\ inbuf = <<>> /\ dead = FALSE
      /\ applied = <<>> /\ abandoned = {} /\ reads = <<>> /\ sink = <<>>
      /\ faults = 0
  BY DEF Init
<1>2. /\ Len(calls) = 0 /\ Len(pending) = 0 /\ Len(inbound) = 0 /\ Len(up) = 0 /\ Len(down) = 0
      /\ Len(inbuf) = 0 /\ Len(applied) = 0 /\ Len(reads) = 0 /\ Len(sink) = 0
  BY <1>1, EmptySeq
<1>3. TypeInv
  <2>1. /\ <<>> \in Seq(CallRecord) /\ <<>> \in Seq(Calls) /\ <<>> \in Seq(RequestUnit)
        /\ <<>> \in Seq(ReplyUnit) /\ <<>> \in Seq([call : Calls, reply : Calls])
        /\ <<>> \in Seq([name : Calls, reply : Calls])
    BY EmptySeq
  <2>2. 0 <= MaxCalls /\ 0 \in 0 .. MaxFaults
    BY RpcAssumption
  <2> QED
    BY <1>1, <1>2, <2>1, <2>2 DEF TypeInv
<1>4. Ordinal(calls, 0) = 0 /\ Cardinality(abandoned) = 0
  BY <1>1, OrdinalType, FS_EmptySet
<1>5. \A i \in 1 .. 0 : FALSE
  OBVIOUS
<1>6. Paired(0)
  <2>1. Promised(calls, 0, abandoned, completed)
    BY <1>2, <1>5 DEF Promised
  <2>2. Covered(calls, 0, abandoned, waiting, pending)
    BY <1>1, <1>2, <1>4 DEF Covered, Blocked
  <2>3. Halved(calls, 0, Len(applied), inbound)
    BY <1>2 DEF Halved
  <2>4. Replied(calls, 0, Len(applied), inbound, down, 0) /\ AllReplied(calls, 0, Len(applied), inbound, down, 0)
    BY <1>2, <1>4, <1>5 DEF Replied, AllReplied
  <2>5. Lined(calls, 0, waiting, pending)
    BY <1>1, <1>2, <1>4, <1>5 DEF Lined, Blocked
  <2>6. 0 <= Ordinal(calls, Len(applied)) /\ completed <= 0
    BY <1>1, <1>2, <1>4
  <2> QED
    BY <2>1, <2>2, <2>3, <2>4, <2>5, <2>6 DEF Paired
<1>7. Ordered
  <2> PICK h : h = [inbuf |-> inbuf, applied |-> applied]
    OBVIOUS
  <2>1. Expected(h) = [call |-> 0 + 1, part |-> 0] /\ h.inbuf = inbuf /\ h.applied = applied
    BY <1>2 DEF Expected
  <2>2. Begun(calls, h)
    BY <1>2, <1>5, <2>1 DEF Begun
  <2>3. Asked(calls, Expected(h), up, 0)
    BY <1>2, <1>5 DEF Asked
  <2>4. AllAsked(calls, Expected(h), up, 0)
    BY <1>2, <2>1 DEF AllAsked
  <2>5. Len(applied) <= Len(calls) /\ \A i \in 1 .. Len(applied) : applied[i] = i
    BY <1>2, <1>5
  <2> QED
    BY <2>2, <2>3, <2>4, <2>5 DEF Ordered
<1>8. Named
  BY <1>1, <1>2, <1>5 DEF Named, Matched
<1> QED
  BY <1>3, <1>6, <1>7, <1>8 DEF Replies

LEMMA StepPaired ==
  ASSUME TypeInv, Replies, [Next]_vars
  PROVE  TypeInv' /\ Replies'
<1>1. Len(down) \in Nat /\ DOMAIN down = 1 .. Len(down)
  <2>1. down \in Seq(ReplyUnit)
    BY DEF TypeInv
  <2> QED
    BY <2>1, LenProperties
<1>2. ASSUME NEW size \in Sizes, NEW n \in 0 .. Len(down), CallVoid(size, n)
      PROVE  TypeInv' /\ Replies'
  BY <1>2, CallVoidKeeps
<1>3. ASSUME NEW size \in Sizes, CallOneway(size) PROVE TypeInv' /\ Replies'
  <2> PICK op : op = "ONEWAY"
    OBVIOUS
  <2>1. /\ Live /\ WriteRequest(op, size, 0)
        /\ UNCHANGED <<session, down, server, history, faults>>
    BY <1>3 DEF CallOneway
  <2>2. /\ waiting' = IF op = "SYNC" THEN Len(calls) + 1 ELSE waiting
        /\ op \in {"ONEWAY", "SYNC"} /\ (op = "SYNC" => pending = <<>>)
    BY <2>1 DEF session
  <2>3. UNCHANGED <<pending, inbound, completed, garbled, gone, closed, down, server, history, faults>>
    BY <2>1 DEF session
  <2> QED
    BY <2>1, <2>2, <2>3, CallKeeps
<1>4. ASSUME NEW size \in Sizes, CallSync(size) PROVE TypeInv' /\ Replies'
  <2> PICK op : op = "SYNC"
    OBVIOUS
  <2>1. /\ Live /\ WriteRequest(op, size, 0) /\ waiting' = Len(calls) + 1 /\ pending = <<>>
        /\ UNCHANGED <<pending, inbound, completed, garbled, gone, closed, down, server, history, faults>>
    BY <1>4 DEF CallSync, SyncAllowed
  <2>2. /\ waiting' = IF op = "SYNC" THEN Len(calls) + 1 ELSE waiting
        /\ op \in {"ONEWAY", "SYNC"} /\ (op = "SYNC" => pending = <<>>)
    BY <2>1
  <2> QED
    BY <2>1, <2>2, CallKeeps
<1>5. ASSUME PumpStep PROVE TypeInv' /\ Replies'
  <2>1. PICK n \in DOMAIN down : Pump(n)
    BY <1>5 DEF PumpStep
  <2>2. n \in 0 .. Len(down)
    BY <1>1
  <2> QED
    BY <2>1, <2>2, PumpKeeps
<1>6. ASSUME NEW n \in 0 .. Len(down), Destroy(n) PROVE TypeInv' /\ Replies'
  BY <1>6, DestroyKeeps
<1>7. ASSUME HostStep PROVE TypeInv' /\ Replies'
  <2>1. PICK n \in 1 .. CHUNK_MAX : n <= Len(up) /\ HostReceives(n)
    BY <1>7 DEF HostStep
  <2> QED
    BY <2>1, HostReceivesKeeps
<1>8. CASE UNCHANGED vars
  <2>1. /\ calls' = calls /\ pending' = pending /\ waiting' = waiting /\ inbound' = inbound
        /\ completed' = completed /\ garbled' = garbled /\ gone' = gone /\ closed' = closed
        /\ up' = up /\ down' = down /\ inbuf' = inbuf /\ dead' = dead /\ applied' = applied
        /\ abandoned' = abandoned /\ reads' = reads /\ sink' = sink /\ faults' = faults
    BY <1>8 DEF vars, session, server, history
  <2>2. TypeInv'
    BY <2>1 DEF TypeInv
  <2>3. PICK r \in Nat : Paired(r)
    BY DEF Replies
  <2>4. Paired(r)'
    BY <2>1, <2>3 DEF Paired
  <2>5. Ordered /\ Named
    BY DEF Replies
  <2>6. Ordered'
    BY <2>1, <2>5 DEF Ordered
  <2>7. Named'
    BY <2>1, <2>5 DEF Named
  <2> QED
    BY <2>2, <2>4, <2>6, <2>7 DEF Replies
<1>9. CASE Next
  BY <1>2, <1>3, <1>4, <1>5, <1>6, <1>7, <1>9, ReadReplyKeeps, GiveUpKeeps, CloseKeeps, Zenon DEF Next
<1> QED
  BY <1>8, <1>9

(* The inductive invariant: the requests under way name consecutive calls,  *)
(* the replies under way have consecutive ordinals, and one number of       *)
(* replies taken accounts for the completed, the pending, the blocked and   *)
(* the abandoned calls.                                                     *)
THEOREM RepliesPaired == Spec => [](TypeInv /\ Replies)
<1>1. Init => TypeInv /\ Replies
  BY InitPaired
<1>2. TypeInv /\ Replies /\ [Next]_vars => (TypeInv /\ Replies)'
  BY StepPaired
<1> QED
  BY <1>1, <1>2, PTL DEF Spec

(* Type correctness; completed_total counts no reply twice, and stays below *)
(* the number of calls written.                                             *)
THEOREM TypeCorrect == Spec => []TypeOK
<1>1. ASSUME TypeInv, Replies PROVE TypeOK
  <2>1. completed \in 0 .. MaxCalls
    <3>1. PICK r \in Nat : Paired(r)
      BY <1>1 DEF Replies
    <3>2. r <= Ordinal(calls, Len(applied)) /\ completed <= r
      BY <3>1 DEF Paired
    <3>3. Len(applied) \in Nat /\ Len(calls) \in Nat /\ Len(applied) <= Len(calls)
      <4>1. calls \in Seq(CallRecord) /\ applied \in Seq(Calls)
        BY <1>1 DEF TypeInv
      <4> QED
        BY <1>1, <4>1, LenProperties DEF Replies, Ordered
    <3>4. Ordinal(calls, Len(applied)) <= Len(applied) /\ Ordinal(calls, Len(applied)) \in Nat
      BY <3>3, OrdinalCounts, OrdinalType
    <3>5. completed \in Nat /\ Len(calls) <= MaxCalls /\ MaxCalls \in Nat
      BY <1>1, RpcAssumption DEF TypeInv
    <3> QED
      BY <3>2, <3>3, <3>4, <3>5
  <2> QED
    BY <1>1, <2>1 DEF TypeInv, TypeOK, CallRecord, Op, RequestUnit, ReplyUnit
<1> QED
  BY <1>1, RepliesPaired, PTL

(* Requests are dispatched in the order they were written, each at most     *)
(* once, and none behind the one that killed the channel.                   *)
THEOREM DispatchOrder == Spec => []DispatchedInOrder
<1>1. ASSUME TypeInv, Replies PROVE DispatchedInOrder
  <2>1. applied \in Seq(Calls) /\ inbuf \in Seq(RequestUnit)
    BY <1>1 DEF TypeInv
  <2>2. /\ Len(applied) \in Nat /\ DOMAIN applied = 1 .. Len(applied) /\ Len(inbuf) \in Nat
        /\ applied \in [1 .. Len(applied) -> Calls] /\ (inbuf # <<>> => Len(inbuf) # 0)
    BY <2>1, LenProperties, EmptySeq
  <2>3. /\ \A i \in 1 .. Len(applied) : applied[i] = i
        /\ ~dead => Begun(calls, [inbuf |-> inbuf, applied |-> applied])
    BY <1>1 DEF Replies, Ordered
  <2>4. applied = [i \in DOMAIN applied |-> i]
    BY <2>2, <2>3
  <2>5. ASSUME ~dead, inbuf # <<>> PROVE inbuf[1] = [call |-> Len(applied) + 1, part |-> 0]
    <3>1. 1 \in 1 .. Len(inbuf) /\ 1 - 1 = 0
      BY <2>2, <2>5
    <3> QED
      BY <2>3, <2>5, <3>1 DEF Begun
  <2> QED
    BY <2>4, <2>5 DEF DispatchedInOrder
<1> QED
  BY <1>1, RepliesPaired, PTL

(* While no call is abandoned, a round-trip returns its own reply, and the  *)
(* error sink is given the name of the call whose reply it reports.         *)
THEOREM RepliesAreOwn == Spec => []OwnReplies
<1>1. ASSUME TypeInv, Replies PROVE OwnReplies
  <2>1. reads \in Seq([call : Calls, reply : Calls]) /\ sink \in Seq([name : Calls, reply : Calls])
    BY <1>1 DEF TypeInv
  <2>2. DOMAIN reads = 1 .. Len(reads) /\ DOMAIN sink = 1 .. Len(sink)
    BY <2>1, LenProperties
  <2>3. abandoned = {} => Matched(reads, sink)
    BY <1>1 DEF Replies, Named
  <2> QED
    BY <2>2, <2>3 DEF Matched, OwnReplies
<1> QED
  BY <1>1, RepliesPaired, PTL

(* Once completed_total has reached the snapshot taken when a call was      *)
(* queued, plus one for each call abandoned, the host has applied the call. *)
THEOREM CountIsPromise == Spec => []CompletedIsApplied
<1>1. ASSUME TypeInv, Replies PROVE CompletedIsApplied
  <2> SUFFICES ASSUME NEW k \in DOMAIN calls, calls[k].op = "CALL", k \notin abandoned,
                      completed >= calls[k].ticket + Cardinality(abandoned)
               PROVE  k \in Range(applied)
    BY DEF CompletedIsApplied
  <2>1. calls \in Seq(CallRecord) /\ applied \in Seq(Calls) /\ completed \in Nat
    BY <1>1 DEF TypeInv
  <2>2. /\ Len(calls) \in Nat /\ DOMAIN calls = 1 .. Len(calls)
        /\ Len(applied) \in Nat /\ DOMAIN applied = 1 .. Len(applied)
    BY <2>1, LenProperties
  <2>3. k \in 1 .. Len(calls) /\ k \in Nat \ {0} /\ calls[k].ticket \in Nat
    <3>1. k \in 1 .. Len(calls)
      BY <2>2
    <3>2. calls[k] \in CallRecord
      BY <2>1, <3>1, ElementOfSeq
    <3> QED
      BY <3>1, <3>2 DEF CallRecord
  <2>4. PICK r \in Nat : Paired(r)
    BY <1>1 DEF Replies
  <2>5. r <= Ordinal(calls, Len(applied)) /\ Promised(calls, r, abandoned, completed)
    BY <2>4 DEF Paired
  <2>6. completed + Ordinal(calls, k) <= r + calls[k].ticket + Cardinality(abandoned)
    BY <2>3, <2>5 DEF Promised
  <2>7. /\ Cardinality(abandoned) \in Nat /\ Ordinal(calls, k) \in Nat
        /\ Ordinal(calls, Len(applied)) \in Nat
    BY <1>1, <2>2, <2>3, FiniteAbandoned, OrdinalType
  <2>8. \A o, t, e \in Nat : completed >= t + e /\ completed + o <= r + t + e => o <= r
    BY <2>1
  <2>9. Ordinal(calls, k) <= r
    BY <2>3, <2>6, <2>7, <2>8
  <2>10. k <= Len(applied)
    <3> SUFFICES ASSUME ~(k <= Len(applied)) PROVE FALSE
      OBVIOUS
    <3>1. Len(applied) \in 0 .. k - 1
      BY <2>2, <2>3
    <3>2. Ordinal(calls, Len(applied)) < Ordinal(calls, k)
      BY <2>3, <3>1, OrdinalRises
    <3> QED
      BY <2>5, <2>7, <2>9, <3>2
  <2>11. k \in DOMAIN applied /\ applied[k] = k
    <3>1. \A i \in 1 .. Len(applied) : applied[i] = i
      BY <1>1 DEF Replies, Ordered
    <3>2. k \in 1 .. Len(applied)
      BY <2>2, <2>3, <2>10
    <3> QED
      BY <2>2, <3>1, <3>2
  <2> QED
    BY <2>11 DEF Range
<1> QED
  BY <1>1, RepliesPaired, PTL

=============================================================================
