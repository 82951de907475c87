-------------------------- MODULE YmuxOverlayProofs --------------------------
(***************************************************************************)
(* Theorems about YmuxOverlay, for every capacity and bound: the bridge's  *)
(* sequence numbers name one record each, and the pump that resends and    *)
(* renumbers them implements a queue that applies every record once and in *)
(* order (Pump); the chrome is given its input in the order the wire       *)
(* brought it (InOrder); raw bytes follow the click ahead of them          *)
(* (Routed); and every event is in exactly one place (Conserved).          *)
(***************************************************************************)
EXTENDS YmuxOverlay, SequenceTheorems, WellFoundedInduction, TLAPS

-----------------------------------------------------------------------------
(* Induction over the natural numbers, from the well-foundedness of <. *)

LEMMA NatMin ==
  ASSUME NEW T, T \subseteq Nat, T # {}
  PROVE  \E x \in T : \A y \in T : ~(y < x)
<1>1. IsWellFoundedOn(OpToRel(<, Nat), Nat)
  BY NatLessThanWellFounded
<1>2. PICK x \in T : \A y \in T : ~(<<y, x>> \in OpToRel(<, Nat))
  BY <1>1, WFMin
<1>3. \A y \in T : <<y, x>> \in OpToRel(<, Nat) <=> y < x
  BY DEF OpToRel
<1> QED
  BY <1>2, <1>3

LEMMA NatInd ==
  ASSUME NEW G, 0 \in G, \A n \in Nat : n \in G => n + 1 \in G
  PROVE  Nat \subseteq G
<1> SUFFICES ASSUME ~(Nat \subseteq G) PROVE FALSE
  OBVIOUS
<1> DEFINE T == Nat \ G
<1>1. PICK x \in T : \A y \in T : ~(y < x)
  <2>1. T \subseteq Nat /\ T # {}
    OBVIOUS
  <2> QED
    BY <2>1, NatMin
<1>2. x # 0 /\ x \in Nat
  OBVIOUS
<1>3. x - 1 \in Nat /\ x - 1 < x
  BY <1>2
<1>4. x - 1 \in G
  BY <1>1, <1>3
<1> QED
  BY <1>2, <1>3, <1>4

-----------------------------------------------------------------------------
(* Concatenation, under a name of its own: the provers take it as a symbol. *)

Cat(s, t) == s \o t

LEMMA CatType ==
  ASSUME NEW S, NEW s \in Seq(S), NEW t \in Seq(S)
  PROVE  /\ Cat(s, t) \in Seq(S)
         /\ Len(s) \in Nat /\ Len(t) \in Nat
         /\ Len(Cat(s, t)) = Len(s) + Len(t)
         /\ \A i \in 1 .. Len(s) + Len(t) :
              Cat(s, t)[i] = IF i <= Len(s) THEN s[i] ELSE t[i - Len(s)]
BY ConcatProperties, LenProperties DEF Cat

LEMMA CatAssoc ==
  ASSUME NEW S, NEW s \in Seq(S), NEW t \in Seq(S), NEW u \in Seq(S)
  PROVE  Cat(Cat(s, t), u) = Cat(s, Cat(t, u))
BY ConcatAssociative DEF Cat

LEMMA CatEmpty ==
  ASSUME NEW S, NEW s \in Seq(S), NEW t \in Seq(S)
  PROVE  /\ Cat(s, <<>>) = s /\ Cat(<<>>, s) = s
         /\ Cat(s, t) = <<>> <=> s = <<>> /\ t = <<>>
         /\ Cat(s, t) = s <=> t = <<>>
BY ConcatEmptySeq, ConcatEqualIffEmpty DEF Cat

LEMMA CatAppend ==
  ASSUME NEW S, NEW s \in Seq(S), NEW e \in S
  PROVE  Append(s, e) = Cat(s, <<e>>) /\ <<e>> \in Seq(S) /\ <<e>> # <<>>
<1>1. <<e>> \in Seq(S) /\ <<e>> # <<>>
  OBVIOUS
<1>2. Append(s, e) = s \o <<e>>
  BY AppendIsConcat
<1> QED
  BY <1>1, <1>2, Zenon DEF Cat

LEMMA One ==
  ASSUME NEW S, NEW e \in S
  PROVE  <<e>> \in Seq(S) /\ Len(<<e>>) = 1 /\ <<e>>[1] = e
OBVIOUS

LEMMA Joined ==
  ASSUME NEW S, NEW s \in Seq(S), NEW o \in Seq(S), NEW r \in Seq(S),
         Len(s) \in Nat \ {0}, Len(o) = 1, o[1] = s[1], Len(r) = Len(s) - 1,
         \A k \in 1 .. Len(s) - 1 : r[k] = s[k + 1]
  PROVE  Cat(o, r) = s
<1> PICK c : c = Cat(o, r)
  OBVIOUS
<1>1. /\ c \in Seq(S) /\ Len(c) = Len(o) + Len(r)
      /\ \A i \in 1 .. Len(o) + Len(r) : c[i] = IF i <= Len(o) THEN o[i] ELSE r[i - Len(o)]
  BY CatType, ZenonT(40)
<1>2. Len(o) + Len(r) = Len(s)
  OBVIOUS
<1>3. \A i \in 1 .. Len(s) : c[i] = s[i]
  <2> SUFFICES ASSUME NEW i \in 1 .. Len(s) PROVE c[i] = s[i]
    OBVIOUS
  <2>1. CASE i = 1
    BY <1>1, <1>2, <2>1
  <2>2. CASE i # 1
    <3>1. i - 1 \in 1 .. Len(s) - 1 /\ (i - 1) + 1 = i /\ ~(i <= 1)
      BY <2>2
    <3>2. r[i - 1] = s[i]
      BY <3>1
    <3> QED
      BY <1>1, <1>2, <3>1, <3>2
  <2> QED
    BY <2>1, <2>2
<1> QED
  BY <1>1, <1>2, <1>3, SeqEqual

LEMMA HeadTail ==
  ASSUME NEW S, NEW s \in Seq(S), s # <<>>
  PROVE  /\ Head(s) \in S /\ Tail(s) \in Seq(S)
         /\ Len(s) \in Nat \ {0} /\ Len(Tail(s)) = Len(s) - 1
         /\ s[1] = Head(s)
         /\ \A k \in 1 .. Len(s) - 1 : Tail(s)[k] = s[k + 1]
         /\ s = Cat(<<Head(s)>>, Tail(s))
<1>1. /\ Head(s) \in S /\ Tail(s) \in Seq(S)
      /\ Len(s) \in Nat \ {0} /\ Len(Tail(s)) = Len(s) - 1
      /\ s[1] = Head(s)
      /\ \A k \in 1 .. Len(s) - 1 : Tail(s)[k] = s[k + 1]
  BY EmptySeq, HeadTailProperties
<1>2. <<Head(s)>> \in Seq(S) /\ Len(<<Head(s)>>) = 1 /\ <<Head(s)>>[1] = Head(s)
  BY <1>1, One
<1>3. Cat(<<Head(s)>>, Tail(s)) = s
  BY <1>1, <1>2, Joined
<1> QED
  BY <1>1, <1>3

LEMMA CatHead ==
  ASSUME NEW S, NEW s \in Seq(S), s # <<>>, NEW t \in Seq(S)
  PROVE  /\ Cat(s, t) # <<>> /\ Head(Cat(s, t)) = Head(s)
         /\ Tail(Cat(s, t)) = Cat(Tail(s), t)
<1> PICK c : c = Cat(s, t)
  OBVIOUS
<1>1. c # <<>> /\ c \in Seq(S)
  BY CatEmpty, CatType
<1>2. /\ Len(c) = Len(s) + Len(t) /\ Len(s) \in Nat \ {0} /\ Len(t) \in Nat
      /\ \A i \in 1 .. Len(s) + Len(t) : c[i] = IF i <= Len(s) THEN s[i] ELSE t[i - Len(s)]
  BY CatType, HeadTail, ZenonT(40)
<1>3. Head(c) = Head(s)
  <2>1. c[1] = Head(c) /\ s[1] = Head(s)
    BY <1>1, HeadTail
  <2>2. 1 \in 1 .. Len(s) + Len(t) /\ 1 <= Len(s)
    BY <1>2
  <2> QED
    BY <1>2, <2>1, <2>2
<1> PICK r : r = Tail(s)
  OBVIOUS
<1>4. r \in Seq(S) /\ Len(r) = Len(s) - 1 /\ \A k \in 1 .. Len(s) - 1 : r[k] = s[k + 1]
  BY HeadTail
<1> PICK d : d = Tail(c)
  OBVIOUS
<1>5. d \in Seq(S) /\ Len(d) = Len(c) - 1 /\ \A k \in 1 .. Len(c) - 1 : d[k] = c[k + 1]
  BY <1>1, HeadTail
<1> PICK f : f = Cat(r, t)
  OBVIOUS
<1>6. /\ f \in Seq(S) /\ Len(f) = Len(r) + Len(t)
      /\ \A i \in 1 .. Len(r) + Len(t) : f[i] = IF i <= Len(r) THEN r[i] ELSE t[i - Len(r)]
  BY <1>4, CatType
<1>7. Len(d) = Len(f)
  BY <1>2, <1>4, <1>5, <1>6
<1>8. ASSUME NEW k \in 1 .. Len(d) PROVE d[k] = f[k]
  <2> PICK n, m : n = Len(s) /\ m = Len(t)
    OBVIOUS
  <2>1. k \in 1 .. n - 1 + m /\ k + 1 \in 1 .. n + m /\ n \in Nat \ {0} /\ m \in Nat
        /\ Len(r) = n - 1 /\ Len(c) = n + m
    BY <1>2, <1>4, <1>5
  <2>2. d[k] = c[k + 1] /\ c[k + 1] = (IF k + 1 <= n THEN s[k + 1] ELSE t[k + 1 - n])
    BY <1>2, <1>5, <2>1
  <2>3. f[k] = IF k <= n - 1 THEN r[k] ELSE t[k - (n - 1)]
    BY <1>6, <2>1
  <2>4. k + 1 - n = k - (n - 1) /\ (k + 1 <= n <=> k <= n - 1)
    BY <2>1
  <2>5. k <= n - 1 => r[k] = s[k + 1]
    BY <1>4, <2>1
  <2> QED
    BY <2>2, <2>3, <2>4, <2>5
<1>9. d = f
  BY <1>5, <1>6, <1>7, <1>8, SeqEqual
<1> QED
  BY <1>1, <1>3, <1>9

-----------------------------------------------------------------------------
(* What the fold in Retain computes: one step per event, in order. *)

LEMMA MaxIs ==
  ASSUME NEW n \in Nat, NEW s \in SUBSET (1 .. n + 1), n + 1 \in s
  PROVE  Max(s) = n + 1
<1>1. \A x \in s : (\A y \in s : x >= y) <=> x = n + 1
  OBVIOUS
<1>2. Max(s) \in s /\ \A y \in s : Max(s) >= y
  <2>1. \E x \in s : \A y \in s : x >= y
    BY <1>1
  <2> QED
    BY <2>1 DEF Max
<1> QED
  BY <1>1, <1>2

Folding(g, q, es, n) ==
  g = [s \in SUBSET (1 .. n) |->
         IF s = {} THEN q ELSE RetainOrHold(g[s \ {Max(s)}], es[Max(s)])]

LEMMA FoldingExists ==
  ASSUME NEW es, NEW q
  PROVE  \A n \in Nat : \E g : Folding(g, q, es, n)
<1> DEFINE G == {n \in Nat : \E g : Folding(g, q, es, n)}
<1>1. 0 \in G
  <2> DEFINE g == [s \in SUBSET (1 .. 0) |-> q]
  <2>1. g = [s \in SUBSET (1 .. 0) |->
               IF s = {} THEN q ELSE RetainOrHold(g[s \ {Max(s)}], es[Max(s)])]
    <3>1. 1 .. 0 = {}
      OBVIOUS
    <3>2. \A s \in SUBSET (1 .. 0) : s = {}
      BY <3>1
    <3> QED
      BY <3>2
  <2> QED
    BY <2>1 DEF Folding
<1>2. ASSUME NEW n \in Nat, n \in G PROVE n + 1 \in G
  <2>1. PICK g : Folding(g, q, es, n)
    BY <1>2
  <2> DEFINE h == [s \in SUBSET (1 .. n + 1) |->
                     IF n + 1 \in s THEN RetainOrHold(g[s \ {n + 1}], es[n + 1]) ELSE g[s]]
             H(s) == IF s = {} THEN q ELSE RetainOrHold(h[s \ {Max(s)}], es[Max(s)])
  <2>2. \A s \in SUBSET (1 .. n + 1) :
           h[s] = IF n + 1 \in s THEN RetainOrHold(g[s \ {n + 1}], es[n + 1]) ELSE g[s]
    OBVIOUS
  <2>3. h = [s \in SUBSET (1 .. n + 1) |-> h[s]]
    OBVIOUS
  <2>4. \A s \in SUBSET (1 .. n) :
           g[s] = IF s = {} THEN q ELSE RetainOrHold(g[s \ {Max(s)}], es[Max(s)])
    BY <2>1 DEF Folding
  <2> HIDE DEF h
  <2>5. ASSUME NEW s \in SUBSET (1 .. n + 1) PROVE h[s] = H(s)
    <3>1. CASE n + 1 \in s
      <4>1. Max(s) = n + 1 /\ s # {}
        BY <3>1, MaxIs
      <4>2. s \ {n + 1} \in SUBSET (1 .. n + 1) /\ n + 1 \notin s \ {n + 1}
        OBVIOUS
      <4>3. h[s \ {n + 1}] = g[s \ {n + 1}]
        BY <2>2, <4>2
      <4> QED
        BY <2>2, <3>1, <4>1, <4>3
    <3>2. CASE n + 1 \notin s
      <4>1. s \in SUBSET (1 .. n)
        BY <3>2
      <4>2. h[s \ {Max(s)}] = g[s \ {Max(s)}]
        BY <2>2, <3>2
      <4> QED
        BY <2>2, <2>4, <3>2, <4>1, <4>2
    <3> QED
      BY <3>1, <3>2
  <2>6. h = [s \in SUBSET (1 .. n + 1) |-> H(s)]
    BY <2>3, <2>5
  <2>7. Folding(h, q, es, n + 1)
    BY <2>6 DEF Folding
  <2> QED
    BY <2>7
<1> HIDE DEF G
<1>3. Nat \subseteq G
  BY <1>1, <1>2, NatInd
<1> QED
  BY <1>3 DEF G

(* The fold passes through the states g[0], g[1], ..., one event each. *)
LEMMA FoldSteps ==
  ASSUME NEW S, NEW es \in Seq(S), NEW q
  PROVE  \E g : /\ g[0] = q
                /\ \A n \in 0 .. Len(es) - 1 : g[n + 1] = RetainOrHold(g[n], es[n + 1])
                /\ FoldLeft(RetainOrHold, q, es) = g[Len(es)]
<1>1. DOMAIN es = 1 .. Len(es) /\ Len(es) \in Nat
  BY LenProperties
<1> DEFINE P(f) == f = [s \in SUBSET (DOMAIN es) |->
                   IF s = {} THEN q ELSE RetainOrHold(f[s \ {Max(s)}], es[Max(s)])]
           F == CHOOSE f : P(f)
<1>2. FoldLeft(RetainOrHold, q, es) = F[DOMAIN es]
  BY Zenon DEF FoldLeft, MapThenFoldSet
<1>3. \E f : P(f)
  <2>1. PICK f : Folding(f, q, es, Len(es))
    BY <1>1, FoldingExists
  <2>2. P(f)
    BY <1>1, <2>1 DEF Folding
  <2> QED
    BY <2>2
<1>4. P(F)
  BY <1>3, Zenon
<1> USE DEF P
<1> HIDE DEF F
<1> DEFINE g == [n \in 0 .. Len(es) |-> F[1 .. n]]
<1>5. \A s \in SUBSET (1 .. Len(es)) :
         F[s] = IF s = {} THEN q ELSE RetainOrHold(F[s \ {Max(s)}], es[Max(s)])
  BY <1>1, <1>4
<1>6. g[0] = q
  <2>1. 1 .. 0 = {} /\ 0 \in 0 .. Len(es)
    BY <1>1
  <2> QED
    BY <1>5, <2>1
<1>7. ASSUME NEW n \in 0 .. Len(es) - 1 PROVE g[n + 1] = RetainOrHold(g[n], es[n + 1])
  <2>1. 1 .. n + 1 \in SUBSET (1 .. Len(es)) /\ n \in Nat /\ n + 1 \in 1 .. n + 1
    BY <1>1
  <2>2. Max(1 .. n + 1) = n + 1
    BY <2>1, MaxIs
  <2>3. (1 .. n + 1) \ {n + 1} = 1 .. n /\ 1 .. n + 1 # {}
    BY <2>1
  <2>4. F[1 .. n + 1] = RetainOrHold(F[1 .. n], es[n + 1])
    BY <1>5, <2>1, <2>2, <2>3
  <2>5. n \in 0 .. Len(es) /\ n + 1 \in 0 .. Len(es)
    BY <1>1
  <2> QED
    BY <2>4, <2>5
<1>8. FoldLeft(RetainOrHold, q, es) = g[Len(es)]
  BY <1>1, <1>2
<1> HIDE DEF g
<1> QED
  BY <1>6, <1>7, <1>8

Record == [event : Nat, piece : {1, 2}]
Queues == [backlog : Seq(Record), retry : Seq(Record)]

LEMMA PiecesType == \A e \in Nat : Pieces(e) \in Seq(Record) /\ Pieces(e) # <<>>
<1> SUFFICES ASSUME NEW e \in Nat PROVE Pieces(e) \in Seq(Record) /\ Pieces(e) # <<>>
  OBVIOUS
<1> DEFINE a == [event |-> e, piece |-> 1]
           b == [event |-> e, piece |-> 2]
<1>1. a \in Record /\ b \in Record
  BY DEF Record
<1> HIDE DEF a, b
<1>2. <<a>> \in Seq(Record) /\ <<a, b>> \in Seq(Record) /\ <<a>> # <<>> /\ <<a, b>> # <<>>
  BY <1>1
<1>3. Pieces(e) \in {<<a>>, <<a, b>>}
  BY Zenon DEF Pieces, a, b
<1> QED
  BY <1>2, <1>3

\* The queue q extends the queue <<b, r>> by z: nothing passes a record that is held.
Extends(q, b, r, z) ==
  /\ q \in Queues
  /\ \E x, y \in Seq(Record) : /\ q.backlog = Cat(b, x)
                               /\ q.retry = Cat(r, y)
                               /\ (r # <<>> => x = <<>>)
                               /\ z = Cat(x, y)

LEMMA RetainOrHoldIs ==
  ASSUME NEW q \in Queues, NEW e \in Nat
  PROVE  LET t == RetainOrHold(q, e)
         IN  \/ /\ q.retry = <<>>
                /\ t = [backlog |-> Cat(q.backlog, Pieces(e)), retry |-> <<>>]
             \/ t = [backlog |-> q.backlog, retry |-> Cat(q.retry, Pieces(e))]
<1> PICK b, r : q = [backlog |-> b, retry |-> r]
  BY DEF Queues
<1>1. q.backlog = b /\ q.retry = r
  OBVIOUS
<1>2. \A u : [q EXCEPT !.backlog = u] = [backlog |-> u, retry |-> r]
  OBVIOUS
<1>3. \A v : [q EXCEPT !.retry = v] = [backlog |-> b, retry |-> v]
  OBVIOUS
<1> PICK u, v : u = Cat(b, Pieces(e)) /\ v = Cat(r, Pieces(e))
  OBVIOUS
<1>4. RetainOrHold(q, e) \in {[q EXCEPT !.backlog = Cat(q.backlog, Pieces(e))],
                              [q EXCEPT !.retry = Cat(q.retry, Pieces(e))]}
      /\ (RetainOrHold(q, e) # [q EXCEPT !.retry = Cat(q.retry, Pieces(e))] => q.retry = <<>>)
  BY Zenon DEF RetainOrHold, Cat
<1>5. Cat(q.backlog, Pieces(e)) = u /\ Cat(q.retry, Pieces(e)) = v
  BY <1>1
<1>6. RetainOrHold(q, e) \in {[q EXCEPT !.backlog = u], [q EXCEPT !.retry = v]}
      /\ (RetainOrHold(q, e) # [q EXCEPT !.retry = v] => q.retry = <<>>)
  BY <1>4, <1>5, Zenon
<1>7. \/ q.retry = <<>> /\ RetainOrHold(q, e) = [backlog |-> u, retry |-> r]
      \/ RetainOrHold(q, e) = [backlog |-> b, retry |-> v]
  BY <1>2, <1>3, <1>6
<1> QED
  BY <1>1, <1>5, <1>7, Zenon

LEMMA ExtendsStep ==
  ASSUME NEW b \in Seq(Record), NEW r \in Seq(Record), NEW q, NEW z, Extends(q, b, r, z),
         NEW e \in Nat
  PROVE  Extends(RetainOrHold(q, e), b, r, Cat(z, Pieces(e)))
<1>1. PICK x \in Seq(Record), y \in Seq(Record) :
         /\ q.backlog = Cat(b, x) /\ q.retry = Cat(r, y)
         /\ (r # <<>> => x = <<>>) /\ z = Cat(x, y)
  BY DEF Extends
<1> PICK p : p = Pieces(e)
  OBVIOUS
<1>2. p \in Seq(Record) /\ q \in Queues
  BY PiecesType DEF Extends
<1> PICK t : t = RetainOrHold(q, e)
  OBVIOUS
<1> PICK u, v : u = Cat(x, p) /\ v = Cat(y, p)
  OBVIOUS
<1>3. u \in Seq(Record) /\ v \in Seq(Record)
  BY <1>2, CatType
<1>a. /\ Cat(Cat(b, x), p) = Cat(b, Cat(x, p)) /\ Cat(Cat(r, y), p) = Cat(r, Cat(y, p))
      /\ Cat(Cat(x, y), p) = Cat(x, Cat(y, p))
  BY <1>2, CatAssoc
<1>4. /\ Cat(Cat(b, x), p) = Cat(b, u) /\ Cat(Cat(r, y), p) = Cat(r, v)
      /\ Cat(z, p) = Cat(x, v)
  BY <1>1, <1>a, Zenon
<1>5. Cat(b, u) \in Seq(Record) /\ Cat(r, v) \in Seq(Record)
  BY <1>3, CatType
<1>6. CASE q.retry = <<>> /\ t = [backlog |-> Cat(q.backlog, p), retry |-> <<>>]
  <2>a. Cat(r, y) = <<>>
    BY <1>1, <1>6
  <2>b. Cat(r, y) = <<>> => r = <<>> /\ y = <<>>
    BY CatEmpty
  <2>1. r = <<>> /\ Cat(r, y) = <<>> /\ y = <<>>
    BY <2>a, <2>b
  <2>2. t = [backlog |-> Cat(b, u), retry |-> Cat(r, y)]
    BY <1>1, <1>4, <1>6, <2>1, Zenon
  <2>3. t.backlog = Cat(b, u) /\ t.retry = Cat(r, y)
    BY <2>2
  <2>4. Cat(r, y) \in Seq(Record)
    BY CatType
  <2>5. t \in Queues
    BY <1>5, <2>2, <2>4 DEF Queues
  <2>6. Cat(x, <<>>) = x /\ Cat(u, <<>>) = u
    BY <1>3, CatEmpty
  <2>7. Cat(z, p) = Cat(u, y)
    BY <1>1, <2>1, <2>6, Zenon
  <2>8. Extends(t, b, r, Cat(z, p))
    BY <1>3, <2>1, <2>3, <2>5, <2>7, Zenon DEF Extends
  <2> QED
    BY <2>8
<1>7. CASE t = [backlog |-> q.backlog, retry |-> Cat(q.retry, p)]
  <2>2. t = [backlog |-> Cat(b, x), retry |-> Cat(r, v)]
    BY <1>1, <1>4, <1>7, Zenon
  <2>3. t.backlog = Cat(b, x) /\ t.retry = Cat(r, v)
    BY <2>2
  <2>4. Cat(b, x) \in Seq(Record)
    BY CatType
  <2>5. t \in Queues
    BY <1>5, <2>2, <2>4 DEF Queues
  <2>6. Extends(t, b, r, Cat(z, p))
    BY <1>1, <1>3, <1>4, <2>3, <2>5, Zenon DEF Extends
  <2> QED
    BY <2>6
<1>8. \/ q.retry = <<>> /\ t = [backlog |-> Cat(q.backlog, p), retry |-> <<>>]
      \/ t = [backlog |-> q.backlog, retry |-> Cat(q.retry, p)]
  BY <1>2, RetainOrHoldIs, Zenon
<1> QED
  BY <1>6, <1>7, <1>8

\* The records tk are the pieces of some events, each whole and in its order;
\* big are the events with two pieces.
Big == {e \in Nat : events[e].kind = "paste"}

Whole(tk, big) ==
  /\ tk \in Seq(Record)
  /\ \A i, j \in 1 .. Len(tk) :
       i < j /\ tk[i].event = tk[j].event => tk[i].piece < tk[j].piece
  /\ \A i \in 1 .. Len(tk) : tk[i].piece = 2 => tk[i].event \in big
  /\ \A i \in 1 .. Len(tk) : \A p \in {1, 2} :
       p = 1 \/ tk[i].event \in big =>
         \E j \in 1 .. Len(tk) : tk[j].event = tk[i].event /\ tk[j].piece = p

EventsOf(tk) == {tk[i].event : i \in 1 .. Len(tk)}
Distinct(s) == \A i, j \in 1 .. Len(s) : s[i] = s[j] => i = j
Members(s) == {s[i] : i \in 1 .. Len(s)}

LEMMA EventsJoin ==
  ASSUME NEW s \in Seq(Record), NEW t \in Seq(Record)
  PROVE  EventsOf(Cat(s, t)) = EventsOf(s) \cup EventsOf(t)
<1> PICK c, m, n : c = Cat(s, t) /\ m = Len(s) /\ n = Len(t)
  OBVIOUS
<1>1. /\ c \in Seq(Record) /\ m \in Nat /\ n \in Nat /\ Len(c) = m + n
      /\ \A i \in 1 .. m + n : c[i] = IF i <= m THEN s[i] ELSE t[i - m]
  BY CatType
<1>2. ASSUME NEW i \in 1 .. m PROVE i \in 1 .. m + n /\ c[i] = s[i]
  <2>a. m \in Nat /\ n \in Nat
    BY <1>1
  <2>1. i \in 1 .. m + n /\ i <= m
    BY <2>a
  <2>2. c[i] = IF i <= m THEN s[i] ELSE t[i - m]
    BY <1>1, <2>1
  <2> QED
    BY <2>1, <2>2
<1>3. ASSUME NEW i \in 1 .. n PROVE i + m \in 1 .. m + n /\ c[i + m] = t[i]
  <2>a. m \in Nat /\ n \in Nat
    BY <1>1
  <2>1. i + m \in 1 .. m + n /\ ~(i + m <= m) /\ (i + m) - m = i
    BY <2>a
  <2>2. c[i + m] = t[(i + m) - m]
    BY <1>1, <2>1
  <2> QED
    BY <2>1, <2>2
<1>b. \A i \in 1 .. n : \E j \in 1 .. m + n : c[j] = t[i]
  BY <1>3
<1>4. \A i \in 1 .. m + n : \/ i \in 1 .. m /\ c[i] = s[i]
                            \/ i - m \in 1 .. n /\ c[i] = t[i - m]
  <2> SUFFICES ASSUME NEW i \in 1 .. m + n
               PROVE  \/ i \in 1 .. m /\ c[i] = s[i]
                      \/ i - m \in 1 .. n /\ c[i] = t[i - m]
    OBVIOUS
  <2>1. m \in Nat /\ n \in Nat
    BY <1>1
  <2>2. \/ i \in 1 .. m /\ i <= m
        \/ i - m \in 1 .. n /\ ~(i <= m) /\ i > m
    BY <2>1
  <2>3. c[i] = IF i <= m THEN s[i] ELSE t[i - m]
    BY <1>1
  <2> QED
    BY <2>2, <2>3
<1>5. EventsOf(c) \subseteq EventsOf(s) \cup EventsOf(t)
  <2> SUFFICES ASSUME NEW i \in 1 .. m + n
               PROVE  c[i].event \in EventsOf(s) \/ c[i].event \in EventsOf(t)
    BY <1>1 DEF EventsOf
  <2>1. CASE i \in 1 .. m /\ c[i] = s[i]
    BY <2>1 DEF EventsOf
  <2>2. CASE i - m \in 1 .. n /\ c[i] = t[i - m]
    BY <2>2 DEF EventsOf
  <2> QED
    BY <1>4, <2>1, <2>2
<1>6. EventsOf(s) \subseteq EventsOf(c)
  BY <1>1, <1>2 DEF EventsOf
<1>7. EventsOf(t) \subseteq EventsOf(c)
  BY <1>1, <1>b DEF EventsOf
<1> QED
  BY <1>5, <1>6, <1>7

LEMMA WholeJoins ==
  ASSUME NEW big, NEW s, NEW t, Whole(s, big), Whole(t, big), EventsOf(s) \cap EventsOf(t) = {}
  PROVE  Whole(Cat(s, t), big)
<1> PICK c, m, n : c = Cat(s, t) /\ m = Len(s) /\ n = Len(t)
  OBVIOUS
<1>0. s \in Seq(Record) /\ t \in Seq(Record)
  BY DEF Whole
<1>1. /\ c \in Seq(Record) /\ m \in Nat /\ n \in Nat /\ Len(c) = m + n
      /\ \A i \in 1 .. m + n : c[i] = IF i <= m THEN s[i] ELSE t[i - m]
  <2>1. /\ Cat(s, t) \in Seq(Record)
        /\ Len(s) \in Nat /\ Len(t) \in Nat
        /\ Len(Cat(s, t)) = Len(s) + Len(t)
        /\ \A i \in 1 .. Len(s) + Len(t) :
             Cat(s, t)[i] = IF i <= Len(s) THEN s[i] ELSE t[i - Len(s)]
    BY <1>0, CatType
  <2> QED
    BY <2>1
<1>2. ASSUME NEW i \in 1 .. m PROVE i \in 1 .. m + n /\ c[i] = s[i]
  <2>a. m \in Nat /\ n \in Nat
    BY <1>1
  <2>1. i \in 1 .. m + n /\ i <= m
    BY <2>a
  <2>2. c[i] = IF i <= m THEN s[i] ELSE t[i - m]
    BY <1>1, <2>1
  <2> QED
    BY <2>1, <2>2
<1>3. ASSUME NEW i \in 1 .. n PROVE i + m \in 1 .. m + n /\ c[i + m] = t[i]
  <2>a. m \in Nat /\ n \in Nat
    BY <1>1
  <2>1. i + m \in 1 .. m + n /\ ~(i + m <= m) /\ (i + m) - m = i
    BY <2>a
  <2>2. c[i + m] = t[(i + m) - m]
    BY <1>1, <2>1
  <2> QED
    BY <2>1, <2>2
<1>b. \A i \in 1 .. n : \E j \in 1 .. m + n : c[j] = t[i]
  BY <1>3
<1>4. \A i \in 1 .. m + n : \/ i \in 1 .. m /\ c[i] = s[i]
                            \/ i - m \in 1 .. n /\ c[i] = t[i - m] /\ i > m
  <2> SUFFICES ASSUME NEW i \in 1 .. m + n
               PROVE  \/ i \in 1 .. m /\ c[i] = s[i]
                      \/ i - m \in 1 .. n /\ c[i] = t[i - m] /\ i > m
    OBVIOUS
  <2>1. m \in Nat /\ n \in Nat
    BY <1>1
  <2>2. \/ i \in 1 .. m /\ i <= m
        \/ i - m \in 1 .. n /\ ~(i <= m) /\ i > m
    BY <2>1
  <2>3. c[i] = IF i <= m THEN s[i] ELSE t[i - m]
    BY <1>1
  <2> QED
    BY <2>2, <2>3
<1>5. \A i \in 1 .. m, j \in 1 .. n : s[i].event # t[j].event
  BY DEF EventsOf
<1>6. ASSUME NEW i \in 1 .. m + n, NEW j \in 1 .. m + n, i < j, c[i].event = c[j].event
      PROVE  c[i].piece < c[j].piece
  <2>1. CASE i \in 1 .. m /\ c[i] = s[i] /\ j \in 1 .. m /\ c[j] = s[j]
    BY <1>6, <2>1 DEF Whole
  <2>2. CASE i - m \in 1 .. n /\ c[i] = t[i - m] /\ j - m \in 1 .. n /\ c[j] = t[j - m]
    <3>1. i - m < j - m
      BY <1>1, <1>6
    <3> QED
      BY <1>6, <2>2, <3>1 DEF Whole
  <2>3. CASE i \in 1 .. m /\ c[i] = s[i] /\ j - m \in 1 .. n /\ c[j] = t[j - m]
    BY <1>5, <1>6, <2>3
  <2> QED
    BY <1>1, <1>4, <1>6, <2>1, <2>2, <2>3
<1>7. ASSUME NEW i \in 1 .. m + n
      PROVE  /\ c[i].piece = 2 => c[i].event \in big
             /\ \A p \in {1, 2} : p = 1 \/ c[i].event \in big =>
                  \E j \in 1 .. m + n : c[j].event = c[i].event /\ c[j].piece = p
  <2>1. CASE i \in 1 .. m /\ c[i] = s[i]
    <3>1. \A p \in {1, 2} : p = 1 \/ s[i].event \in big =>
             \E j \in 1 .. m : s[j].event = s[i].event /\ s[j].piece = p
      BY <2>1 DEF Whole
    <3>2. s[i].piece = 2 => s[i].event \in big
      BY <2>1 DEF Whole
    <3> QED
      BY <1>2, <2>1, <3>1, <3>2
  <2>2. CASE i - m \in 1 .. n /\ c[i] = t[i - m]
    <3> PICK k \in 1 .. n : c[i] = t[k]
      BY <2>2
    <3>1. \A p \in {1, 2} : p = 1 \/ t[k].event \in big =>
             \E j \in 1 .. n : t[j].event = t[k].event /\ t[j].piece = p
      BY DEF Whole
    <3>2. t[k].piece = 2 => t[k].event \in big
      BY DEF Whole
    <3>3. ASSUME NEW p \in {1, 2}, p = 1 \/ c[i].event \in big
          PROVE  \E j \in 1 .. m + n : c[j].event = c[i].event /\ c[j].piece = p
      <4>1. PICK j \in 1 .. n : t[j].event = t[k].event /\ t[j].piece = p
        BY <3>1, <3>3
      <4>2. PICK l \in 1 .. m + n : c[l] = t[j]
        BY <1>b
      <4> QED
        BY <4>1, <4>2
    <3> QED
      BY <3>2, <3>3
  <2> QED
    BY <1>4, <2>1, <2>2
<1>8. Whole(c, big)
  BY <1>1, <1>6, <1>7 DEF Whole
<1> QED
  BY <1>8

LEMMA PiecesWhole ==
  ASSUME NEW e \in Nat
  PROVE  Whole(Pieces(e), Big) /\ EventsOf(Pieces(e)) = {e}
<1> PICK a, b : a = [event |-> e, piece |-> 1] /\ b = [event |-> e, piece |-> 2]
  OBVIOUS
<1>1. /\ a \in Record /\ b \in Record /\ a.event = e /\ b.event = e /\ a.piece = 1 /\ b.piece = 2
  BY DEF Record
<1> PICK one, two : one = <<a>> /\ two = <<a, b>>
  OBVIOUS
<1>2. /\ one \in Seq(Record) /\ Len(one) = 1 /\ one[1] = a
      /\ two \in Seq(Record) /\ Len(two) = 2 /\ two[1] = a /\ two[2] = b
  BY <1>1
<1>3. 1 .. 1 = {1} /\ 1 .. 2 = {1, 2}
  OBVIOUS
<1>4. Pieces(e) = IF e \in Big THEN two ELSE one
  BY Zenon DEF Pieces, Big
<1>5. e \notin Big => Whole(one, Big)
  BY <1>1, <1>2, <1>3 DEF Whole
<1>6. e \in Big => Whole(two, Big)
  BY <1>1, <1>2, <1>3 DEF Whole
<1>7. EventsOf(one) = {e} /\ EventsOf(two) = {e}
  BY <1>1, <1>2, <1>3 DEF EventsOf
<1> QED
  BY <1>4, <1>5, <1>6, <1>7

\* The records z are what the first n of the events es give, each event once.
Gathered(z, es, n) == Whole(z, Big) /\ EventsOf(z) = {es[i] : i \in 1 .. n}

LEMMA GatheredNone ==
  ASSUME NEW es
  PROVE  Gathered(<<>>, es, 0)
<1>1. <<>> \in Seq(Record) /\ Len(<<>>) = 0 /\ 1 .. 0 = {}
  BY EmptySeq
<1> PICK z : z = <<>>
  OBVIOUS
<1>2. Whole(z, Big)
  BY <1>1 DEF Whole
<1>3. EventsOf(z) = {} /\ {es[i] : i \in 1 .. 0} = {}
  BY <1>1 DEF EventsOf
<1> QED
  BY <1>2, <1>3 DEF Gathered

LEMMA GatheredStep ==
  ASSUME NEW es \in Seq(Nat), Distinct(es), NEW n \in Nat, n + 1 <= Len(es),
         NEW z, Gathered(z, es, n)
  PROVE  Gathered(Cat(z, Pieces(es[n + 1])), es, n + 1)
<1> PICK e, p : e = es[n + 1] /\ p = Pieces(e)
  OBVIOUS
<1>1. Len(es) \in Nat
  BY LenProperties
<1>2. e \in Nat
  <2>1. n + 1 \in 1 .. Len(es)
    BY <1>1
  <2> QED
    BY <2>1, ElementOfSeq
<1>3. Whole(p, Big) /\ EventsOf(p) = {e}
  BY <1>2, PiecesWhole
<1>4. Whole(z, Big) /\ EventsOf(z) = {es[i] : i \in 1 .. n}
  BY DEF Gathered
<1>5. \A i \in 1 .. n : i \in 1 .. Len(es) /\ n + 1 \in 1 .. Len(es) /\ i # n + 1
  BY <1>1
<1>6. EventsOf(z) \cap EventsOf(p) = {}
  BY <1>3, <1>4, <1>5 DEF Distinct
<1>7. Whole(Cat(z, p), Big)
  BY <1>3, <1>4, <1>6, WholeJoins
<1>8. EventsOf(Cat(z, p)) = EventsOf(z) \cup EventsOf(p)
  BY <1>3, <1>4, EventsJoin DEF Whole
<1>9. {es[i] : i \in 1 .. n} \cup {e} = {es[i] : i \in 1 .. n + 1}
  <2>1. 1 .. n + 1 = (1 .. n) \cup {n + 1}
    OBVIOUS
  <2> QED
    BY <2>1
<1>10. Gathered(Cat(z, p), es, n + 1)
  BY <1>3, <1>4, <1>7, <1>8, <1>9 DEF Gathered
<1> QED
  BY <1>10

LEMMA RetainedIs ==
  ASSUME NEW b \in Seq(Record), NEW r \in Seq(Record), NEW es \in Seq(Nat)
  PROVE  \E z : /\ Extends(FoldLeft(RetainOrHold, [backlog |-> b, retry |-> r], es), b, r, z)
                /\ Distinct(es) => Gathered(z, es, Len(es))
<1> DEFINE q == [backlog |-> b, retry |-> r]
<1>1. PICK g : /\ g[0] = q
               /\ \A n \in 0 .. Len(es) - 1 : g[n + 1] = RetainOrHold(g[n], es[n + 1])
               /\ FoldLeft(RetainOrHold, q, es) = g[Len(es)]
  BY FoldSteps
<1> DEFINE At(n, z) == Extends(g[n], b, r, z) /\ (Distinct(es) => Gathered(z, es, n))
           G == {n \in Nat : n <= Len(es) => \E z : At(n, z)}
<1>2. Extends(q, b, r, <<>>)
  <2>1. q \in Queues /\ q.backlog = b /\ q.retry = r
    BY DEF Queues
  <2>2. b = Cat(b, <<>>) /\ r = Cat(r, <<>>) /\ <<>> \in Seq(Record) /\ <<>> = Cat(<<>>, <<>>)
    BY CatEmpty, EmptySeq
  <2> HIDE DEF q
  <2> QED
    BY <2>1, <2>2, Zenon DEF Extends
<1> HIDE DEF q
<1>3. 0 \in G
  <2>1. At(0, <<>>)
    BY <1>1, <1>2, GatheredNone
  <2> HIDE DEF At
  <2> QED
    BY <2>1
<1>4. ASSUME NEW n \in Nat, n \in G PROVE n + 1 \in G
  <2> SUFFICES ASSUME n + 1 <= Len(es) PROVE \E z : At(n + 1, z)
    OBVIOUS
  <2>1. Len(es) \in Nat
    BY LenProperties
  <2>2. n \in 0 .. Len(es) - 1 /\ n + 1 \in 1 .. Len(es) /\ n <= Len(es)
    BY <2>1
  <2>3. es[n + 1] \in Nat
    BY <2>2, ElementOfSeq
  <2>4. PICK z : At(n, z)
    BY <1>4, <2>2
  <2>5. Extends(g[n], b, r, z) /\ g[n + 1] = RetainOrHold(g[n], es[n + 1])
    BY <1>1, <2>2, <2>4
  <2>6. Extends(g[n + 1], b, r, Cat(z, Pieces(es[n + 1])))
    BY <2>3, <2>5, ExtendsStep
  <2>7. Distinct(es) => Gathered(Cat(z, Pieces(es[n + 1])), es, n + 1)
    BY <2>4, GatheredStep
  <2>8. At(n + 1, Cat(z, Pieces(es[n + 1])))
    BY <2>6, <2>7
  <2> HIDE DEF At
  <2> QED
    BY <2>8
<1> HIDE DEF G, At
<1>5. Nat \subseteq G
  BY <1>3, <1>4, NatInd
<1>6. Len(es) \in Nat /\ Len(es) <= Len(es)
  BY LenProperties
<1>7. \E z : At(Len(es), z)
  BY <1>5, <1>6 DEF G
<1> QED
  BY <1>1, <1>7 DEF q, At

LEMMA FoldedOne ==
  ASSUME NEW q, NEW es \in Seq(Nat), Len(es) = 1
  PROVE  FoldLeft(RetainOrHold, q, es) = RetainOrHold(q, es[1])
<1>1. PICK g : /\ g[0] = q
               /\ \A n \in 0 .. Len(es) - 1 : g[n + 1] = RetainOrHold(g[n], es[n + 1])
               /\ FoldLeft(RetainOrHold, q, es) = g[Len(es)]
  BY FoldSteps
<1>2. 0 \in 0 .. Len(es) - 1 /\ 0 + 1 = 1
  OBVIOUS
<1>3. g[1] = RetainOrHold(g[0], es[1])
  BY <1>1, <1>2
<1> QED
  BY <1>1, <1>3

LEMMA RetainedOne ==
  ASSUME NEW q, NEW e \in Nat
  PROVE  FoldLeft(RetainOrHold, q, <<e>>) = RetainOrHold(q, e)
<1>1. <<e>> \in Seq(Nat) /\ Len(<<e>>) = 1 /\ <<e>>[1] = e
  BY One
<1>2. FoldLeft(RetainOrHold, q, <<e>>) = RetainOrHold(q, <<e>>[1])
  BY <1>1, FoldedOne
<1> QED
  BY <1>1, <1>2

-----------------------------------------------------------------------------
(* The pump: sequence numbers and the records they name. *)

Frames == [seq : Nat, record : Record]

\* The sequence the head of the backlog has, or will be sent with.
Cursor(fl, sn) == IF fl # 0 THEN fl ELSE sn + 1

\* A copy in transit: a replay names the record that was applied under its
\* sequence, a fresh one the head of the backlog.
FrameOk(m, ap, cur, bl) ==
  /\ m \in Frames /\ m.seq \in 1 .. cur
  /\ m.seq <= Len(ap) => m.record = ap[m.seq]
  /\ m.seq > Len(ap) => bl # <<>> /\ m.record = Head(bl)

PumpOk(ap, fl, sn, bl, td) ==
  /\ ap \in Seq(Record) /\ bl \in Seq(Record) /\ td \in Seq(Frames)
  /\ fl \in Nat /\ sn \in Nat
  /\ fl # 0 => fl = sn /\ bl # <<>>
  /\ Len(ap) \in {Cursor(fl, sn) - 1, Cursor(fl, sn)}
  /\ Len(ap) = Cursor(fl, sn) => bl # <<>> /\ ap[Len(ap)] = Head(bl)
  /\ \A i \in 1 .. Len(td) : FrameOk(td[i], ap, Cursor(fl, sn), bl)

\* What the bridge still owns of the backlog: all of it, or all but the head
\* when the daemon has applied that.
Remaining(ap, fl, sn, bl) == IF Len(ap) = Cursor(fl, sn) THEN Tail(bl) ELSE bl

LEMMA FramesAppend ==
  ASSUME NEW ap, NEW cur, NEW bl, NEW td \in Seq(Frames), NEW m \in Frames,
         FrameOk(m, ap, cur, bl), \A i \in 1 .. Len(td) : FrameOk(td[i], ap, cur, bl)
  PROVE  /\ Append(td, m) \in Seq(Frames)
         /\ \A i \in 1 .. Len(Append(td, m)) : FrameOk(Append(td, m)[i], ap, cur, bl)
<1> PICK t2 : t2 = Append(td, m)
  OBVIOUS
<1>1. /\ t2 \in Seq(Frames) /\ Len(t2) = Len(td) + 1 /\ Len(td) \in Nat
      /\ \A i \in 1 .. Len(td) : t2[i] = td[i]
      /\ t2[Len(td) + 1] = m
  BY AppendProperties, LenProperties
<1>2. ASSUME NEW i \in 1 .. Len(t2) PROVE FrameOk(t2[i], ap, cur, bl)
  <2>1. i \in 1 .. Len(td) \/ i = Len(td) + 1
    BY <1>1
  <2> QED
    BY <1>1, <2>1
<1> QED
  BY <1>1, <1>2

\* Records that join the backlog disturb no sequence number.
LEMMA ExtendOk ==
  ASSUME NEW ap, NEW fl, NEW sn, NEW bl, NEW td, PumpOk(ap, fl, sn, bl, td),
         NEW x \in Seq(Record)
  PROVE  /\ PumpOk(ap, fl, sn, Cat(bl, x), td)
         /\ Remaining(ap, fl, sn, Cat(bl, x)) = Cat(Remaining(ap, fl, sn, bl), x)
<1> PICK b : b = Cat(bl, x)
  OBVIOUS
<1>1. bl \in Seq(Record) /\ b \in Seq(Record)
  BY CatType DEF PumpOk
<1>2. bl # <<>> => b # <<>> /\ Head(b) = Head(bl) /\ Tail(b) = Cat(Tail(bl), x)
  BY <1>1, CatHead
<1>3. \A i \in 1 .. Len(td) : FrameOk(td[i], ap, Cursor(fl, sn), b)
  BY <1>2 DEF PumpOk, FrameOk
<1>4. PumpOk(ap, fl, sn, b, td)
  BY <1>1, <1>2, <1>3 DEF PumpOk
<1>5. Remaining(ap, fl, sn, b) = Cat(Remaining(ap, fl, sn, bl), x)
  BY <1>2 DEF Remaining, PumpOk
<1> QED
  BY <1>4, <1>5

\* An acknowledged head leaves the backlog.
LEMMA AckOk ==
  ASSUME NEW ap, NEW fl, NEW sn, NEW bl, NEW td, PumpOk(ap, fl, sn, bl, td),
         fl # 0, NEW a \in Nat, a >= fl, a <= Len(ap)
  PROVE  /\ PumpOk(ap, 0, sn, Tail(bl), td)
         /\ Remaining(ap, 0, sn, Tail(bl)) = Remaining(ap, fl, sn, bl)
<1> PICK n : n = Len(ap)
  OBVIOUS
<1>1. n \in Nat /\ fl \in Nat /\ sn \in Nat /\ fl = sn /\ n \in {fl - 1, fl} /\ bl # <<>>
      /\ bl \in Seq(Record)
  BY LenProperties DEF PumpOk, Cursor
<1>2. n = fl /\ n # sn + 1
  BY <1>1
<1>3. Cursor(0, sn) = sn + 1 /\ Cursor(fl, sn) = fl
  BY DEF Cursor
<1>4. Tail(bl) \in Seq(Record)
  BY <1>1, HeadTail
<1>5. ASSUME NEW i \in 1 .. Len(td) PROVE FrameOk(td[i], ap, sn + 1, Tail(bl))
  <2>1. FrameOk(td[i], ap, fl, bl)
    BY <1>3 DEF PumpOk
  <2>2. td[i].seq \in 1 .. n /\ td[i].seq \in 1 .. sn + 1 /\ ~(td[i].seq > n)
    BY <1>1, <1>2, <2>1 DEF FrameOk
  <2> QED
    BY <2>1, <2>2 DEF FrameOk
<1>6. PumpOk(ap, 0, sn, Tail(bl), td)
  BY <1>1, <1>2, <1>3, <1>4, <1>5 DEF PumpOk
<1> QED
  BY <1>2, <1>3, <1>6 DEF Remaining

\* The head is sent with a fresh sequence, which counts only if the send did.
LEMMA SendOk ==
  ASSUME NEW ap, NEW sn, NEW bl, NEW td, PumpOk(ap, 0, sn, bl, td), bl # <<>>
  PROVE  LET td2 == Append(td, Frame(sn + 1, bl))
         IN  /\ PumpOk(ap, 0, sn, bl, td2)
             /\ PumpOk(ap, sn + 1, sn + 1, bl, td2)
             /\ Remaining(ap, sn + 1, sn + 1, bl) = Remaining(ap, 0, sn, bl)
<1> PICK m : m = Frame(sn + 1, bl)
  OBVIOUS
<1> PICK td2 : td2 = Append(td, m)
  OBVIOUS
<1> PICK n : n = Len(ap)
  OBVIOUS
<1>1. /\ n \in Nat /\ sn \in Nat /\ bl \in Seq(Record) /\ td \in Seq(Frames)
      /\ Cursor(0, sn) = sn + 1 /\ n \in {sn, sn + 1}
      /\ n = sn + 1 => ap[n] = Head(bl)
  BY LenProperties DEF PumpOk, Cursor
<1>2. Head(bl) \in Record
  BY <1>1, HeadTail
<1>3. m \in Frames /\ m.seq = sn + 1 /\ m.record = Head(bl)
  BY <1>1, <1>2 DEF Frames, Frame
<1>4. FrameOk(m, ap, sn + 1, bl)
  <2>1. m.seq <= n => m.record = ap[m.seq]
    BY <1>1, <1>3
  <2>2. m.seq \in 1 .. sn + 1
    BY <1>1, <1>3
  <2> QED
    BY <1>3, <2>1, <2>2 DEF FrameOk
<1>5. td2 \in Seq(Frames) /\ \A i \in 1 .. Len(td2) : FrameOk(td2[i], ap, sn + 1, bl)
  <2>1. \A i \in 1 .. Len(td) : FrameOk(td[i], ap, sn + 1, bl)
    BY <1>1 DEF PumpOk
  <2> QED
    BY <1>1, <1>3, <1>4, <2>1, FramesAppend
<1>6. PumpOk(ap, 0, sn, bl, td2)
  BY <1>1, <1>5 DEF PumpOk
<1>7. Cursor(sn + 1, sn + 1) = sn + 1 /\ sn + 1 \in Nat /\ sn + 1 # 0
  BY <1>1 DEF Cursor
<1>8. PumpOk(ap, sn + 1, sn + 1, bl, td2)
  BY <1>1, <1>5, <1>7 DEF PumpOk
<1> QED
  BY <1>1, <1>6, <1>7, <1>8 DEF Remaining

\* Another copy of the frame that waits for its acknowledgement.
LEMMA ResendOk ==
  ASSUME NEW ap, NEW fl, NEW sn, NEW bl, NEW td, PumpOk(ap, fl, sn, bl, td), fl # 0
  PROVE  PumpOk(ap, fl, sn, bl, Append(td, Frame(fl, bl)))
<1> PICK m : m = Frame(fl, bl)
  OBVIOUS
<1> PICK td2 : td2 = Append(td, m)
  OBVIOUS
<1> PICK n : n = Len(ap)
  OBVIOUS
<1>1. /\ n \in Nat /\ fl \in Nat /\ bl \in Seq(Record) /\ bl # <<>> /\ td \in Seq(Frames)
      /\ Cursor(fl, sn) = fl /\ n \in {fl - 1, fl}
      /\ n = fl => ap[n] = Head(bl)
  BY LenProperties DEF PumpOk, Cursor
<1>2. Head(bl) \in Record
  BY <1>1, HeadTail
<1>3. m \in Frames /\ m.seq = fl /\ m.record = Head(bl)
  BY <1>1, <1>2 DEF Frames, Frame
<1>4. FrameOk(m, ap, fl, bl)
  <2>1. m.seq <= n => m.record = ap[m.seq]
    BY <1>1, <1>3
  <2>2. m.seq \in 1 .. fl
    BY <1>1, <1>3
  <2> QED
    BY <1>1, <1>3, <2>1, <2>2 DEF FrameOk
<1>5. td2 \in Seq(Frames) /\ \A i \in 1 .. Len(td2) : FrameOk(td2[i], ap, fl, bl)
  <2>1. \A i \in 1 .. Len(td) : FrameOk(td[i], ap, fl, bl)
    BY <1>1 DEF PumpOk
  <2> QED
    BY <1>1, <1>3, <1>4, <2>1, FramesAppend
<1> QED
  BY <1>1, <1>5 DEF PumpOk

\* The daemon takes a copy off the wire.
LEMMA TakeFrameOk ==
  ASSUME NEW ap, NEW fl, NEW sn, NEW bl, NEW td, PumpOk(ap, fl, sn, bl, td), td # <<>>
  PROVE  PumpOk(ap, fl, sn, bl, Tail(td)) /\ FrameOk(Head(td), ap, Cursor(fl, sn), bl)
<1>1. td \in Seq(Frames)
  BY DEF PumpOk
<1> PICK r : r = Tail(td)
  OBVIOUS
<1>2. /\ r \in Seq(Frames) /\ Len(r) = Len(td) - 1 /\ Len(td) \in Nat \ {0} /\ td[1] = Head(td)
      /\ \A k \in 1 .. Len(td) - 1 : r[k] = td[k + 1]
  BY <1>1, HeadTail
<1>3. \A i \in 1 .. Len(td) : FrameOk(td[i], ap, Cursor(fl, sn), bl)
  BY DEF PumpOk
<1>4. FrameOk(td[1], ap, Cursor(fl, sn), bl)
  BY <1>2, <1>3
<1>5. ASSUME NEW k \in 1 .. Len(r) PROVE FrameOk(r[k], ap, Cursor(fl, sn), bl)
  <2>1. k \in 1 .. Len(td) - 1 /\ k + 1 \in 1 .. Len(td)
    BY <1>2
  <2> QED
    BY <1>2, <1>3, <2>1
<1> QED
  BY <1>2, <1>4, <1>5 DEF PumpOk

\* ... and applies a fresh one: the head of what the bridge owns.
LEMMA ApplyOk ==
  ASSUME NEW ap, NEW fl, NEW sn, NEW bl, NEW td, PumpOk(ap, fl, sn, bl, td),
         NEW m, FrameOk(m, ap, Cursor(fl, sn), bl), m.seq > Len(ap)
  PROVE  /\ PumpOk(Append(ap, m.record), fl, sn, bl, td)
         /\ m.seq = Len(ap) + 1 /\ Len(Append(ap, m.record)) = Len(ap) + 1
         /\ bl # <<>> /\ m.record = Head(bl) /\ m.record \in Record
         /\ Remaining(ap, fl, sn, bl) = bl
         /\ Remaining(Append(ap, m.record), fl, sn, bl) = Tail(bl)
<1> PICK n : n = Len(ap)
  OBVIOUS
<1> PICK c : c = Cursor(fl, sn)
  OBVIOUS
<1> PICK rec : rec = m.record
  OBVIOUS
<1> PICK ap2 : ap2 = Append(ap, rec)
  OBVIOUS
<1>1. /\ n \in Nat /\ c \in Nat /\ n \in {c - 1, c} /\ ap \in Seq(Record) /\ bl \in Seq(Record)
      /\ bl # <<>> /\ rec = Head(bl) /\ m.seq \in 1 .. c
  BY LenProperties DEF PumpOk, Cursor, FrameOk
<1>2. m.seq = n + 1 /\ c = n + 1
  BY <1>1
<1>3. rec \in Record
  BY <1>1, HeadTail
<1>4. /\ ap2 \in Seq(Record) /\ Len(ap2) = n + 1 /\ ap2[n + 1] = rec
      /\ \A i \in 1 .. n : ap2[i] = ap[i]
  BY <1>1, <1>3, AppendProperties
<1>5. ASSUME NEW i \in 1 .. Len(td) PROVE FrameOk(td[i], ap2, c, bl)
  <2> PICK f : f = td[i]
    OBVIOUS
  <2>1. FrameOk(f, ap, c, bl)
    BY DEF PumpOk
  <2>2. f \in Frames /\ f.seq \in 1 .. n + 1
    BY <1>2, <2>1 DEF FrameOk
  <2>3. f.record = ap2[f.seq]
    <3>1. CASE f.seq \in 1 .. n
      BY <1>4, <2>1, <3>1 DEF FrameOk
    <3>2. CASE f.seq = n + 1
      BY <1>1, <1>4, <2>1, <3>2 DEF FrameOk
    <3> QED
      BY <1>1, <2>2, <3>1, <3>2
  <2>4. ~(f.seq > Len(ap2)) /\ f.seq \in 1 .. c
    BY <1>1, <1>2, <1>4, <2>2
  <2>5. FrameOk(f, ap2, c, bl)
    BY <2>2, <2>3, <2>4 DEF FrameOk
  <2> QED
    BY <2>5
<1>6. PumpOk(ap2, fl, sn, bl, td)
  BY <1>1, <1>2, <1>4, <1>5 DEF PumpOk
<1>7. Remaining(ap, fl, sn, bl) = bl /\ Remaining(ap2, fl, sn, bl) = Tail(bl)
  BY <1>1, <1>2, <1>4 DEF Remaining
<1> QED
  BY <1>1, <1>2, <1>3, <1>4, <1>6, <1>7

\* SendHead and Flush on a backlog b that has already been given its new records.
PumpNow == PumpOk(applied, inflight, seqNext, backlog, toDaemon)
RemainingNow == Remaining(applied, inflight, seqNext, backlog)

LEMMA SendHeadOk ==
  ASSUME NEW b, PumpOk(applied, 0, seqNext, b, toDaemon), SendHead(b), applied' = applied
  PROVE  PumpNow' /\ RemainingNow' = Remaining(applied, 0, seqNext, b)
<1> PICK n : n = seqNext
  OBVIOUS
<1>1. backlog' = b
  BY DEF SendHead
<1>2. CASE inflight' = 0 /\ UNCHANGED <<seqNext, toDaemon>>
  BY <1>1, <1>2 DEF PumpNow, RemainingNow
<1>3. CASE /\ b # <<>> /\ toDaemon' = Append(toDaemon, Frame(n + 1, b))
           /\ inflight' = 0 /\ UNCHANGED seqNext
  <2>1. PumpOk(applied, 0, n, b, toDaemon')
    BY <1>3, SendOk
  <2> QED
    BY <1>1, <1>3, <2>1 DEF PumpNow, RemainingNow
<1>4. CASE /\ b # <<>> /\ toDaemon' = Append(toDaemon, Frame(n + 1, b))
           /\ inflight' = n + 1 /\ seqNext' = n + 1
  <2>1. /\ PumpOk(applied, n + 1, n + 1, b, toDaemon')
        /\ Remaining(applied, n + 1, n + 1, b) = Remaining(applied, 0, n, b)
    BY <1>4, SendOk
  <2> QED
    BY <1>1, <1>4, <2>1 DEF PumpNow, RemainingNow
<1> QED
  BY <1>2, <1>3, <1>4 DEF SendHead

LEMMA FlushOk ==
  ASSUME NEW b, PumpOk(applied, inflight, seqNext, b, toDaemon), Flush(b),
         applied' = applied, acked \in Nat, acked <= Len(applied)
  PROVE  PumpNow' /\ RemainingNow' = Remaining(applied, inflight, seqNext, b)
<1>1. CASE inflight = 0
  <2>1. SendHead(b) /\ PumpOk(applied, 0, seqNext, b, toDaemon)
    BY <1>1 DEF Flush
  <2> QED
    BY <1>1, <2>1, SendHeadOk
<1>2. CASE inflight # 0 /\ acked >= inflight
  <2>1. SendHead(Tail(b))
    BY <1>2 DEF Flush
  <2>2. /\ PumpOk(applied, 0, seqNext, Tail(b), toDaemon)
        /\ Remaining(applied, 0, seqNext, Tail(b)) = Remaining(applied, inflight, seqNext, b)
    BY <1>2, AckOk
  <2> QED
    BY <2>1, <2>2, SendHeadOk
<1>3. CASE inflight # 0 /\ ~(acked >= inflight)
  <2>1. /\ backlog' = b /\ UNCHANGED <<seqNext, inflight>>
        /\ toDaemon' = toDaemon \/ toDaemon' = Append(toDaemon, Frame(inflight, b))
    BY <1>3 DEF Flush, Resend
  <2>2. PumpOk(applied, inflight, seqNext, b, toDaemon')
    BY <1>3, <2>1, ResendOk
  <2> QED
    BY <2>1, <2>2 DEF PumpNow, RemainingNow
<1> QED
  BY <1>1, <1>2, <1>3

-----------------------------------------------------------------------------
(* The inductive invariant of the pump, and what each step does to the queue. *)

Answers == [type : {"ack", "nack", "release"}, seq : Nat]
AcksOk(tc, n) == \A i \in 1 .. Len(tc) : tc[i].type = "ack" => tc[i].seq <= n

InputsOk ==
  /\ ordered \in Seq(Nat) /\ stash \in Seq(Nat) /\ overflow \in Seq(Nat)
  /\ events \in Seq([kind : {"hit", "miss", "paste", "key", "quit"}, raw : BOOLEAN])

Pump ==
  /\ PumpNow
  /\ retry \in Seq(Record)
  /\ InputsOk
  /\ appliedSeq = Len(applied)
  /\ acked \in Nat /\ acked <= Len(applied)
  /\ toClient \in Seq(Answers) /\ AcksOk(toClient, Len(applied))

LEMMA AppliedHead ==
  ASSUME NEW ap, NEW fl, NEW sn, NEW bl, NEW td, PumpOk(ap, fl, sn, bl, td)
  PROVE  /\ (bl # <<>> /\ Len(ap) >= Cursor(fl, sn)) <=> Len(ap) = Cursor(fl, sn)
         /\ Len(ap) = Cursor(fl, sn) => bl # <<>>
         /\ bl \in Seq(Record) /\ Remaining(ap, fl, sn, bl) \in Seq(Record)
<1>1. /\ Len(ap) \in Nat /\ Cursor(fl, sn) \in Nat /\ bl \in Seq(Record)
      /\ Len(ap) \in {Cursor(fl, sn) - 1, Cursor(fl, sn)}
      /\ Len(ap) = Cursor(fl, sn) => bl # <<>>
  BY LenProperties DEF PumpOk, Cursor
<1> PICK n, c : n = Len(ap) /\ c = Cursor(fl, sn)
  OBVIOUS
<1>2. (bl # <<>> /\ n >= c) <=> n = c
  BY <1>1
<1>3. Remaining(ap, fl, sn, bl) \in Seq(Record)
  BY <1>1, HeadTail DEF Remaining
<1> QED
  BY <1>1, <1>2, <1>3

LEMMA OwnedIs ==
  /\ Pump => Owned = Cat(RemainingNow, retry) /\ Owned \in Seq(Record)
                /\ RemainingNow \in Seq(Record)
  /\ Pump' => Owned' = Cat(RemainingNow', retry') /\ Owned' \in Seq(Record)
                /\ RemainingNow' \in Seq(Record)
<1>1. ASSUME Pump
      PROVE  Owned = Cat(RemainingNow, retry) /\ Owned \in Seq(Record) /\ RemainingNow \in Seq(Record)
  <2>a. /\ PumpOk(applied, inflight, seqNext, backlog, toDaemon)
        /\ appliedSeq = Len(applied)
    BY <1>1 DEF Pump, PumpNow
  <2>b. HeadApplied <=> backlog # <<>> /\ Len(applied) >= Cursor(inflight, seqNext)
    BY <2>a DEF HeadApplied, Cursor
  <2>1. /\ HeadApplied <=> Len(applied) = Cursor(inflight, seqNext)
        /\ backlog \in Seq(Record)
        /\ Remaining(applied, inflight, seqNext, backlog) \in Seq(Record)
    BY <2>a, <2>b, AppliedHead
  <2>2. (IF HeadApplied THEN Tail(backlog) ELSE backlog) = RemainingNow
    BY <2>1, Zenon DEF RemainingNow, Remaining
  <2>3. RemainingNow \in Seq(Record)
    BY <2>1 DEF RemainingNow
  <2>4. Owned = Cat(RemainingNow, retry)
    BY <2>2, Zenon DEF Owned, Cat
  <2> QED
    BY <1>1, <2>3, <2>4, CatType DEF Pump
<1>2. ASSUME Pump'
      PROVE  /\ Owned' = Cat(RemainingNow', retry') /\ Owned' \in Seq(Record)
             /\ RemainingNow' \in Seq(Record)
  <2>a. /\ PumpOk(applied', inflight', seqNext', backlog', toDaemon')
        /\ appliedSeq' = Len(applied')
    BY <1>2 DEF Pump, PumpNow
  <2>b. HeadApplied' <=> backlog' # <<>> /\ Len(applied') >= Cursor(inflight', seqNext')
    BY <2>a DEF HeadApplied, Cursor
  <2>1. /\ HeadApplied' <=> Len(applied') = Cursor(inflight', seqNext')
        /\ backlog' \in Seq(Record)
        /\ Remaining(applied', inflight', seqNext', backlog') \in Seq(Record)
    BY <2>a, <2>b, AppliedHead
  <2>2. (IF HeadApplied' THEN Tail(backlog') ELSE backlog') = RemainingNow'
    BY <2>1, Zenon DEF RemainingNow, Remaining
  <2>3. RemainingNow' \in Seq(Record)
    BY <2>1 DEF RemainingNow
  <2>4. Owned' = Cat(RemainingNow', retry')
    BY <2>2, Zenon DEF Owned, Cat
  <2> QED
    BY <1>2, <2>3, <2>4, CatType DEF Pump
<1> QED
  BY <1>1, <1>2

\* The pump runs on the backlog with the records x added.
LEMMA FlushStep ==
  ASSUME Pump, InputsOk', NEW x \in Seq(Record), Flush(Cat(backlog, x)),
         retry' \in Seq(Record), UNCHANGED <<applied, appliedSeq, acked, toClient>>
  PROVE  Pump' /\ Owned' = Cat(Cat(RemainingNow, x), retry')
<1> PICK b : b = Cat(backlog, x)
  OBVIOUS
<1>1. /\ PumpOk(applied, inflight, seqNext, b, toDaemon)
      /\ Remaining(applied, inflight, seqNext, b) = Cat(RemainingNow, x)
  BY ExtendOk DEF Pump, PumpNow, RemainingNow
<1>2. PumpNow' /\ RemainingNow' = Remaining(applied, inflight, seqNext, b)
  BY <1>1, FlushOk DEF Pump
<1>3. Pump'
  BY <1>2 DEF Pump
<1> QED
  BY <1>1, <1>2, <1>3, OwnedIs

\* The pump does not run.
LEMMA QuietStep ==
  ASSUME Pump, InputsOk', retry' \in Seq(Record),
         UNCHANGED <<applied, appliedSeq, acked, toClient, backlog, pumpVars>>
  PROVE  Pump' /\ Owned' = Cat(RemainingNow, retry')
<1>1. PumpNow' /\ RemainingNow' = RemainingNow
  BY DEF Pump, PumpNow, RemainingNow, pumpVars
<1>2. Pump'
  BY <1>1 DEF Pump
<1> QED
  BY <1>1, <1>2, OwnedIs

LEMMA RetainMoves ==
  ASSUME Pump, InputsOk', NEW q, NEW x \in Seq(Record), NEW y \in Seq(Record),
         q.backlog = Cat(backlog, x), q.retry = Cat(retry, y), retry # <<>> => x = <<>>,
         retry' = q.retry,
         IF q.backlog # backlog THEN Flush(q.backlog) ELSE UNCHANGED <<backlog, pumpVars>>,
         UNCHANGED <<applied, appliedSeq, acked, toClient>>
  PROVE  Pump' /\ Owned' = Cat(Owned, Cat(x, y)) /\ Cat(x, y) \in Seq(Record)
<1>1. /\ retry \in Seq(Record) /\ RemainingNow \in Seq(Record) /\ backlog \in Seq(Record)
      /\ Owned = Cat(RemainingNow, retry)
  BY OwnedIs DEF Pump, PumpNow, PumpOk
<1>2. retry' \in Seq(Record) /\ Cat(x, y) \in Seq(Record) /\ retry' = Cat(retry, y)
  BY <1>1, CatType
<1>3. Pump' /\ Owned' = Cat(Cat(RemainingNow, x), retry')
  <2>1. CASE q.backlog # backlog
    BY <1>2, <2>1, FlushStep
  <2>2. CASE q.backlog = backlog
    <3>1. x = <<>>
      BY <1>1, <2>2, CatEmpty, ZenonT(40)
    <3>2. Cat(RemainingNow, x) = RemainingNow
      BY <1>1, <3>1, CatEmpty
    <3>3. Owned' = Cat(RemainingNow, retry') /\ Pump'
      BY <1>2, <2>2, QuietStep
    <3> QED
      BY <3>2, <3>3
  <2> QED
    BY <2>1, <2>2
<1>4. Cat(Cat(RemainingNow, x), retry') = Cat(Owned, Cat(x, y))
  <2>1. CASE x = <<>>
    <3>1. Cat(RemainingNow, x) = RemainingNow /\ Cat(x, y) = y
      BY <1>1, <2>1, CatEmpty
    <3>2. Cat(RemainingNow, Cat(retry, y)) = Cat(Cat(RemainingNow, retry), y)
      BY <1>1, CatAssoc
    <3> QED
      BY <1>1, <1>2, <3>1, <3>2
  <2>2. CASE retry = <<>>
    <3>1. Cat(retry, y) = y /\ Owned = RemainingNow
      BY <1>1, <2>2, CatEmpty
    <3>2. Cat(Cat(RemainingNow, x), y) = Cat(RemainingNow, Cat(x, y))
      BY <1>1, CatAssoc
    <3> QED
      BY <1>2, <3>1, <3>2
  <2> QED
    BY <2>1, <2>2
<1> QED
  BY <1>2, <1>3, <1>4

LEMMA RetainStep ==
  ASSUME Pump, InputsOk', NEW es \in Seq(Nat), Retain(es),
         UNCHANGED <<applied, appliedSeq, acked, toClient>>
  PROVE  Pump' /\ \E z \in Seq(Record) : /\ Owned' = Cat(Owned, z)
                                         /\ Distinct(es) => Gathered(z, es, Len(es))
<1>1. backlog \in Seq(Record) /\ retry \in Seq(Record)
  BY DEF Pump, PumpNow, PumpOk
<1>2. PICK q : /\ q = FoldLeft(RetainOrHold, [backlog |-> backlog, retry |-> retry], es)
               /\ retry' = q.retry
               /\ IF q.backlog # backlog THEN Flush(q.backlog)
                  ELSE UNCHANGED <<backlog, pumpVars>>
  BY Zenon DEF Retain
<1>3. PICK z : Extends(q, backlog, retry, z) /\ (Distinct(es) => Gathered(z, es, Len(es)))
  BY <1>1, <1>2, RetainedIs
<1>4. PICK x \in Seq(Record), y \in Seq(Record) :
         /\ q.backlog = Cat(backlog, x) /\ q.retry = Cat(retry, y)
         /\ (retry # <<>> => x = <<>>) /\ z = Cat(x, y)
  BY <1>3 DEF Extends
<1>5. Pump' /\ Owned' = Cat(Owned, Cat(x, y)) /\ Cat(x, y) \in Seq(Record)
  BY <1>2, <1>4, RetainMoves
<1> QED
  BY <1>3, <1>4, <1>5

\* One event: all its pieces join what is owned.
LEMMA RetainOneStep ==
  ASSUME Pump, InputsOk', NEW e \in Nat, Retain(<<e>>),
         UNCHANGED <<applied, appliedSeq, acked, toClient>>
  PROVE  Pump' /\ Owned' = Cat(Owned, Pieces(e)) /\ Pieces(e) \in Seq(Record)
<1>1. backlog \in Seq(Record) /\ retry \in Seq(Record)
  BY DEF Pump, PumpNow, PumpOk
<1> PICK o : o = [backlog |-> backlog, retry |-> retry]
  OBVIOUS
<1>2. PICK q : /\ q = FoldLeft(RetainOrHold, o, <<e>>)
               /\ retry' = q.retry
               /\ IF q.backlog # backlog THEN Flush(q.backlog)
                  ELSE UNCHANGED <<backlog, pumpVars>>
  BY Zenon DEF Retain
<1>3. q = RetainOrHold(o, e)
  BY <1>2, RetainedOne
<1>4. o \in Queues /\ o.backlog = backlog /\ o.retry = retry
  BY <1>1 DEF Queues
<1> PICK p : p = Pieces(e)
  OBVIOUS
<1>5. p \in Seq(Record) /\ <<>> \in Seq(Record)
  BY PiecesType, EmptySeq
<1>6. \/ retry = <<>> /\ q = [backlog |-> Cat(backlog, p), retry |-> <<>>]
      \/ q = [backlog |-> backlog, retry |-> Cat(retry, p)]
  BY <1>3, <1>4, RetainOrHoldIs
<1>7. CASE retry = <<>> /\ q = [backlog |-> Cat(backlog, p), retry |-> <<>>]
  <2>1. q.backlog = Cat(backlog, p) /\ q.retry = Cat(retry, <<>>) /\ (retry # <<>> => p = <<>>)
    BY <1>1, <1>7, CatEmpty
  <2>2. Pump' /\ Owned' = Cat(Owned, Cat(p, <<>>))
    BY <1>2, <1>5, <2>1, RetainMoves
  <2>3. Cat(p, <<>>) = p
    BY <1>5, CatEmpty
  <2> QED
    BY <1>5, <2>2, <2>3
<1>8. CASE q = [backlog |-> backlog, retry |-> Cat(retry, p)]
  <2>1. q.backlog = Cat(backlog, <<>>) /\ q.retry = Cat(retry, p)
    BY <1>1, <1>8, CatEmpty
  <2>2. Pump' /\ Owned' = Cat(Owned, Cat(<<>>, p))
    BY <1>2, <1>5, <2>1, RetainMoves
  <2>3. Cat(<<>>, p) = p
    BY <1>5, CatEmpty
  <2> QED
    BY <1>5, <2>2, <2>3
<1> QED
  BY <1>6, <1>7, <1>8

LEMMA Arrived ==
  ASSUME InputsOk, NEW kind \in {"hit", "miss", "paste", "key", "quit"}, NEW raw \in BOOLEAN,
         Arrive(kind, raw)
  PROVE  /\ events' = Append(events, [kind |-> kind, raw |-> raw])
         /\ events' \in Seq([kind : {"hit", "miss", "paste", "key", "quit"}, raw : BOOLEAN])
         /\ New \in Nat
<1> PICK ev : ev = [kind |-> kind, raw |-> raw]
  OBVIOUS
<1>1. ev \in [kind : {"hit", "miss", "paste", "key", "quit"}, raw : BOOLEAN]
  OBVIOUS
<1>2. events' = Append(events, ev)
  BY DEF Arrive
<1>3. Len(events) \in Nat
  BY LenProperties DEF InputsOk
<1> QED
  BY <1>1, <1>2, <1>3, AppendProperties DEF InputsOk, New

LEMMA Joins ==
  ASSUME NEW q \in Seq(Nat), NEW n \in Nat, NEW r, r = q \/ r = Append(q, n)
  PROVE  r \in Seq(Nat)
BY AppendProperties

LEMMA IngressInputs ==
  ASSUME InputsOk, Ingress
  PROVE  InputsOk'
<1>1. CASE PressChrome
  <2>1. /\ events' \in Seq([kind : {"hit", "miss", "paste", "key", "quit"}, raw : BOOLEAN])
        /\ New \in Nat
    BY <1>1, Arrived DEF PressChrome
  <2>2. /\ UNCHANGED overflow
        /\ ordered' = ordered \/ ordered' = Append(ordered, New)
        /\ stash' = stash \/ stash' = Append(stash, New)
    BY <1>1 DEF PressChrome, PushPress
  <2> QED
    BY <2>1, <2>2, Joins DEF InputsOk
<1>2. CASE PressContent
  <2>1. /\ events' \in Seq([kind : {"hit", "miss", "paste", "key", "quit"}, raw : BOOLEAN])
        /\ New \in Nat
    BY <1>2, Arrived DEF PressContent
  <2>2. /\ UNCHANGED overflow
        /\ ordered' = ordered \/ ordered' = Append(ordered, New)
        /\ stash' = stash \/ stash' = Append(stash, New)
    BY <1>2 DEF PressContent, PushPress
  <2> QED
    BY <2>1, <2>2, Joins DEF InputsOk
<1>3. CASE RawInput
  <2>1. /\ events' \in Seq([kind : {"hit", "miss", "paste", "key", "quit"}, raw : BOOLEAN])
        /\ New \in Nat
    BY <1>3, Arrived DEF RawInput
  <2>2. /\ UNCHANGED stash
        /\ ordered' = ordered \/ ordered' = Append(ordered, New)
        /\ overflow' = overflow \/ overflow' = Append(overflow, New)
    BY <1>3 DEF RawInput, PushRaw
  <2> QED
    BY <2>1, <2>2, Joins DEF InputsOk
<1>4. CASE FigureKey
  <2>1. /\ events' \in Seq([kind : {"hit", "miss", "paste", "key", "quit"}, raw : BOOLEAN])
        /\ New \in Nat
    BY <1>4, Arrived DEF FigureKey
  <2>2. /\ UNCHANGED stash
        /\ ordered' = ordered \/ ordered' = Append(ordered, New)
        /\ overflow' = overflow \/ overflow' = Append(overflow, New)
    BY <1>4 DEF FigureKey, PushRaw
  <2> QED
    BY <2>1, <2>2, Joins DEF InputsOk
<1> QED
  BY <1>1, <1>2, <1>3, <1>4 DEF Ingress

LEMMA HeadOrdered ==
  ASSUME InputsOk, ordered # <<>>
  PROVE  Head(ordered) \in Nat /\ Tail(ordered) \in Seq(Nat) /\ <<Head(ordered)>> \in Seq(Nat)
<1>1. Head(ordered) \in Nat /\ Tail(ordered) \in Seq(Nat)
  BY HeadTail DEF InputsOk
<1> QED
  BY <1>1, One

LEMMA DrainInputs ==
  ASSUME InputsOk, Drain
  PROVE  InputsOk'
<1>1. CASE RetryHead
  BY <1>1 DEF RetryHead, InputsOk, inputVars
<1>2. CASE ProcessPress
  <2>1. ordered' = Tail(ordered) /\ ordered # <<>> /\ UNCHANGED <<stash, overflow, events>>
    BY <1>2 DEF ProcessPress, inputVars
  <2> QED
    BY <2>1, HeadOrdered DEF InputsOk
<1>3. CASE ProcessRaw
  <2>1. ordered' = Tail(ordered) /\ ordered # <<>> /\ UNCHANGED <<stash, overflow, events>>
    BY <1>3 DEF ProcessRaw, inputVars
  <2> QED
    BY <2>1, HeadOrdered DEF InputsOk
<1>4. CASE FlushKeys
  <2>1. overflow' = <<>> /\ UNCHANGED <<stash, ordered, events>>
    BY <1>4 DEF FlushKeys, inputVars
  <2> QED
    BY <2>1, EmptySeq DEF InputsOk
<1>5. CASE FlushStash
  <2>1. /\ stash # <<>> /\ stash' = Tail(stash) /\ ordered' = Append(ordered, Head(stash))
        /\ UNCHANGED <<overflow, events>>
    BY <1>5 DEF FlushStash, inputVars
  <2>2. Head(stash) \in Nat /\ Tail(stash) \in Seq(Nat)
    BY <2>1, HeadTail DEF InputsOk
  <2> QED
    BY <2>1, <2>2, AppendProperties DEF InputsOk
<1> QED
  BY <1>1, <1>2, <1>3, <1>4, <1>5 DEF Drain

-----------------------------------------------------------------------------
(* Every step keeps the pump and is a step of the queue. *)

\* The queue takes the records z, or applies its head.
Takes(z) == applied' = applied /\ Owned' = Cat(Owned, z)
Applies == /\ Owned # <<>> /\ applied' = Append(applied, Head(Owned))
           /\ Owned' = Tail(Owned)
QueueStep == Applies \/ \E z \in Seq(Record) : Takes(z)

LEMMA NothingTaken ==
  ASSUME Pump, applied' = applied, Owned' = Owned
  PROVE  QueueStep
<1>1. <<>> \in Seq(Record) /\ Cat(Owned, <<>>) = Owned
  BY OwnedIs, EmptySeq, CatEmpty
<1> QED
  BY <1>1 DEF QueueStep, Takes

LEMMA IngressQueue ==
  ASSUME Pump, Ingress
  PROVE  Pump' /\ Owned' = Owned /\ applied' = applied
<1>1. InputsOk'
  BY IngressInputs DEF Pump
<1>2. UNCHANGED <<retry, applied, appliedSeq, acked, toClient, backlog, pumpVars>>
  BY DEF Ingress, PressChrome, PressContent, RawInput, FigureKey, Rest, pumpVars, clientVars,
         daemonVars
<1>3. retry' \in Seq(Record)
  BY <1>2 DEF Pump
<1>4. Pump' /\ Owned' = Cat(RemainingNow, retry')
  BY <1>1, <1>2, <1>3, QuietStep
<1> QED
  BY <1>2, <1>4, OwnedIs

LEMMA FlushQueue ==
  ASSUME Pump, OverlayFlush
  PROVE  Pump' /\ Owned' = Owned /\ applied' = applied
<1>1. /\ Flush(backlog) /\ UNCHANGED <<retry, applied, appliedSeq, acked, toClient>>
      /\ UNCHANGED <<ordered, stash, overflow, events>>
  BY DEF OverlayFlush, clientVars, daemonVars, inputVars
<1>2. InputsOk' /\ retry' \in Seq(Record)
  BY <1>1 DEF Pump, InputsOk
<1>3. backlog \in Seq(Record) /\ RemainingNow \in Seq(Record) /\ <<>> \in Seq(Record)
  BY OwnedIs, EmptySeq DEF Pump, PumpNow, PumpOk
<1>4. Cat(backlog, <<>>) = backlog /\ Cat(RemainingNow, <<>>) = RemainingNow
  BY <1>3, CatEmpty
<1>5. Pump' /\ Owned' = Cat(Cat(RemainingNow, <<>>), retry')
  BY <1>1, <1>2, <1>3, <1>4, FlushStep
<1> QED
  BY <1>1, <1>4, <1>5, OwnedIs

LEMMA RetryQueue ==
  ASSUME Pump, RetryHead
  PROVE  Pump' /\ Owned' = Owned /\ applied' = applied
<1>1. /\ retry # <<>> /\ retry' = Tail(retry) /\ Flush(Append(backlog, Head(retry)))
      /\ UNCHANGED <<applied, appliedSeq, acked, toClient>>
  BY DEF RetryHead, clientVars, daemonVars
<1>2. InputsOk'
  BY DrainInputs DEF Pump, Drain
<1>a. \A u, v \in Seq(Record) : Cat(Cat(RemainingNow, u), v) = Cat(RemainingNow, Cat(u, v))
  BY OwnedIs, CatAssoc
<1> PICK h, t : h = Head(retry) /\ t = Tail(retry)
  OBVIOUS
<1> PICK o : o = <<h>>
  OBVIOUS
<1>3. h \in Record /\ t \in Seq(Record) /\ retry = Cat(o, t)
  BY <1>1, HeadTail DEF Pump
<1>4. /\ RemainingNow \in Seq(Record) /\ backlog \in Seq(Record) /\ o \in Seq(Record)
      /\ Append(backlog, h) = Cat(backlog, o)
  BY <1>3, OwnedIs, CatAppend DEF Pump, PumpNow, PumpOk
<1>5. Pump' /\ Owned' = Cat(Cat(RemainingNow, o), t)
  BY <1>1, <1>2, <1>3, <1>4, FlushStep
<1>6. Cat(Cat(RemainingNow, o), t) = Cat(RemainingNow, Cat(o, t))
  BY <1>3, <1>4, <1>a, Zenon
<1> QED
  BY <1>1, <1>3, <1>5, <1>6, OwnedIs

\* The event at the head of the ordered queue is taken whole, or not at all.
TakesHead ==
  /\ applied' = applied
  /\ \/ Owned' = Owned
     \/ Owned' = Cat(Owned, Pieces(Head(ordered))) /\ Pieces(Head(ordered)) \in Seq(Record)

LEMMA StillQueue ==
  ASSUME Pump, InputsOk',
         UNCHANGED <<retry, applied, appliedSeq, acked, toClient, backlog, pumpVars>>
  PROVE  Pump' /\ Owned' = Owned /\ applied' = applied
<1>1. retry' \in Seq(Record)
  BY DEF Pump
<1> QED
  BY <1>1, QuietStep, OwnedIs

LEMMA PressQueue ==
  ASSUME Pump, ProcessPress
  PROVE  Pump' /\ TakesHead
<1>1. ordered # <<>> /\ UNCHANGED <<applied, appliedSeq, acked, toClient>>
  BY DEF ProcessPress, clientVars, daemonVars
<1>2. InputsOk' /\ Head(ordered) \in Nat
  BY <1>1, DrainInputs, HeadOrdered DEF Pump, Drain
<1>3. CASE Retain(<<Head(ordered)>>)
  BY <1>1, <1>2, <1>3, RetainOneStep DEF TakesHead
<1>4. CASE UNCHANGED <<retry, backlog, pumpVars>>
  BY <1>1, <1>2, <1>4, StillQueue DEF TakesHead
<1> QED
  BY <1>3, <1>4 DEF ProcessPress

LEMMA RawQueue ==
  ASSUME Pump, ProcessRaw
  PROVE  Pump' /\ TakesHead
<1>1. ordered # <<>> /\ UNCHANGED <<applied, appliedSeq, acked, toClient>>
  BY DEF ProcessRaw, clientVars, daemonVars
<1>2. InputsOk' /\ Head(ordered) \in Nat
  BY <1>1, DrainInputs, HeadOrdered DEF Pump, Drain
<1>3. CASE Retain(<<Head(ordered)>>)
  BY <1>1, <1>2, <1>3, RetainOneStep DEF TakesHead
<1>4. CASE UNCHANGED <<retry, backlog, pumpVars>>
  BY <1>1, <1>2, <1>4, StillQueue DEF TakesHead
<1> QED
  BY <1>3, <1>4 DEF ProcessRaw, ProcessKeyChunk

\* A chunk of raw bytes is taken by the chrome or handed to the pane.
LEMMA RawMove ==
  ASSUME Pump, ProcessRaw
  PROVE  \/ /\ pane' = pane /\ Takes(Pieces(Head(ordered)))
            /\ Pieces(Head(ordered)) \in Seq(Record)
         \/ pane' = Cat(pane, <<Head(ordered)>>) /\ applied' = applied /\ Owned' = Owned
<1>1. ordered # <<>> /\ UNCHANGED <<applied, appliedSeq, acked, toClient>>
  BY DEF ProcessRaw, clientVars, daemonVars
<1>2. InputsOk' /\ Head(ordered) \in Nat
  BY <1>1, DrainInputs, HeadOrdered DEF Pump, Drain
<1>3. CASE Retain(<<Head(ordered)>>) /\ pane' = pane
  BY <1>1, <1>2, <1>3, RetainOneStep DEF Takes
<1>4. CASE /\ UNCHANGED <<retry, backlog, pumpVars>>
           /\ pane' = Cat(pane, <<Head(ordered)>>)
  BY <1>1, <1>2, <1>4, StillQueue
<1>5. \/ Retain(<<Head(ordered)>>) /\ pane' = pane
      \/ /\ UNCHANGED <<retry, backlog, pumpVars>>
         /\ pane' = Cat(pane, <<Head(ordered)>>)
  BY Zenon DEF ProcessRaw, ProcessKeyChunk, Cat
<1> QED
  BY <1>3, <1>4, <1>5

LEMMA KeysMove ==
  ASSUME Pump, FlushKeys
  PROVE  /\ Pump'
         /\ \/ /\ pane' = pane
               /\ \E z \in Seq(Record) :
                    Takes(z) /\ (Distinct(overflow) => Gathered(z, overflow, Len(overflow)))
            \/ pane' = Cat(pane, overflow) /\ applied' = applied /\ Owned' = Owned
<1>1. UNCHANGED <<applied, appliedSeq, acked, toClient>>
  BY DEF FlushKeys, clientVars, daemonVars
<1>2. InputsOk' /\ overflow \in Seq(Nat)
  BY DrainInputs DEF Pump, Drain, InputsOk
<1>3. CASE Retain(overflow) /\ pane' = pane
  <2>1. Pump' /\ \E z \in Seq(Record) :
                    /\ Owned' = Cat(Owned, z)
                    /\ Distinct(overflow) => Gathered(z, overflow, Len(overflow))
    BY <1>1, <1>2, <1>3, RetainStep
  <2> QED
    BY <1>1, <1>3, <2>1 DEF Takes
<1>4. CASE UNCHANGED <<retry, backlog, pumpVars>> /\ pane' = Cat(pane, overflow)
  BY <1>1, <1>2, <1>4, StillQueue
<1>5. \/ Retain(overflow) /\ pane' = pane
      \/ UNCHANGED <<retry, backlog, pumpVars>> /\ pane' = Cat(pane, overflow)
  BY Zenon DEF FlushKeys, ProcessKeyChunk, Cat
<1> QED
  BY <1>3, <1>4, <1>5

LEMMA KeysQueue ==
  ASSUME Pump, FlushKeys
  PROVE  Pump' /\ QueueStep
<1>1. CASE \E z \in Seq(Record) : Takes(z)
  BY <1>1, KeysMove DEF QueueStep
<1>2. CASE applied' = applied /\ Owned' = Owned
  BY <1>2, KeysMove, NothingTaken
<1> QED
  BY <1>1, <1>2, KeysMove

LEMMA StashQueue ==
  ASSUME Pump, FlushStash
  PROVE  Pump' /\ Owned' = Owned /\ applied' = applied
<1>1. UNCHANGED <<retry, applied, appliedSeq, acked, toClient, backlog, pumpVars>>
  BY DEF FlushStash, Rest, clientVars, daemonVars
<1>2. InputsOk'
  BY DrainInputs DEF Pump, Drain
<1> QED
  BY <1>1, <1>2, StillQueue

LEMMA ClientQueue ==
  ASSUME Pump, ClientReads
  PROVE  Pump' /\ Owned' = Owned /\ applied' = applied
<1>1. /\ toClient # <<>> /\ toClient' = Tail(toClient)
      /\ acked' = acked \/ (Head(toClient).type = "ack" /\ acked' = Head(toClient).seq)
      /\ UNCHANGED <<retry, applied, appliedSeq, backlog, pumpVars>>
      /\ UNCHANGED <<events, ordered, stash, overflow>>
  BY DEF ClientReads, clientVars, inputVars
<1>2. /\ Head(toClient) \in Answers /\ toClient' \in Seq(Answers)
      /\ Len(toClient) \in Nat \ {0} /\ Len(toClient') = Len(toClient) - 1
      /\ toClient[1] = Head(toClient)
      /\ \A k \in 1 .. Len(toClient) - 1 : toClient'[k] = toClient[k + 1]
  BY <1>1, HeadTail DEF Pump
<1>3. AcksOk(toClient', Len(applied))
  <2> SUFFICES ASSUME NEW k \in 1 .. Len(toClient'), toClient'[k].type = "ack"
               PROVE  toClient'[k].seq <= Len(applied)
    BY DEF AcksOk
  <2>1. k + 1 \in 1 .. Len(toClient) /\ toClient'[k] = toClient[k + 1]
    BY <1>2
  <2> QED
    BY <2>1 DEF Pump, AcksOk
<1>4. acked' \in Nat /\ acked' <= Len(applied)
  <2>1. CASE acked' = acked
    BY <2>1 DEF Pump
  <2>2. CASE Head(toClient).type = "ack" /\ acked' = Head(toClient).seq
    <3>1. Head(toClient).seq \in Nat
      BY <1>2 DEF Answers
    <3>2. 1 \in 1 .. Len(toClient)
      BY <1>2
    <3> QED
      BY <1>2, <2>2, <3>1, <3>2 DEF Pump, AcksOk
  <2> QED
    BY <1>1, <2>1, <2>2
<1>5. PumpNow' /\ RemainingNow' = RemainingNow
  BY <1>1 DEF Pump, PumpNow, RemainingNow, pumpVars
<1>6. Pump'
  BY <1>1, <1>2, <1>3, <1>4, <1>5 DEF Pump, InputsOk
<1> QED
  BY <1>1, <1>5, <1>6, OwnedIs

LEMMA AcksAppend ==
  ASSUME NEW tc \in Seq(Answers), NEW n \in Nat, AcksOk(tc, n), NEW m \in Answers,
         m.type = "ack" => m.seq <= n
  PROVE  Append(tc, m) \in Seq(Answers) /\ AcksOk(Append(tc, m), n)
<1> PICK t2 : t2 = Append(tc, m)
  OBVIOUS
<1>1. /\ t2 \in Seq(Answers) /\ Len(t2) = Len(tc) + 1 /\ Len(tc) \in Nat
      /\ \A i \in 1 .. Len(tc) : t2[i] = tc[i]
      /\ t2[Len(tc) + 1] = m
  BY AppendProperties, LenProperties
<1>2. ASSUME NEW i \in 1 .. Len(t2), t2[i].type = "ack" PROVE t2[i].seq <= n
  <2>1. CASE i \in 1 .. Len(tc)
    BY <1>1, <1>2, <2>1 DEF AcksOk
  <2>2. CASE i = Len(tc) + 1
    BY <1>1, <1>2, <2>2
  <2> QED
    BY <1>1, <2>1, <2>2
<1> QED
  BY <1>1, <1>2 DEF AcksOk

LEMMA AcksMore ==
  ASSUME NEW tc \in Seq(Answers), NEW n \in Nat, AcksOk(tc, n), NEW k \in Nat, n <= k
  PROVE  AcksOk(tc, k)
<1> SUFFICES ASSUME NEW i \in 1 .. Len(tc), tc[i].type = "ack" PROVE tc[i].seq <= k
  BY DEF AcksOk
<1>1. tc[i] \in Answers
  BY ElementOfSeq
<1>2. tc[i].seq \in Nat /\ tc[i].seq <= n
  BY <1>1 DEF AcksOk, Answers
<1> QED
  BY <1>2

LEMMA PairAppended ==
  ASSUME NEW S, NEW s \in Seq(S), NEW a \in S, NEW b \in S,
         NEW t \in Seq(S), Len(t) = 2, t[1] = a, t[2] = b
  PROVE  Cat(s, t) = Append(Append(s, a), b)
<1> PICK c : c = Cat(s, t)
  OBVIOUS
<1> PICK n : n = Len(s)
  OBVIOUS
<1> PICK p : p = Append(s, a)
  OBVIOUS
<1> PICK q : q = Append(p, b)
  OBVIOUS
<1>1. /\ p \in Seq(S) /\ Len(p) = n + 1 /\ n \in Nat
      /\ \A i \in 1 .. n : p[i] = s[i]
      /\ p[n + 1] = a
  BY AppendProperties, LenProperties
<1>2. /\ q \in Seq(S) /\ Len(q) = n + 2
      /\ \A i \in 1 .. n + 1 : q[i] = p[i]
      /\ q[n + 2] = b
  <2>1. /\ q \in Seq(S) /\ Len(q) = Len(p) + 1
        /\ \A i \in 1 .. Len(p) : q[i] = p[i]
        /\ q[Len(p) + 1] = b
    BY <1>1, AppendProperties
  <2>2. (n + 1) + 1 = n + 2
    BY <1>1
  <2> QED
    BY <1>1, <2>1, <2>2
<1>4. /\ c \in Seq(S) /\ Len(c) = n + 2
      /\ \A i \in 1 .. n + 2 : c[i] = IF i <= n THEN s[i] ELSE t[i - n]
  <2>1. /\ c \in Seq(S) /\ Len(c) = Len(s) + Len(t)
        /\ \A i \in 1 .. Len(s) + Len(t) : c[i] = IF i <= Len(s) THEN s[i] ELSE t[i - Len(s)]
    BY CatType
  <2> QED
    BY <2>1
<1>5. \A i \in 1 .. n + 2 : c[i] = q[i]
  <2> SUFFICES ASSUME NEW i \in 1 .. n + 2 PROVE c[i] = q[i]
    OBVIOUS
  <2>1. CASE i \in 1 .. n
    <3>1. i \in 1 .. n + 1 /\ i <= n
      BY <1>1, <2>1
    <3> QED
      BY <1>1, <1>2, <1>4, <2>1, <3>1
  <2>2. CASE i = n + 1
    <3>1. n + 1 \in 1 .. n + 1 /\ ~(n + 1 <= n) /\ (n + 1) - n = 1
      BY <1>1
    <3>2. c[i] = t[1]
      BY <1>4, <2>2, <3>1
    <3> QED
      BY <1>1, <1>2, <2>2, <3>1, <3>2
  <2>3. CASE i = n + 2
    <3>1. ~(n + 2 <= n) /\ (n + 2) - n = 2
      BY <1>1
    <3>2. c[i] = t[2]
      BY <1>4, <2>3, <3>1
    <3> QED
      BY <1>2, <2>3, <3>2
  <2>4. i \in 1 .. n \/ i = n + 1 \/ i = n + 2
    BY <1>1
  <2> QED
    BY <2>1, <2>2, <2>3, <2>4
<1>6. Len(c) = Len(q)
  BY <1>2, <1>4
<1>7. c = q
  BY <1>2, <1>4, <1>5, <1>6, SeqEqual
<1> QED
  BY <1>7

LEMMA TwoAppended ==
  ASSUME NEW S, NEW s \in Seq(S), NEW a \in S, NEW b \in S
  PROVE  s \o <<a, b>> = Append(Append(s, a), b)
<1>1. <<a, b>> \in Seq(S) /\ Len(<<a, b>>) = 2 /\ <<a, b>>[1] = a /\ <<a, b>>[2] = b
  OBVIOUS
<1>2. Cat(s, <<a, b>>) = Append(Append(s, a), b)
  BY <1>1, PairAppended
<1> QED
  BY <1>2, Zenon DEF Cat

\* What the daemon's handling of one copy does.
DaemonOutcome ==
  \/ Applies
  \/ applied' = applied /\ Owned' = Owned

LEMMA DaemonQueue ==
  ASSUME Pump, DaemonHandles
  PROVE  Pump' /\ DaemonOutcome
<1> PICK m : m = Head(toDaemon)
  OBVIOUS
<1> PICK n : n = Len(applied)
  OBVIOUS
<1>1. /\ toDaemon # <<>> /\ toDaemon' = Tail(toDaemon)
      /\ HandleDuplicate(m) \/ HandleFresh(m) \/ HandleRefused(m) \/ HandleOverflow(m)
      /\ UNCHANGED <<retry, backlog, seqNext, inflight, acked>>
      /\ UNCHANGED <<events, ordered, stash, overflow>>
  BY DEF DaemonHandles, clientVars, inputVars
<1>2. /\ PumpOk(applied, inflight, seqNext, backlog, toDaemon)
      /\ appliedSeq = n /\ n \in Nat /\ toClient \in Seq(Answers) /\ AcksOk(toClient, n)
      /\ acked \in Nat /\ acked <= n
  BY LenProperties DEF Pump, PumpNow, PumpOk
<1>3. /\ PumpOk(applied, inflight, seqNext, backlog, toDaemon')
      /\ FrameOk(m, applied, Cursor(inflight, seqNext), backlog)
  BY <1>1, <1>2, TakeFrameOk
<1>4. m.seq \in Nat
  BY <1>3 DEF FrameOk, Frames
<1> PICK s : s = m.seq
  OBVIOUS
<1>5. Ack(s) \in Answers /\ Nack(s) \in Answers /\ Release \in Answers
      /\ Ack(s).type = "ack" /\ Ack(s).seq = s /\ Nack(s).type # "ack" /\ Release.type # "ack"
  BY <1>4 DEF Ack, Nack, Release, Answers
<1>6. ASSUME UNCHANGED <<applied, appliedSeq>>,
             toClient' \in Seq(Answers), AcksOk(toClient', n)
      PROVE  Pump' /\ DaemonOutcome
  <2>1. PumpNow' /\ RemainingNow' = RemainingNow
    BY <1>1, <1>3, <1>6 DEF PumpNow, RemainingNow
  <2>2. Pump'
    BY <1>1, <1>2, <1>6, <2>1 DEF Pump, InputsOk
  <2> QED
    BY <1>1, <1>6, <2>1, <2>2, OwnedIs DEF DaemonOutcome
<1>7. CASE HandleDuplicate(m)
  <2>1. s <= n /\ toClient' = Append(toClient, Ack(s)) /\ UNCHANGED <<applied, appliedSeq>>
    BY <1>2, <1>7 DEF HandleDuplicate, Replayed
  <2>2. toClient' \in Seq(Answers) /\ AcksOk(toClient', n)
    BY <1>2, <1>5, <2>1, AcksAppend
  <2> QED
    BY <1>6, <2>1, <2>2
<1>8. CASE HandleRefused(m)
  <2>1. toClient' = Append(toClient, Nack(s)) /\ UNCHANGED <<applied, appliedSeq>>
    BY <1>8 DEF HandleRefused
  <2>2. toClient' \in Seq(Answers) /\ AcksOk(toClient', n)
    BY <1>2, <1>5, <2>1, AcksAppend
  <2> QED
    BY <1>6, <2>1, <2>2
<1>9. CASE HandleOverflow(m)
  <2>1. UNCHANGED <<toClient, applied, appliedSeq>>
    BY <1>9 DEF HandleOverflow
  <2> QED
    BY <1>2, <1>6, <2>1
<1>10. CASE HandleFresh(m)
  <2>1. /\ s > n /\ appliedSeq' = s /\ applied' = Append(applied, m.record)
        /\ \/ toClient' = toClient \o <<Ack(s), Release>>
           \/ toClient' = Append(toClient, Ack(s))
    <3>1. /\ ~(s <= n) /\ appliedSeq' = s /\ applied' = Append(applied, m.record)
      BY <1>2, <1>10 DEF HandleFresh, Replayed
    <3>2. \/ toClient' = toClient \o <<Ack(s), Release>>
          \/ toClient' = Append(toClient, Ack(s))
      BY <1>10, Zenon DEF HandleFresh
    <3>3. s > n
      BY <1>2, <1>4, <3>1
    <3> QED
      BY <3>1, <3>2, <3>3
  <2>2. /\ PumpOk(applied', inflight, seqNext, backlog, toDaemon')
        /\ s = n + 1 /\ Len(applied') = n + 1
        /\ backlog # <<>> /\ m.record = Head(backlog)
        /\ RemainingNow = backlog
        /\ Remaining(applied', inflight, seqNext, backlog) = Tail(backlog)
    BY <1>3, <2>1, ApplyOk DEF RemainingNow
  <2>3. PumpNow' /\ RemainingNow' = Tail(backlog)
    BY <1>1, <2>2 DEF PumpNow, RemainingNow
  <2>4. AcksOk(toClient, n + 1) /\ n + 1 \in Nat /\ n <= n + 1
    BY <1>2, AcksMore
  <2>5. Append(toClient, Ack(s)) \in Seq(Answers) /\ AcksOk(Append(toClient, Ack(s)), n + 1)
    BY <1>2, <1>5, <2>2, <2>4, AcksAppend
  <2>6. toClient' \in Seq(Answers) /\ AcksOk(toClient', n + 1)
    <3>1. CASE toClient' = toClient \o <<Ack(s), Release>>
      <4>1. toClient' = Append(Append(toClient, Ack(s)), Release)
        BY <1>2, <1>5, <3>1, TwoAppended
      <4> QED
        BY <1>5, <2>4, <2>5, <4>1, AcksAppend
    <3> QED
      BY <2>1, <2>5, <3>1
  <2>7. Pump'
    BY <1>1, <1>2, <2>1, <2>2, <2>3, <2>4, <2>6 DEF Pump, InputsOk
  <2>8. Owned = Cat(backlog, retry) /\ Owned' = Cat(Tail(backlog), retry)
    BY <1>1, <2>2, <2>3, <2>7, OwnedIs
  <2>9. Owned # <<>> /\ Head(Owned) = Head(backlog) /\ Tail(Owned) = Cat(Tail(backlog), retry)
    <3>1. backlog \in Seq(Record) /\ retry \in Seq(Record)
      BY DEF Pump, PumpNow, PumpOk
    <3> QED
      BY <2>2, <2>8, <3>1, CatHead
  <2> QED
    BY <2>1, <2>2, <2>7, <2>8, <2>9 DEF DaemonOutcome, Applies
<1> QED
  BY <1>1, <1>7, <1>8, <1>9, <1>10

LEMMA PrefixOfCat ==
  ASSUME NEW S, NEW s \in Seq(S), NEW z \in Seq(S), z # <<>>
  PROVE  IsStrictPrefix(s, Cat(s, z))
<1> PICK c : c = Cat(s, z)
  OBVIOUS
<1> PICK n : n = Len(s)
  OBVIOUS
<1>1. /\ c \in Seq(S) /\ n \in Nat /\ Len(z) \in Nat /\ Len(c) = n + Len(z)
      /\ \A i \in 1 .. n + Len(z) : c[i] = IF i <= n THEN s[i] ELSE z[i - n]
  BY CatType
<1>2. n <= Len(c) /\ \A i \in 1 .. n : c[i] = s[i]
  BY <1>1
<1>3. c # s
  BY CatEmpty
<1> PICK a, b : a = SubSeq(s, 1, n) /\ b = SubSeq(c, 1, n)
  OBVIOUS
<1>4. /\ a \in Seq(S) /\ Len(a) = (IF 1 <= n THEN n - 1 + 1 ELSE 0)
      /\ \A i \in 1 .. n - 1 + 1 : a[i] = s[1 + i - 1]
  <2>1. \A i \in 1 .. n : s[i] \in S
    BY ElementOfSeq
  <2> QED
    BY <1>1, <2>1, SubSeqProperties
<1>5. /\ b \in Seq(S) /\ Len(b) = (IF 1 <= n THEN n - 1 + 1 ELSE 0)
      /\ \A i \in 1 .. n - 1 + 1 : b[i] = c[1 + i - 1]
  <2>1. \A i \in 1 .. n : c[i] \in S
    BY <1>1, ElementOfSeq
  <2> QED
    BY <1>1, <2>1, SubSeqProperties
<1>6. Len(a) = n /\ Len(b) = n
  BY <1>1, <1>4, <1>5
<1>7. ASSUME NEW i \in 1 .. n PROVE a[i] = b[i]
  <2>1. i \in 1 .. n - 1 + 1 /\ 1 + i - 1 = i
    BY <1>1
  <2> QED
    BY <1>2, <1>4, <1>5, <2>1
<1>8. a = b
  BY <1>4, <1>5, <1>6, <1>7, SeqEqual
<1> QED
  BY <1>2, <1>3, <1>8 DEF IsStrictPrefix, IsPrefix

-----------------------------------------------------------------------------
(* The theorems about the pump. *)

LEMMA InitPump == Init => Pump /\ Owned = <<>> /\ applied = <<>>
<1> SUFFICES ASSUME Init PROVE Pump /\ Owned = <<>> /\ applied = <<>>
  OBVIOUS
<1> PICK e : e = <<>>
  OBVIOUS
<1>1. \A S : e \in Seq(S) /\ Len(e) = 0
  BY EmptySeq
<1>2. /\ ordered = e /\ stash = e /\ overflow = e /\ events = e /\ retry = e /\ backlog = e
      /\ seqNext = 0 /\ inflight = 0 /\ toDaemon = e /\ acked = 0 /\ toClient = e
      /\ appliedSeq = 0 /\ applied = e
  BY DEF Init
<1>3. Cursor(inflight, seqNext) = 1 /\ 1 .. 0 = {}
  BY <1>2 DEF Cursor
<1>4. PumpOk(applied, inflight, seqNext, backlog, toDaemon)
  BY <1>1, <1>2, <1>3 DEF PumpOk
<1>5. Pump
  BY <1>1, <1>2, <1>3, <1>4 DEF Pump, PumpNow, InputsOk, AcksOk
<1>6. RemainingNow = e /\ Cat(e, e) = e
  <2>1. RemainingNow = e
    BY <1>1, <1>2, <1>3 DEF RemainingNow, Remaining
  <2>2. e \in Seq(Nat)
    BY <1>1
  <2>3. Cat(e, <<>>) = e
    BY <2>2, CatEmpty
  <2> QED
    BY <2>1, <2>3
<1>7. Owned = e
  BY <1>2, <1>5, <1>6, OwnedIs
<1> QED
  BY <1>2, <1>5, <1>7

LEMMA StepPump ==
  ASSUME Pump, [Next]_vars
  PROVE  Pump' /\ QueueStep
<1>1. CASE Ingress
  BY <1>1, IngressQueue, NothingTaken
<1>2. CASE RetryHead
  BY <1>2, RetryQueue, NothingTaken
<1>3. ASSUME Pump', TakesHead PROVE Pump' /\ QueueStep
  BY <1>3, NothingTaken DEF TakesHead, QueueStep, Takes
<1>4. CASE ProcessPress
  BY <1>3, <1>4, PressQueue
<1>5. CASE ProcessRaw
  BY <1>3, <1>5, RawQueue
<1>6. CASE FlushKeys
  BY <1>6, KeysQueue
<1>7. CASE FlushStash
  BY <1>7, StashQueue, NothingTaken
<1>8. CASE OverlayFlush
  BY <1>8, FlushQueue, NothingTaken
<1>9. CASE ClientReads
  BY <1>9, ClientQueue, NothingTaken
<1>10. CASE DaemonHandles
  BY <1>10, DaemonQueue, NothingTaken DEF DaemonOutcome, QueueStep
<1>11. CASE UNCHANGED vars
  <2>1. /\ InputsOk'
        /\ UNCHANGED <<retry, applied, appliedSeq, acked, toClient, backlog, pumpVars>>
    BY <1>11 DEF vars, Pump, InputsOk, inputVars, pumpVars, clientVars, daemonVars
  <2> QED
    BY <2>1, StillQueue, NothingTaken
<1> QED
  BY <1>1, <1>2, <1>4, <1>5, <1>6, <1>7, <1>8, <1>9, <1>10, <1>11 DEF Next, Drain

LEMMA PumpInvariant == Spec => []Pump
<1>1. Init => Pump
  BY InitPump
<1>2. Pump /\ [Next]_vars => Pump'
  BY StepPump
<1> QED
  BY <1>1, <1>2, PTL DEF Spec

(* A sequence number names one record for as long as a copy of it is in       *)
(* transit, whatever is resent, refused, answered late or sent although the   *)
(* send reported an error: the daemon never takes a new record for a replay   *)
(* nor applies one twice.                                                     *)
THEOREM SequencesNameRecords == Spec => []SequenceNamesOneEvent
<1>1. Pump => SequenceNamesOneEvent
  <2> SUFFICES ASSUME Pump, NEW i \in DOMAIN toDaemon
               PROVE  /\ appliedSeq = Len(applied)
                      /\ IF toDaemon[i].seq <= appliedSeq
                         THEN toDaemon[i].record = applied[toDaemon[i].seq]
                         ELSE /\ toDaemon[i].seq = appliedSeq + 1 /\ Owned # <<>>
                              /\ toDaemon[i].record = Head(Owned)
    BY DEF SequenceNamesOneEvent, Pump
  <2> PICK m : m = toDaemon[i]
    OBVIOUS
  <2> PICK n, c : n = Len(applied) /\ c = Cursor(inflight, seqNext)
    OBVIOUS
  <2>1. /\ n \in Nat /\ c \in Nat /\ n \in {c - 1, c} /\ appliedSeq = n
        /\ FrameOk(m, applied, c, backlog)
        /\ backlog \in Seq(Record) /\ retry \in Seq(Record)
    <3>1. DOMAIN toDaemon = 1 .. Len(toDaemon)
      BY LenProperties DEF Pump, PumpNow, PumpOk
    <3> QED
      BY <3>1, LenProperties DEF Pump, PumpNow, PumpOk, Cursor
  <2>2. m.seq \in 1 .. c
    BY <2>1 DEF FrameOk
  <2>3. CASE m.seq <= n
    BY <2>1, <2>3 DEF FrameOk
  <2>4. CASE ~(m.seq <= n)
    <3>1. m.seq = n + 1 /\ m.seq > n /\ n # c
      BY <2>1, <2>2, <2>4
    <3>2. backlog # <<>> /\ m.record = Head(backlog)
      BY <2>1, <3>1 DEF FrameOk
    <3>3. Owned = Cat(backlog, retry)
      BY <3>1, OwnedIs DEF RemainingNow, Remaining
    <3>4. Owned # <<>> /\ Head(Owned) = Head(backlog)
      BY <2>1, <3>2, <3>3, CatHead
    <3> QED
      BY <2>1, <2>4, <3>1, <3>2, <3>4
  <2> QED
    BY <2>3, <2>4
<1> QED
  BY <1>1, PumpInvariant, PTL

(* The bridge's queues, sequence numbers, resends and refusals and the        *)
(* daemon's watermark implement a queue that applies every record once, in    *)
(* the order it was taken.                                                    *)
THEOREM PumpIsAQueue == Spec => ImplementsQueue
<1>1. Init => Queue!Init
  BY InitPump DEF Queue!Init
<1>2. Pump /\ [Next]_vars => [Queue!Next]_<<Owned, applied>>
  <2> SUFFICES ASSUME Pump, [Next]_vars PROVE Queue!Next \/ UNCHANGED <<Owned, applied>>
    OBVIOUS
  <2>1. QueueStep
    BY StepPump
  <2>2. CASE Applies
    BY <2>2 DEF Applies, Queue!Next, Queue!Apply
  <2>3. ASSUME NEW z \in Seq(Record), Takes(z) PROVE Queue!Next \/ UNCHANGED <<Owned, applied>>
    <3>1. CASE z = <<>>
      <4>1. Cat(Owned, z) = Owned
        BY <3>1, OwnedIs, CatEmpty
      <4> QED
        BY <2>3, <4>1 DEF Takes
    <3>2. CASE z # <<>>
      <4>1. IsStrictPrefix(Owned, Cat(Owned, z))
        BY <3>2, OwnedIs, PrefixOfCat
      <4>2. Queue!IsStrictPrefix(Owned, Cat(Owned, z))
        BY <4>1, Zenon DEF IsStrictPrefix, IsPrefix, Queue!IsStrictPrefix, Queue!IsPrefix
      <4> QED
        BY <2>3, <4>2 DEF Takes, Queue!Next, Queue!Take
    <3> QED
      BY <3>1, <3>2
  <2> QED
    BY <2>1, <2>2, <2>3 DEF QueueStep
<1> QED
  BY <1>1, <1>2, PumpInvariant, PTL DEF Spec, ImplementsQueue, Queue!Spec

-----------------------------------------------------------------------------
(* The order in which the chrome is given its input. *)

\* tk: the records taken, applied or not; od: the ordered queue; n: the last event.
Sorted(tk, od, n) ==
  /\ tk \in Seq(Record) /\ od \in Seq(1 .. n)
  /\ \A i, j \in 1 .. Len(od) : i < j => od[i] < od[j]
  /\ \A i, j \in 1 .. Len(tk) : i < j => Before(tk[i], tk[j])
  /\ \A i \in 1 .. Len(tk) : tk[i].event \in 1 .. n
  /\ \A i \in 1 .. Len(tk), j \in 1 .. Len(od) : tk[i].event < od[j]

\* An event arrives, and joins the ordered queue or not.
LEMMA SortedArrives ==
  ASSUME NEW tk, NEW od, NEW n \in Nat, Sorted(tk, od, n)
  PROVE  Sorted(tk, od, n + 1) /\ Sorted(tk, Append(od, n + 1), n + 1)
<1> PICK o2 : o2 = Append(od, n + 1)
  OBVIOUS
<1> PICK k : k = Len(od)
  OBVIOUS
<1>1. 1 .. n \subseteq 1 .. n + 1 /\ n + 1 \in 1 .. n + 1 /\ od \in Seq(1 .. n)
  BY DEF Sorted
<1>2. od \in Seq(1 .. n + 1)
  BY <1>1, SeqMonotonic
<1>3. /\ o2 \in Seq(1 .. n + 1) /\ Len(o2) = k + 1 /\ k \in Nat
      /\ \A i \in 1 .. k : o2[i] = od[i]
      /\ o2[k + 1] = n + 1
  BY <1>1, <1>2, AppendProperties, LenProperties
<1>4. Sorted(tk, od, n + 1)
  BY <1>1, <1>2 DEF Sorted
<1>5. \A i \in 1 .. k : od[i] \in 1 .. n
  BY <1>1, ElementOfSeq
<1>6. ASSUME NEW i \in 1 .. Len(o2), NEW j \in 1 .. Len(o2), i < j PROVE o2[i] < o2[j]
  <2>1. i \in 1 .. k /\ od[i] \in 1 .. n
    BY <1>3, <1>5, <1>6
  <2>2. CASE j \in 1 .. k
    BY <1>3, <1>6, <2>1, <2>2 DEF Sorted
  <2>3. CASE j = k + 1
    BY <1>3, <2>1, <2>3
  <2> QED
    BY <1>3, <2>2, <2>3
<1>7. ASSUME NEW i \in 1 .. Len(tk), NEW j \in 1 .. Len(o2) PROVE tk[i].event < o2[j]
  <2>1. tk[i].event \in 1 .. n
    BY DEF Sorted
  <2>2. CASE j \in 1 .. k
    BY <1>3, <2>2 DEF Sorted
  <2>3. CASE j = k + 1
    BY <1>3, <2>1, <2>3
  <2> QED
    BY <1>3, <2>2, <2>3
<1>8. Sorted(tk, o2, n + 1)
  BY <1>3, <1>4, <1>6, <1>7 DEF Sorted
<1> QED
  BY <1>4, <1>8

\* The head of the ordered queue leaves it.
LEMMA SortedDrops ==
  ASSUME NEW tk, NEW od, NEW n \in Nat, Sorted(tk, od, n), od # <<>>
  PROVE  /\ Sorted(tk, Tail(od), n)
         /\ Head(od) \in 1 .. n
         /\ \A i \in 1 .. Len(tk) : tk[i].event < Head(od)
         /\ \A j \in 1 .. Len(Tail(od)) : Head(od) < Tail(od)[j]
<1> PICK t, h : t = Tail(od) /\ h = Head(od)
  OBVIOUS
<1> PICK k : k = Len(od)
  OBVIOUS
<1>1. /\ h \in 1 .. n /\ t \in Seq(1 .. n) /\ k \in Nat \ {0} /\ Len(t) = k - 1
      /\ od[1] = h /\ \A i \in 1 .. k - 1 : t[i] = od[i + 1]
  BY HeadTail DEF Sorted
<1>2. \A j \in 1 .. Len(t) : j + 1 \in 1 .. k /\ t[j] = od[j + 1] /\ 1 < j + 1 /\ 1 \in 1 .. k
  BY <1>1
<1>3. \A i, j \in 1 .. Len(t) : i < j => t[i] < t[j]
  <2> SUFFICES ASSUME NEW i \in 1 .. Len(t), NEW j \in 1 .. Len(t), i < j PROVE t[i] < t[j]
    OBVIOUS
  <2>1. i + 1 \in 1 .. k /\ j + 1 \in 1 .. k /\ i + 1 < j + 1
    BY <1>1
  <2> QED
    BY <1>2, <2>1 DEF Sorted
<1>a. \A i \in 1 .. Len(tk), j \in 1 .. k : tk[i].event < od[j]
  BY DEF Sorted
<1>4. \A i \in 1 .. Len(tk), j \in 1 .. Len(t) : tk[i].event < t[j]
  BY <1>2, <1>a
<1>5. \A j \in 1 .. Len(t) : h < t[j]
  BY <1>1, <1>2 DEF Sorted
<1>6. \A i \in 1 .. Len(tk) : tk[i].event < h
  <2>1. 1 \in 1 .. k
    BY <1>1
  <2> QED
    BY <1>1, <1>a, <2>1
<1>7. Sorted(tk, t, n)
  BY <1>1, <1>3, <1>4 DEF Sorted
<1> QED
  BY <1>1, <1>5, <1>6, <1>7

LEMMA PiecesOrder ==
  ASSUME NEW e \in Nat
  PROVE  LET p == Pieces(e)
         IN  /\ \A i \in 1 .. Len(p) : p[i].event = e
             /\ \A i, j \in 1 .. Len(p) : i < j => Before(p[i], p[j])
<1> DEFINE a == [event |-> e, piece |-> 1]
           b == [event |-> e, piece |-> 2]
<1>1. a.event = e /\ b.event = e /\ Before(a, b)
  BY DEF Before
<1> HIDE DEF a, b
<1>2. CASE Pieces(e) = <<a>>
  <2>1. Len(<<a>>) = 1 /\ <<a>>[1] = a
    OBVIOUS
  <2> QED
    BY <1>1, <1>2, <2>1
<1>3. CASE Pieces(e) = <<a, b>>
  <2>1. Len(<<a, b>>) = 2 /\ <<a, b>>[1] = a /\ <<a, b>>[2] = b
    OBVIOUS
  <2> PICK p : p = Pieces(e)
    OBVIOUS
  <2>2. Len(p) = 2 /\ p[1] = a /\ p[2] = b
    BY <1>3, <2>1
  <2>3. \A i \in 1 .. Len(p) : i = 1 \/ i = 2
    BY <2>2
  <2>4. \A i, j \in 1 .. Len(p) : i < j => i = 1 /\ j = 2
    BY <2>3
  <2> QED
    BY <1>1, <2>2, <2>3, <2>4
<1>4. Pieces(e) \in {<<a>>, <<a, b>>}
  BY Zenon DEF Pieces, a, b
<1> QED
  BY <1>2, <1>3, <1>4

\* ... and is taken, all its pieces behind what was taken before.
LEMMA SortedTakes ==
  ASSUME NEW tk, NEW od, NEW n \in Nat, Sorted(tk, od, n), od # <<>>
  PROVE  Sorted(Cat(tk, Pieces(Head(od))), Tail(od), n)
<1> PICK t, h : t = Tail(od) /\ h = Head(od)
  OBVIOUS
<1>1. /\ Sorted(tk, t, n) /\ h \in 1 .. n
      /\ \A i \in 1 .. Len(tk) : tk[i].event < h
      /\ \A j \in 1 .. Len(t) : h < t[j]
  BY SortedDrops
<1> PICK p : p = Pieces(h)
  OBVIOUS
<1>2. /\ p \in Seq(Record) /\ tk \in Seq(Record)
      /\ \A i \in 1 .. Len(p) : p[i].event = h
      /\ \A i, j \in 1 .. Len(p) : i < j => Before(p[i], p[j])
  <2>1. h \in Nat /\ tk \in Seq(Record)
    BY <1>1 DEF Sorted
  <2>2. /\ \A i \in 1 .. Len(Pieces(h)) : Pieces(h)[i].event = h
        /\ \A i, j \in 1 .. Len(Pieces(h)) : i < j => Before(Pieces(h)[i], Pieces(h)[j])
    BY <2>1, PiecesOrder, Zenon
  <2>3. Pieces(h) \in Seq(Record)
    BY <2>1, PiecesType, Zenon
  <2> QED
    BY <2>1, <2>2, <2>3
<1> PICK c : c = Cat(tk, p)
  OBVIOUS
<1> PICK k, m : k = Len(tk) /\ m = Len(p)
  OBVIOUS
<1>3. /\ c \in Seq(Record) /\ Len(c) = k + m /\ k \in Nat /\ m \in Nat
      /\ \A i \in 1 .. k + m : c[i] = IF i <= k THEN tk[i] ELSE p[i - k]
  <2>1. /\ Cat(tk, p) \in Seq(Record) /\ Len(Cat(tk, p)) = Len(tk) + Len(p)
        /\ Len(tk) \in Nat /\ Len(p) \in Nat
        /\ \A i \in 1 .. Len(tk) + Len(p) :
             Cat(tk, p)[i] = IF i <= Len(tk) THEN tk[i] ELSE p[i - Len(tk)]
    BY <1>2, CatType, ZenonT(40)
  <2> QED
    BY <2>1
<1>4. \A i \in 1 .. Len(c) :
        \/ i \in 1 .. k /\ c[i] = tk[i] /\ c[i].event < h
        \/ i \in k + 1 .. k + m /\ i - k \in 1 .. m /\ c[i] = p[i - k] /\ c[i].event = h
  <2> SUFFICES ASSUME NEW i \in 1 .. Len(c)
               PROVE  \/ i \in 1 .. k /\ c[i] = tk[i] /\ c[i].event < h
                      \/ /\ i \in k + 1 .. k + m /\ i - k \in 1 .. m
                         /\ c[i] = p[i - k] /\ c[i].event = h
    OBVIOUS
  <2>1. CASE i <= k
    <3>1. i \in 1 .. k /\ c[i] = tk[i]
      BY <1>3, <2>1
    <3> QED
      BY <1>1, <3>1
  <2>2. CASE ~(i <= k)
    <3>a. i \in 1 .. k + m /\ c[i] = p[i - k]
      BY <1>3, <2>2
    <3>b. i \in k + 1 .. k + m /\ i - k \in 1 .. m
      <4>1. k \in Nat /\ m \in Nat
        BY <1>3
      <4> QED
        BY <2>2, <3>a, <4>1
    <3>1. i \in k + 1 .. k + m /\ i - k \in 1 .. m /\ c[i] = p[i - k]
      BY <3>a, <3>b
    <3>2. \A j \in 1 .. m : p[j].event = h
      BY <1>2
    <3>3. p[i - k].event = h
      BY <3>1, <3>2
    <3> QED
      BY <3>1, <3>3
  <2> QED
    BY <2>1, <2>2
<1>5. ASSUME NEW i \in 1 .. Len(c), NEW j \in 1 .. Len(c), i < j PROVE Before(c[i], c[j])
  <2>1. CASE i \in 1 .. k /\ j \in 1 .. k /\ c[i] = tk[i] /\ c[j] = tk[j]
    BY <1>1, <1>5, <2>1 DEF Sorted
  <2>2. CASE c[i].event < h /\ c[j].event = h
    BY <2>2 DEF Before
  <2>3. CASE /\ i - k \in 1 .. m /\ c[i] = p[i - k] /\ j - k \in 1 .. m /\ c[j] = p[j - k]
             /\ i \in k + 1 .. k + m /\ j \in k + 1 .. k + m
    <3>1. i - k < j - k
      BY <1>3, <1>5, <2>3
    <3> QED
      BY <1>2, <2>3, <3>1
  <2>4. ~(i \in k + 1 .. k + m /\ j \in 1 .. k)
    BY <1>3, <1>5
  <2> QED
    BY <1>4, <2>1, <2>2, <2>3, <2>4
<1>6. \A i \in 1 .. Len(c) : c[i].event \in 1 .. n
  BY <1>1, <1>4 DEF Sorted
<1>7. ASSUME NEW i \in 1 .. Len(c), NEW j \in 1 .. Len(t) PROVE c[i].event < t[j]
  <2>1. h < t[j] /\ t[j] \in 1 .. n
    BY <1>1, ElementOfSeq DEF Sorted
  <2>2. c[i].event \in 1 .. n /\ (c[i].event < h \/ c[i].event = h)
    BY <1>4, <1>6
  <2> QED
    BY <1>1, <2>1, <2>2
<1>8. Sorted(c, t, n)
  BY <1>1, <1>3, <1>5, <1>6, <1>7 DEF Sorted
<1> QED
  BY <1>8

\* What the chrome has been or will be given, and the order it has.
TakenNow == Cat(applied, Owned)
InOrder == ~oom => stash = <<>> /\ overflow = <<>> /\ Sorted(TakenNow, ordered, Len(events))

LEMMA TakenStays ==
  ASSUME Pump, DaemonOutcome
  PROVE  TakenNow' = TakenNow
<1>1. CASE applied' = applied /\ Owned' = Owned
  BY <1>1 DEF TakenNow
<1>2. CASE Applies
  <2>a. \A u, v, w \in Seq(Record) : Cat(Cat(u, v), w) = Cat(u, Cat(v, w))
    BY CatAssoc
  <2>1. applied \in Seq(Record) /\ Owned \in Seq(Record)
    BY OwnedIs DEF Pump, PumpNow, PumpOk
  <2> PICK h, t : h = Head(Owned) /\ t = Tail(Owned)
    OBVIOUS
  <2> PICK o : o = <<h>>
    OBVIOUS
  <2>2. applied' = Append(applied, h) /\ Owned' = t /\ Owned # <<>>
    BY <1>2 DEF Applies
  <2>3. h \in Record /\ t \in Seq(Record) /\ Owned = Cat(o, t)
    BY <2>1, <2>2, HeadTail
  <2>4. o \in Seq(Record) /\ applied' = Cat(applied, o)
    BY <2>1, <2>2, <2>3, CatAppend
  <2>5. Cat(Cat(applied, o), t) = Cat(applied, Cat(o, t))
    BY <2>1, <2>3, <2>4, <2>a, ZenonT(40)
  <2> QED
    BY <2>2, <2>3, <2>4, <2>5 DEF TakenNow
<1> QED
  BY <1>1, <1>2 DEF DaemonOutcome

LEMMA TakenGrows ==
  ASSUME Pump, TakesHead
  PROVE  TakenNow' = TakenNow \/ TakenNow' = Cat(TakenNow, Pieces(Head(ordered)))
<1> PICK p : p = Pieces(Head(ordered))
  OBVIOUS
<1>1. CASE Owned' = Owned
  BY <1>1 DEF TakesHead, TakenNow
<1>2. CASE Owned' = Cat(Owned, p) /\ p \in Seq(Record)
  <2>1. applied \in Seq(Record) /\ Owned \in Seq(Record)
    BY OwnedIs DEF Pump, PumpNow, PumpOk
  <2>2. Cat(Cat(applied, Owned), p) = Cat(applied, Cat(Owned, p))
    BY <1>2, <2>1, CatAssoc
  <2> QED
    BY <1>2, <2>2 DEF TakesHead, TakenNow
<1> QED
  BY <1>1, <1>2 DEF TakesHead

LEMMA IngressOrder ==
  ASSUME Pump, InOrder, Ingress, ~oom'
  PROVE  InOrder'
<1>1. TakenNow' = TakenNow
  BY IngressQueue DEF TakenNow
<1>2. ~oom
  BY DEF Ingress, PressChrome, PressContent, RawInput, FigureKey, PushRaw, PushPress, countVars
<1>3. Sorted(TakenNow, ordered, Len(events)) /\ stash = <<>> /\ overflow = <<>>
  BY <1>2 DEF InOrder
<1>4. /\ stash' = stash /\ overflow' = overflow
      /\ ordered' = ordered \/ ordered' = Append(ordered, New)
  BY <1>2 DEF Ingress, PressChrome, PressContent, RawInput, FigureKey, PushRaw, PushPress
<1>5. \E kind \in {"hit", "miss", "paste", "key", "quit"}, raw \in BOOLEAN : Arrive(kind, raw)
  BY DEF Ingress, PressChrome, PressContent, RawInput, FigureKey
<1>6. Len(events) \in Nat /\ Len(events') = Len(events) + 1
  <2>1. /\ events \in Seq([kind : {"hit", "miss", "paste", "key", "quit"}, raw : BOOLEAN])
        /\ Len(events) \in Nat
    BY LenProperties DEF Pump, InputsOk
  <2> PICK kind \in {"hit", "miss", "paste", "key", "quit"}, raw \in BOOLEAN : Arrive(kind, raw)
    BY <1>5
  <2> PICK ev : ev = [kind |-> kind, raw |-> raw]
    OBVIOUS
  <2>2. ev \in [kind : {"hit", "miss", "paste", "key", "quit"}, raw : BOOLEAN]
    OBVIOUS
  <2>3. events' = Append(events, ev)
    BY DEF Arrive
  <2> QED
    BY <2>1, <2>2, <2>3, AppendProperties
<1>7. Sorted(TakenNow, ordered, Len(events) + 1)
      /\ Sorted(TakenNow, Append(ordered, Len(events) + 1), Len(events) + 1)
  BY <1>3, <1>6, SortedArrives
<1>8. Sorted(TakenNow, ordered', Len(events) + 1)
  BY <1>4, <1>7 DEF New
<1> QED
  BY <1>1, <1>3, <1>4, <1>6, <1>8 DEF InOrder

\* The head of the ordered queue is taken, whole, or thrown away.
LEMMA DrainOrder ==
  ASSUME Pump, InOrder, ~oom, TakesHead, ordered # <<>>, ordered' = Tail(ordered),
         UNCHANGED <<stash, overflow, events>>
  PROVE  InOrder'
<1> PICK n, tk : n = Len(events) /\ tk = TakenNow
  OBVIOUS
<1>1. Sorted(tk, ordered, n) /\ stash = <<>> /\ overflow = <<>> /\ n \in Nat
  BY LenProperties DEF InOrder, Pump, InputsOk
<1>2. Sorted(tk, Tail(ordered), n)
  BY <1>1, SortedDrops
<1>3. Sorted(Cat(tk, Pieces(Head(ordered))), Tail(ordered), n)
  BY <1>1, SortedTakes
<1>4. TakenNow' = tk \/ TakenNow' = Cat(tk, Pieces(Head(ordered)))
  BY TakenGrows
<1>5. Sorted(TakenNow', ordered', Len(events'))
  BY <1>2, <1>3, <1>4
<1> QED
  BY <1>1, <1>5 DEF InOrder

LEMMA KeptOrder ==
  ASSUME Pump, InOrder, ~oom, DaemonOutcome, UNCHANGED <<ordered, stash, overflow, events>>
  PROVE  InOrder'
BY TakenStays DEF InOrder

LEMMA StepOrder ==
  ASSUME Pump, InOrder, [Next]_vars
  PROVE  InOrder'
<1> SUFFICES ASSUME ~oom' PROVE InOrder'
  BY DEF InOrder
<1>1. CASE Ingress
  BY <1>1, IngressOrder
<1>2. CASE RetryHead
  <2>1. DaemonOutcome
    BY <1>2, RetryQueue DEF DaemonOutcome
  <2> QED
    BY <1>2, <2>1, KeptOrder DEF RetryHead, inputVars, countVars
<1>3. CASE ProcessPress
  <2>1. TakesHead
    BY <1>3, PressQueue
  <2> QED
    BY <1>3, <2>1, DrainOrder DEF ProcessPress, inputVars
<1>4. CASE ProcessRaw
  <2>1. TakesHead
    BY <1>4, RawQueue
  <2> QED
    BY <1>4, <2>1, DrainOrder DEF ProcessRaw, inputVars, countVars
<1>5. CASE FlushKeys
  BY <1>5 DEF FlushKeys, InOrder
<1>6. CASE FlushStash
  BY <1>6 DEF FlushStash, InOrder, countVars
<1>7. CASE OverlayFlush
  <2>1. DaemonOutcome
    BY <1>7, FlushQueue DEF DaemonOutcome
  <2> QED
    BY <1>7, <2>1, KeptOrder DEF OverlayFlush, inputVars, countVars
<1>8. CASE ClientReads
  <2>1. DaemonOutcome
    BY <1>8, ClientQueue DEF DaemonOutcome
  <2> QED
    BY <1>8, <2>1, KeptOrder DEF ClientReads, inputVars, countVars
<1>9. CASE DaemonHandles
  <2>1. DaemonOutcome
    BY <1>9, DaemonQueue
  <2> QED
    BY <1>9, <2>1, KeptOrder DEF DaemonHandles, inputVars
<1>10. CASE UNCHANGED vars
  <2>1. /\ InputsOk'
        /\ UNCHANGED <<retry, applied, appliedSeq, acked, toClient, backlog, pumpVars>>
    BY <1>10 DEF vars, Pump, InputsOk, inputVars, pumpVars, clientVars, daemonVars
  <2>2. DaemonOutcome
    BY <2>1, StillQueue DEF DaemonOutcome
  <2> QED
    BY <1>10, <2>2, KeptOrder DEF vars, inputVars, countVars
<1> QED
  BY <1>1, <1>2, <1>3, <1>4, <1>5, <1>6, <1>7, <1>8, <1>9, <1>10 DEF Next, Drain

LEMMA InitOrder == Init => InOrder
<1> SUFFICES ASSUME Init PROVE InOrder
  OBVIOUS
<1> PICK e : e = <<>>
  OBVIOUS
<1>1. \A S : e \in Seq(S) /\ Len(e) = 0
  BY EmptySeq
<1>2. Owned = e /\ applied = e /\ ordered = e /\ stash = e /\ overflow = e /\ events = e
  BY InitPump DEF Init
<1>3. Cat(e, e) = e
  <2>1. e \in Seq(Nat)
    BY <1>1
  <2>2. Cat(e, <<>>) = e
    BY <2>1, CatEmpty
  <2> QED
    BY <2>2
<1>4. TakenNow = e
  BY <1>2, <1>3 DEF TakenNow
<1>5. Sorted(e, e, 0)
  BY <1>1 DEF Sorted
<1> QED
  BY <1>1, <1>2, <1>4, <1>5 DEF InOrder

(* As long as the ordered queue takes every push, the chrome is given its      *)
(* input in the order the wire brought it, a large paste whole, however often  *)
(* the backlog fills and the pieces wait in the retry queue.                   *)
THEOREM TakenAsTheWireBroughtIt == Spec => []TakenInWireOrder
<1>1. Init => Pump /\ InOrder
  BY InitPump, InitOrder
<1>2. (Pump /\ InOrder) /\ [Next]_vars => (Pump /\ InOrder)'
  <2> SUFFICES ASSUME Pump, InOrder, [Next]_vars PROVE Pump' /\ InOrder'
    OBVIOUS
  <2> QED
    BY StepPump, StepOrder
<1>3. Pump /\ InOrder => TakenInWireOrder
  <2> SUFFICES ASSUME InOrder, ~oom
               PROVE  \A i, j \in DOMAIN Taken : i < j => Before(Taken[i], Taken[j])
    BY DEF TakenInWireOrder
  <2>1. Taken = TakenNow
    BY Zenon DEF Taken, TakenNow, Cat
  <2>2. /\ TakenNow \in Seq(Record)
        /\ \A i, j \in 1 .. Len(TakenNow) : i < j => Before(TakenNow[i], TakenNow[j])
    BY DEF InOrder, Sorted
  <2>3. DOMAIN TakenNow = 1 .. Len(TakenNow)
    BY <2>2, LenProperties
  <2> QED
    BY <2>1, <2>2, <2>3
<1> QED
  BY <1>1, <1>2, <1>3, PTL DEF Spec

-----------------------------------------------------------------------------
(* Where raw bytes go. *)

Event == [kind : {"hit", "miss", "paste", "key", "quit"}, raw : BOOLEAN]
Increasing(od) == \A i, j \in 1 .. Len(od) : i < j => od[i] < od[j]
MissBehind(ev, h, m) == h < m /\ ev[m].kind = "miss"

\* No hit is forgotten: it is decided or waits; what is decided lies before what
\* waits; and the focus is lost only to a miss behind every hit decided.
Heard(ev, od, dc, ac) ==
  /\ dc \subseteq 1 .. Len(ev)
  /\ \A h \in 1 .. Len(ev) : ev[h].kind = "hit" => h \in dc \/ \E i \in 1 .. Len(od) : od[i] = h
  /\ \A h \in dc, i \in 1 .. Len(od) : ev[h].kind = "hit" => h < od[i]
  /\ ac \/ \A h \in dc : ev[h].kind = "hit" =>
             \E m \in 1 .. Len(ev) : MissBehind(ev, h, m) /\ \A i \in 1 .. Len(od) : m < od[i]

\* Raw bytes e for the pane: behind every hit before them there is a miss.
Aimed(ev, e) ==
  ev[e].raw => \A h \in 1 .. e - 1 : ev[h].kind = "hit" => \E m \in 1 .. e - 1 : MissBehind(ev, h, m)
PaneOk(ev, pn) ==
  /\ pn \in Seq(Nat)
  /\ \A i \in 1 .. Len(pn) : pn[i] \in 1 .. Len(ev) /\ Aimed(ev, pn[i])

Quiet == faults = 0 /\ \A e \in 1 .. Len(events) : events[e].kind # "quit"
NoRelease(tc) == \A i \in 1 .. Len(tc) : tc[i].type # "release"

Routed ==
  /\ faults \in Nat
  /\ Quiet => /\ ~oom /\ NoRelease(toClient)
              /\ Heard(events, ordered, decided, active)
              /\ PaneOk(events, pane)

LEMMA EventArrives ==
  ASSUME NEW ev \in Seq(Event), NEW w \in Event
  PROVE  /\ Append(ev, w) \in Seq(Event)
         /\ Len(ev) \in Nat /\ Len(Append(ev, w)) = Len(ev) + 1
         /\ \A h \in 1 .. Len(ev) : Append(ev, w)[h] = ev[h]
         /\ Append(ev, w)[Len(ev) + 1] = w
BY AppendProperties, LenProperties

LEMMA HeardArrives ==
  ASSUME NEW ev \in Seq(Event), NEW w \in Event, NEW od \in Seq(1 .. Len(ev)),
         NEW dc, NEW ac, Heard(ev, od, dc, ac)
  PROVE  /\ w.kind # "hit" =>
              /\ Heard(Append(ev, w), od, dc, ac)
              /\ Heard(Append(ev, w), od, dc \cup {Len(ev) + 1}, ac)
         /\ Heard(Append(ev, w), Append(od, Len(ev) + 1), dc, ac)
<1> PICK e2, n : e2 = Append(ev, w) /\ n = Len(ev)
  OBVIOUS
<1> PICK o2, k : o2 = Append(od, n + 1) /\ k = Len(od)
  OBVIOUS
<1>1. /\ n \in Nat /\ Len(e2) = n + 1 /\ e2[n + 1] = w
      /\ \A h \in 1 .. n : e2[h] = ev[h]
  BY EventArrives
<1>2. 1 .. n \subseteq 1 .. n + 1 /\ n + 1 \in 1 .. n + 1
  BY <1>1
<1>3. od \in Seq(1 .. n + 1)
  BY <1>2, SeqMonotonic
<1>4. /\ Len(o2) = k + 1 /\ k \in Nat /\ o2[k + 1] = n + 1
      /\ \A i \in 1 .. k : o2[i] = od[i]
  BY <1>2, <1>3, AppendProperties, LenProperties
<1>5. \A i \in 1 .. k : od[i] \in 1 .. n
  BY ElementOfSeq
<1>6. /\ dc \subseteq 1 .. n
      /\ \A h \in 1 .. n : ev[h].kind = "hit" => h \in dc \/ \E i \in 1 .. k : od[i] = h
      /\ \A h \in dc, i \in 1 .. k : ev[h].kind = "hit" => h < od[i]
      /\ ac \/ \A h \in dc : ev[h].kind = "hit" =>
                 \E m \in 1 .. n : MissBehind(ev, h, m) /\ \A i \in 1 .. k : m < od[i]
  BY DEF Heard
<1>7. dc \subseteq 1 .. n + 1 /\ dc \cup {n + 1} \subseteq 1 .. n + 1
  BY <1>2, <1>6
<1>8. \A h \in dc : e2[h] = ev[h]
  BY <1>1, <1>6
<1>9. \A h, m \in 1 .. n : MissBehind(ev, h, m) => MissBehind(e2, h, m)
  BY <1>1 DEF MissBehind
<1>10. ac \/ \A h \in dc : e2[h].kind = "hit" =>
         \E m \in 1 .. n + 1 : m \in 1 .. n /\ MissBehind(e2, h, m) /\ \A i \in 1 .. k : m < od[i]
  BY <1>2, <1>6, <1>8, <1>9
<1>11. ASSUME w.kind # "hit", NEW d2, d2 = dc \/ d2 = dc \cup {n + 1}
       PROVE  Heard(e2, od, d2, ac)
  <2>1. \A h \in d2 : e2[h].kind = "hit" => h \in dc /\ ev[h].kind = "hit"
    BY <1>1, <1>8, <1>11
  <2>2. \A h \in 1 .. n + 1 : e2[h].kind = "hit" => h \in d2 \/ \E i \in 1 .. k : od[i] = h
    BY <1>1, <1>6, <1>11
  <2>3. \A h \in d2, i \in 1 .. k : e2[h].kind = "hit" => h < od[i]
    BY <1>6, <2>1
  <2>4. ac \/ \A h \in d2 : e2[h].kind = "hit" =>
          \E m \in 1 .. n + 1 : MissBehind(e2, h, m) /\ \A i \in 1 .. k : m < od[i]
    BY <1>10, <2>1
  <2> QED
    BY <1>1, <1>7, <1>11, <2>2, <2>3, <2>4 DEF Heard
<1>12. Heard(e2, o2, dc, ac)
  <2>1. \A h \in 1 .. n + 1 : e2[h].kind = "hit" => h \in dc \/ \E i \in 1 .. k + 1 : o2[i] = h
    <3> SUFFICES ASSUME NEW h \in 1 .. n + 1, e2[h].kind = "hit", h \notin dc
                 PROVE  \E i \in 1 .. k + 1 : o2[i] = h
      OBVIOUS
    <3>1. CASE h = n + 1
      BY <1>4, <3>1
    <3>2. CASE h # n + 1
      <4>1. h \in 1 .. n /\ ev[h].kind = "hit"
        BY <1>1, <3>2
      <4>2. PICK i \in 1 .. k : od[i] = h
        BY <1>6, <4>1
      <4> QED
        BY <1>4, <4>2
    <3> QED
      BY <3>1, <3>2
  <2>2. \A m \in 1 .. n : (\A i \in 1 .. k : m < od[i]) => \A i \in 1 .. k + 1 : m < o2[i]
    <3> SUFFICES ASSUME NEW m \in 1 .. n, \A i \in 1 .. k : m < od[i], NEW i \in 1 .. k + 1
                 PROVE  m < o2[i]
      OBVIOUS
    <3>1. CASE i \in 1 .. k
      BY <1>4, <3>1
    <3>2. CASE i = k + 1
      BY <1>1, <1>4, <3>2
    <3> QED
      BY <1>4, <3>1, <3>2
  <2>3. \A h \in dc, i \in 1 .. k + 1 : e2[h].kind = "hit" => h < o2[i]
    BY <1>6, <1>8, <2>2
  <2>4. ac \/ \A h \in dc : e2[h].kind = "hit" =>
          \E m \in 1 .. n + 1 : MissBehind(e2, h, m) /\ \A i \in 1 .. k + 1 : m < o2[i]
    BY <1>10, <2>2
  <2> QED
    BY <1>1, <1>4, <1>7, <2>1, <2>3, <2>4 DEF Heard
<1> QED
  BY <1>11, <1>12

\* The press at the head is resolved: a hit takes the focus, a miss gives it up.
LEMMA HeardPress ==
  ASSUME NEW ev \in Seq(Event), NEW od \in Seq(1 .. Len(ev)), Increasing(od), od # <<>>,
         NEW dc, NEW ac, Heard(ev, od, dc, ac)
  PROVE  /\ Heard(ev, Tail(od), dc \cup {Head(od)}, TRUE)
         /\ ev[Head(od)].kind = "miss" => Heard(ev, Tail(od), dc \cup {Head(od)}, FALSE)
<1> PICK x, t, k, n : x = Head(od) /\ t = Tail(od) /\ k = Len(od) /\ n = Len(ev)
  OBVIOUS
<1>1. /\ x \in 1 .. n /\ k \in Nat \ {0} /\ Len(t) = k - 1 /\ od[1] = x /\ n \in Nat
      /\ \A i \in 1 .. k - 1 : t[i] = od[i + 1]
  BY HeadTail, LenProperties
<1>2. \A i \in 1 .. k - 1 : i + 1 \in 1 .. k /\ 1 \in 1 .. k /\ 1 < i + 1
  BY <1>1
<1>3. \A i \in 1 .. k - 1 : x < t[i]
  BY <1>1, <1>2 DEF Increasing
<1>4. /\ dc \subseteq 1 .. n
      /\ \A h \in 1 .. n : ev[h].kind = "hit" => h \in dc \/ \E i \in 1 .. k : od[i] = h
      /\ \A h \in dc, i \in 1 .. k : ev[h].kind = "hit" => h < od[i]
  BY DEF Heard
<1>5. dc \cup {x} \subseteq 1 .. n
  BY <1>1, <1>4
<1>6. \A h \in 1 .. n : ev[h].kind = "hit" => h \in dc \cup {x} \/ \E i \in 1 .. k - 1 : t[i] = h
  <2> SUFFICES ASSUME NEW h \in 1 .. n, ev[h].kind = "hit", h \notin dc, h # x
               PROVE  \E i \in 1 .. k - 1 : t[i] = h
    OBVIOUS
  <2>1. PICK i \in 1 .. k : od[i] = h
    BY <1>4
  <2>2. i # 1
    BY <1>1, <2>1
  <2>3. i - 1 \in 1 .. k - 1 /\ (i - 1) + 1 = i
    BY <1>1, <2>2
  <2> QED
    BY <1>1, <2>1, <2>3
<1>7. \A h \in dc \cup {x}, i \in 1 .. k - 1 : ev[h].kind = "hit" => h < t[i]
  BY <1>1, <1>2, <1>3, <1>4
<1>8. Heard(ev, t, dc \cup {x}, TRUE)
  BY <1>1, <1>5, <1>6, <1>7 DEF Heard
<1>9. ASSUME ev[x].kind = "miss" PROVE Heard(ev, t, dc \cup {x}, FALSE)
  <2>1. \A h \in dc \cup {x} : ev[h].kind = "hit" =>
          x \in 1 .. n /\ MissBehind(ev, h, x) /\ \A i \in 1 .. k - 1 : x < t[i]
    <3> SUFFICES ASSUME NEW h \in dc \cup {x}, ev[h].kind = "hit" PROVE MissBehind(ev, h, x)
      BY <1>1, <1>3
    <3>1. h \in dc /\ 1 \in 1 .. k
      BY <1>1, <1>9
    <3> QED
      BY <1>1, <1>4, <1>9, <3>1 DEF MissBehind
  <2> QED
    BY <1>1, <1>5, <1>6, <1>7, <2>1 DEF Heard
<1> QED
  BY <1>8, <1>9

\* The raw run at the head is routed.
LEMMA HeardRaw ==
  ASSUME NEW ev \in Seq(Event), NEW od \in Seq(1 .. Len(ev)), Increasing(od), od # <<>>,
         ev[Head(od)].kind # "hit", NEW dc, NEW ac, Heard(ev, od, dc, ac)
  PROVE  /\ Heard(ev, Tail(od), dc, ac)
         /\ Head(od) \in 1 .. Len(ev)
         /\ ~ac => Aimed(ev, Head(od))
<1> PICK x, t, k, n : x = Head(od) /\ t = Tail(od) /\ k = Len(od) /\ n = Len(ev)
  OBVIOUS
<1>1. /\ x \in 1 .. n /\ k \in Nat \ {0} /\ Len(t) = k - 1 /\ od[1] = x /\ n \in Nat
      /\ \A i \in 1 .. k - 1 : t[i] = od[i + 1]
  BY HeadTail, LenProperties
<1>2. \A i \in 1 .. k - 1 : i + 1 \in 1 .. k
  BY <1>1
<1>3. \A i \in 1 .. k : od[i] \in 1 .. n /\ (i = 1 \/ x < od[i])
  <2> TAKE i \in 1 .. k
  <2>1. od[i] \in 1 .. n
    BY ElementOfSeq
  <2>2. 1 \in 1 .. k /\ (i = 1 \/ 1 < i)
    BY <1>1
  <2> QED
    BY <1>1, <2>1, <2>2 DEF Increasing
<1>4. /\ dc \subseteq 1 .. n
      /\ \A h \in 1 .. n : ev[h].kind = "hit" => h \in dc \/ \E i \in 1 .. k : od[i] = h
      /\ \A h \in dc, i \in 1 .. k : ev[h].kind = "hit" => h < od[i]
      /\ ac \/ \A h \in dc : ev[h].kind = "hit" =>
                 \E m \in 1 .. n : MissBehind(ev, h, m) /\ \A i \in 1 .. k : m < od[i]
  BY DEF Heard
<1>5. \A h \in 1 .. n : ev[h].kind = "hit" => h \in dc \/ \E i \in 1 .. k - 1 : t[i] = h
  <2> SUFFICES ASSUME NEW h \in 1 .. n, ev[h].kind = "hit", h \notin dc
               PROVE  \E i \in 1 .. k - 1 : t[i] = h
    OBVIOUS
  <2>1. PICK i \in 1 .. k : od[i] = h
    BY <1>4
  <2>2. i # 1
    BY <1>1, <2>1
  <2>3. i - 1 \in 1 .. k - 1 /\ (i - 1) + 1 = i
    BY <1>1, <2>2
  <2> QED
    BY <1>1, <2>1, <2>3
<1>6. \A h \in dc, i \in 1 .. k - 1 : ev[h].kind = "hit" => h < t[i]
  BY <1>1, <1>2, <1>4
<1>7. ac \/ \A h \in dc : ev[h].kind = "hit" =>
        \E m \in 1 .. n : MissBehind(ev, h, m) /\ \A i \in 1 .. k - 1 : m < t[i]
  BY <1>1, <1>2, <1>4
<1>8. Heard(ev, t, dc, ac)
  BY <1>1, <1>4, <1>5, <1>6, <1>7 DEF Heard
<1>9. ASSUME ~ac PROVE Aimed(ev, x)
  <2> SUFFICES ASSUME NEW h \in 1 .. x - 1, ev[h].kind = "hit"
               PROVE  \E m \in 1 .. x - 1 : MissBehind(ev, h, m)
    BY DEF Aimed
  <2>1. h \in 1 .. n /\ h < x
    BY <1>1
  <2>2. h \in dc
    <3> SUFFICES ASSUME NEW i \in 1 .. k, od[i] = h PROVE FALSE
      BY <1>4, <2>1
    <3> QED
      BY <1>1, <1>3, <2>1
  <2>3. PICK m \in 1 .. n : MissBehind(ev, h, m) /\ \A i \in 1 .. k : m < od[i]
    BY <1>4, <1>9, <2>2
  <2>4. 1 \in 1 .. k
    BY <1>1
  <2>5. m \in 1 .. x - 1
    BY <1>1, <2>3, <2>4
  <2> QED
    BY <2>3, <2>5
<1> QED
  BY <1>1, <1>8, <1>9

LEMMA PaneArrives ==
  ASSUME NEW ev \in Seq(Event), NEW w \in Event, NEW pn, PaneOk(ev, pn)
  PROVE  PaneOk(Append(ev, w), pn)
<1> PICK e2, n : e2 = Append(ev, w) /\ n = Len(ev)
  OBVIOUS
<1>1. /\ n \in Nat /\ Len(e2) = n + 1 /\ \A h \in 1 .. n : e2[h] = ev[h]
  BY EventArrives
<1>2. \A e \in 1 .. n : Aimed(ev, e) => Aimed(e2, e)
  <2> SUFFICES ASSUME NEW e \in 1 .. n, Aimed(ev, e), e2[e].raw, NEW h \in 1 .. e - 1,
                      e2[h].kind = "hit"
               PROVE  \E m \in 1 .. e - 1 : MissBehind(e2, h, m)
    BY DEF Aimed
  <2>1. 1 .. e - 1 \subseteq 1 .. n /\ e2[e] = ev[e]
    BY <1>1
  <2>2. ev[h].kind = "hit" /\ ev[e].raw
    BY <1>1, <2>1
  <2>3. PICK m \in 1 .. e - 1 : MissBehind(ev, h, m)
    BY <2>2 DEF Aimed
  <2> QED
    BY <1>1, <2>1, <2>3 DEF MissBehind
<1>3. \A e \in 1 .. n : e \in 1 .. n + 1
  BY <1>1
<1> QED
  BY <1>1, <1>2, <1>3 DEF PaneOk

LEMMA PaneTakes ==
  ASSUME NEW ev \in Seq(Event), NEW pn, PaneOk(ev, pn), NEW e \in 1 .. Len(ev), Aimed(ev, e)
  PROVE  PaneOk(ev, Append(pn, e))
<1> PICK p2, k : p2 = Append(pn, e) /\ k = Len(pn)
  OBVIOUS
<1>1. pn \in Seq(Nat) /\ e \in Nat
  BY DEF PaneOk
<1>2. /\ p2 \in Seq(Nat) /\ Len(p2) = k + 1 /\ k \in Nat /\ p2[k + 1] = e
      /\ \A i \in 1 .. k : p2[i] = pn[i]
  BY <1>1, AppendProperties, LenProperties
<1>3. \A i \in 1 .. k + 1 : i \in 1 .. k \/ i = k + 1
  BY <1>2
<1> QED
  BY <1>2, <1>3 DEF PaneOk

\* Quiet never returns, and a quiet step is no fault.
LEMMA QuietBefore ==
  ASSUME Pump, Pump', Routed, [Next]_vars, Quiet'
  PROVE  Quiet /\ ~(Fault)
<1>1. faults \in Nat /\ faults' = 0 /\ \A e \in 1 .. Len(events') : events'[e].kind # "quit"
  BY DEF Routed, Quiet
<1>2. ~Fault
  BY <1>1 DEF Fault
<1>3. faults' = faults
  BY <1>2 DEF Next, Ingress, PressChrome, PressContent, RawInput, FigureKey, PushRaw, PushPress,
     Drain, RetryHead, ProcessPress, ProcessRaw, FlushKeys, FlushStash, OverlayFlush, ClientReads,
     DaemonHandles, HandleDuplicate, HandleFresh, HandleRefused, HandleOverflow, NoFault,
     countVars, vars
<1>4. \A e \in 1 .. Len(events) : events[e].kind # "quit"
  <2>1. CASE events' = events
    BY <1>1, <2>1
  <2>2. CASE Ingress
    <3> PICK kind \in {"hit", "miss", "paste", "key", "quit"}, raw \in BOOLEAN : Arrive(kind, raw)
      BY <2>2 DEF Ingress, PressChrome, PressContent, RawInput, FigureKey
    <3> PICK w : w = [kind |-> kind, raw |-> raw]
      OBVIOUS
    <3>1. w \in Event /\ events' = Append(events, w) /\ events \in Seq(Event)
      BY DEF Arrive, Event, Pump, InputsOk
    <3>2. /\ Len(events) \in Nat /\ Len(events') = Len(events) + 1
          /\ \A h \in 1 .. Len(events) : events'[h] = events[h]
      BY <3>1, EventArrives
    <3>3. \A h \in 1 .. Len(events) : h \in 1 .. Len(events')
      BY <3>2
    <3> QED
      BY <1>1, <3>2, <3>3
  <2> QED
    BY <2>1, <2>2 DEF Next, Drain, RetryHead, ProcessPress, ProcessRaw, FlushKeys, FlushStash,
       OverlayFlush, ClientReads, DaemonHandles, inputVars, vars
<1> QED
  BY <1>1, <1>2, <1>3, <1>4 DEF Quiet

\* The part of Routed that matters while the run is quiet.
Routes ==
  /\ ~oom /\ NoRelease(toClient)
  /\ Heard(events, ordered, decided, active)
  /\ PaneOk(events, pane)

LEMMA IngressRoutes ==
  ASSUME Pump, InOrder, Routes, Ingress, ~Fault
  PROVE  Routes'
<1>1. \E kind \in {"hit", "miss", "paste", "key", "quit"}, raw \in BOOLEAN :
        /\ Arrive(kind, raw)
        /\ UNCHANGED <<oom, toClient, active>>
        /\ \/ /\ kind # "hit" /\ ordered' = ordered
              /\ decided' = decided \/ decided' = decided \cup {New}
           \/ ordered' = Append(ordered, New) /\ decided' = decided
        /\ pane' = pane \/ (~raw /\ pane' = Append(pane, New))
  <2>1. CASE PressChrome
    BY <2>1 DEF PressChrome, PushPress, countVars, Rest, daemonVars
  <2>2. CASE PressContent
    BY <2>2 DEF PressContent, PushPress, countVars, Rest, daemonVars
  <2>3. CASE RawInput
    BY <2>3 DEF RawInput, PushRaw, countVars, Rest, daemonVars
  <2>4. CASE FigureKey
    BY <2>4 DEF FigureKey, PushRaw, countVars, Rest, daemonVars
  <2> QED
    BY <2>1, <2>2, <2>3, <2>4 DEF Ingress
<1> PICK kind \in {"hit", "miss", "paste", "key", "quit"}, raw \in BOOLEAN :
        /\ Arrive(kind, raw)
        /\ UNCHANGED <<oom, toClient, active>>
        /\ \/ /\ kind # "hit" /\ ordered' = ordered
              /\ decided' = decided \/ decided' = decided \cup {New}
           \/ ordered' = Append(ordered, New) /\ decided' = decided
        /\ pane' = pane \/ (~raw /\ pane' = Append(pane, New))
  BY <1>1
<1> PICK w : w = [kind |-> kind, raw |-> raw]
  OBVIOUS
<1>2. /\ w \in Event /\ events' = Append(events, w) /\ events \in Seq(Event)
      /\ w.kind = kind /\ w.raw = raw /\ New = Len(events) + 1
  BY DEF Arrive, Event, Pump, InputsOk, New
<1>3. ordered \in Seq(1 .. Len(events))
  BY DEF InOrder, Routes, Sorted
<1>4. Heard(events', ordered', decided', active')
  <2>1. Heard(events, ordered, decided, active)
    BY DEF Routes
  <2>2. /\ w.kind # "hit" =>
             /\ Heard(events', ordered, decided, active)
             /\ Heard(events', ordered, decided \cup {New}, active)
        /\ Heard(events', Append(ordered, New), decided, active)
    BY <1>2, <1>3, <2>1, HeardArrives
  <2> QED
    BY <1>2, <2>2
<1>5. PaneOk(events', pane)
  BY <1>2, PaneArrives DEF Routes
<1>6. ~raw => New \in 1 .. Len(events') /\ Aimed(events', New)
  BY <1>2, EventArrives DEF Aimed
<1>7. PaneOk(events', pane')
  <2>1. ~raw => PaneOk(events', Append(pane, New))
    BY <1>2, <1>5, <1>6, EventArrives, PaneTakes
  <2> QED
    BY <1>5, <2>1
<1> QED
  BY <1>4, <1>7 DEF Routes

LEMMA PressRoutes ==
  ASSUME Pump, InOrder, Routes, ProcessPress, ~Fault
  PROVE  Routes'
<1>1. /\ ordered # <<>> /\ ordered' = Tail(ordered) /\ decided' = decided \cup {Head(ordered)}
      /\ \/ active' = TRUE
         \/ events[Head(ordered)].kind = "miss" /\ active' = FALSE
      /\ UNCHANGED <<oom, toClient, events, pane>>
  BY DEF ProcessPress, daemonVars, inputVars
<1>2. events \in Seq(Event) /\ ordered \in Seq(1 .. Len(events)) /\ Increasing(ordered)
  BY DEF InOrder, Routes, Sorted, Pump, InputsOk, Event, Increasing
<1>3. Heard(events, ordered', decided', active')
  BY <1>1, <1>2, HeardPress DEF Routes
<1> QED
  BY <1>1, <1>3 DEF Routes

LEMMA RawRoutes ==
  ASSUME Pump, InOrder, Routes, ProcessRaw
  PROVE  Routes'
<1>1. /\ ordered # <<>> /\ ordered' = Tail(ordered) /\ events[Head(ordered)].kind # "hit"
      /\ UNCHANGED <<oom, toClient, events, decided, active>>
  BY DEF ProcessRaw, daemonVars, inputVars, countVars
<1>2. events \in Seq(Event) /\ ordered \in Seq(1 .. Len(events)) /\ Increasing(ordered)
  BY DEF InOrder, Routes, Sorted, Pump, InputsOk, Event, Increasing
<1>3. /\ Heard(events, ordered', decided, active)
      /\ Head(ordered) \in 1 .. Len(events)
      /\ ~active => Aimed(events, Head(ordered))
  BY <1>1, <1>2, HeardRaw DEF Routes
<1>4. pane' = pane \/ (~active /\ pane' = Append(pane, Head(ordered)))
  <2> PICK x : x = Head(ordered)
    OBVIOUS
  <2>1. pane' = pane \/ (~active /\ pane' = Cat(pane, <<x>>))
    BY Zenon DEF ProcessRaw, ProcessKeyChunk, Cat
  <2>2. pane \in Seq(Nat) /\ x \in Nat
    BY <1>3 DEF Routes, PaneOk
  <2>3. Append(pane, x) = Cat(pane, <<x>>)
    BY <2>2, CatAppend
  <2> QED
    BY <2>1, <2>3
<1>5. PaneOk(events, pane')
  <2>1. PaneOk(events, pane) /\ events \in Seq(Event)
    BY <1>2 DEF Routes
  <2>2. ~active => PaneOk(events, Append(pane, Head(ordered)))
    BY <1>2, <1>3, <2>1, PaneTakes
  <2> QED
    BY <1>4, <2>1, <2>2
<1> QED
  BY <1>1, <1>3, <1>5 DEF Routes

LEMMA ClientRoutes ==
  ASSUME Pump, Routes, ClientReads
  PROVE  Routes'
<1>1. /\ toClient # <<>> /\ toClient' = Tail(toClient)
      /\ active' = active \/ Head(toClient).type = "release"
      /\ UNCHANGED <<oom, events, ordered, decided, pane>>
  BY DEF ClientReads, clientVars, inputVars, countVars
<1>2. /\ Len(toClient) \in Nat \ {0} /\ Len(toClient') = Len(toClient) - 1
      /\ toClient[1] = Head(toClient)
      /\ \A k \in 1 .. Len(toClient) - 1 : toClient'[k] = toClient[k + 1]
  BY <1>1, HeadTail DEF Pump
<1>3. 1 \in 1 .. Len(toClient) /\ \A k \in 1 .. Len(toClient') : k + 1 \in 1 .. Len(toClient)
  BY <1>2
<1>4. active' = active
  BY <1>1, <1>2, <1>3 DEF Routes, NoRelease
<1>5. NoRelease(toClient')
  BY <1>2, <1>3 DEF Routes, NoRelease
<1> QED
  BY <1>1, <1>4, <1>5 DEF Routes

\* What the daemon applies is an input event, and no exit key.
LEMMA AppliedEvent ==
  ASSUME Pump, InOrder, Routes, toDaemon # <<>>, ~Replayed(Head(toDaemon))
  PROVE  Head(toDaemon).record.event \in 1 .. Len(events)
<1> PICK m : m = Head(toDaemon)
  OBVIOUS
<1> PICK n, c : n = Len(applied) /\ c = Cursor(inflight, seqNext)
  OBVIOUS
<1>1. /\ PumpOk(applied, inflight, seqNext, backlog, toDaemon)
      /\ appliedSeq = n /\ n \in Nat /\ c \in Nat /\ n \in {c - 1, c}
      /\ backlog \in Seq(Record) /\ retry \in Seq(Record) /\ applied \in Seq(Record)
  BY LenProperties DEF Pump, PumpNow, PumpOk, Cursor
<1>2. FrameOk(m, applied, c, backlog)
  BY <1>1, TakeFrameOk
<1>3. m.seq \in 1 .. c /\ ~(m.seq <= n)
  BY <1>1, <1>2 DEF FrameOk, Replayed
<1>4. m.seq > n /\ n # c
  BY <1>1, <1>3
<1>5. backlog # <<>> /\ m.record = Head(backlog)
  BY <1>1, <1>2, <1>4 DEF FrameOk
<1>6. Owned = Cat(backlog, retry) /\ Owned \in Seq(Record)
  BY <1>4, OwnedIs DEF RemainingNow, Remaining
<1>7. Owned # <<>> /\ Head(Owned) = m.record
  BY <1>1, <1>5, <1>6, CatHead
<1>8. Len(Owned) \in Nat \ {0} /\ Owned[1] = m.record
  BY <1>6, <1>7, HeadTail
<1>9. /\ Len(TakenNow) = n + Len(Owned)
      /\ \A i \in 1 .. n + Len(Owned) :
           TakenNow[i] = IF i <= n THEN applied[i] ELSE Owned[i - n]
  <2>1. /\ Len(TakenNow) = Len(applied) + Len(Owned)
        /\ \A i \in 1 .. Len(applied) + Len(Owned) :
             TakenNow[i] = IF i <= Len(applied) THEN applied[i] ELSE Owned[i - Len(applied)]
    BY <1>1, <1>6, CatType DEF TakenNow
  <2> QED
    BY <2>1
<1>10. n + 1 \in 1 .. n + Len(Owned) /\ ~(n + 1 <= n) /\ (n + 1) - n = 1
  BY <1>1, <1>8
<1>11. TakenNow[n + 1] = m.record /\ n + 1 \in 1 .. Len(TakenNow)
  BY <1>8, <1>9, <1>10
<1>12. \A i \in 1 .. Len(TakenNow) : TakenNow[i].event \in 1 .. Len(events)
  BY DEF Routes, InOrder, Sorted
<1> QED
  BY <1>11, <1>12

LEMMA AnswersQuiet ==
  ASSUME NEW tc \in Seq(Answers), NoRelease(tc), NEW s \in Nat
  PROVE  NoRelease(Append(tc, Ack(s)))
<1> PICK a, t2 : a = Ack(s) /\ t2 = Append(tc, a)
  OBVIOUS
<1>1. a \in Answers /\ a.type = "ack"
  BY DEF Ack, Answers
<1>2. /\ Len(t2) = Len(tc) + 1 /\ Len(tc) \in Nat /\ t2[Len(tc) + 1] = a
      /\ \A i \in 1 .. Len(tc) : t2[i] = tc[i]
  BY <1>1, AppendProperties, LenProperties
<1>3. \A i \in 1 .. Len(tc) + 1 : i \in 1 .. Len(tc) \/ i = Len(tc) + 1
  BY <1>2
<1> QED
  BY <1>1, <1>2, <1>3 DEF NoRelease

LEMMA DaemonRoutes ==
  ASSUME Pump, InOrder, Routes, Quiet, DaemonHandles, ~Fault
  PROVE  Routes'
<1> PICK m : m = Head(toDaemon)
  OBVIOUS
<1>1. /\ toDaemon # <<>>
      /\ HandleDuplicate(m) \/ HandleFresh(m)
      /\ UNCHANGED <<oom, events, ordered, decided, pane, active>>
  BY DEF DaemonHandles, HandleRefused, HandleOverflow, inputVars
<1>2. m.seq \in Nat
  <2>1. PumpOk(applied, inflight, seqNext, backlog, toDaemon)
    BY DEF Pump, PumpNow
  <2> QED
    BY <1>1, <2>1, TakeFrameOk DEF FrameOk, Frames
<1>3. toClient' = Append(toClient, Ack(m.seq))
  <2>1. CASE HandleDuplicate(m)
    BY <2>1 DEF HandleDuplicate
  <2>2. CASE HandleFresh(m)
    <3>1. ~Replayed(m)
      BY <2>2 DEF HandleFresh
    <3>2. m.record.event \in 1 .. Len(events)
      BY <1>1, <3>1, AppliedEvent
    <3>3. events[m.record.event].kind # "quit"
      BY <3>2 DEF Quiet
    <3> QED
      BY <2>2, <3>3, Zenon DEF HandleFresh
  <2> QED
    BY <1>1, <2>1, <2>2
<1>4. NoRelease(toClient')
  BY <1>2, <1>3, AnswersQuiet DEF Pump, Routes
<1> QED
  BY <1>1, <1>4 DEF Routes

LEMMA StepRouted ==
  ASSUME Pump, Pump', InOrder, Routed, [Next]_vars
  PROVE  Routed'
<1>1. faults' \in Nat
  <2>1. faults \in Nat
    BY DEF Routed
  <2>2. faults' = faults \/ Fault
    BY DEF Next, Ingress, PressChrome, PressContent, RawInput, FigureKey, PushRaw, PushPress,
       Drain, RetryHead, ProcessPress, ProcessRaw, FlushKeys, FlushStash, OverlayFlush,
       ClientReads, DaemonHandles, HandleDuplicate, HandleFresh, HandleRefused, HandleOverflow,
       NoFault, countVars, vars
  <2> QED
    BY <2>1, <2>2 DEF Fault
<1>2. ASSUME Quiet' PROVE Routes'
  <2>1. Quiet /\ ~Fault
    BY <1>2, QuietBefore
  <2>2. Routes
    BY <2>1 DEF Routed, Routes
  <2>3. CASE Ingress
    BY <2>1, <2>2, <2>3, IngressRoutes
  <2>4. CASE RetryHead
    BY <2>2, <2>4 DEF RetryHead, Routes, inputVars, daemonVars, countVars
  <2>5. CASE ProcessPress
    BY <2>1, <2>2, <2>5, PressRoutes
  <2>6. CASE ProcessRaw
    BY <2>2, <2>6, RawRoutes
  <2>7. CASE FlushKeys
    BY <2>2, <2>7 DEF FlushKeys, InOrder, Routes
  <2>8. CASE FlushStash
    BY <2>2, <2>8 DEF FlushStash, InOrder, Routes
  <2>9. CASE OverlayFlush
    BY <2>2, <2>9 DEF OverlayFlush, Routes, inputVars, daemonVars, countVars
  <2>10. CASE ClientReads
    BY <2>2, <2>10, ClientRoutes
  <2>11. CASE DaemonHandles
    BY <2>1, <2>2, <2>11, DaemonRoutes
  <2>12. CASE UNCHANGED vars
    BY <2>2, <2>12 DEF vars, Routes, inputVars, daemonVars, countVars
  <2> QED
    BY <2>3, <2>4, <2>5, <2>6, <2>7, <2>8, <2>9, <2>10, <2>11, <2>12 DEF Next, Drain
<1> QED
  BY <1>1, <1>2 DEF Routed, Routes

LEMMA InitRouted == Init => Routed
<1> SUFFICES ASSUME Init PROVE Routed
  OBVIOUS
<1>1. /\ events = <<>> /\ ordered = <<>> /\ decided = {} /\ pane = <<>> /\ toClient = <<>>
      /\ faults = 0 /\ oom = FALSE
  BY DEF Init
<1>2. Len(events) = 0 /\ Len(ordered) = 0 /\ Len(toClient) = 0 /\ Len(pane) = 0 /\ pane \in Seq(Nat)
  BY <1>1, EmptySeq
<1>3. Heard(events, ordered, decided, active)
  BY <1>1, <1>2 DEF Heard
<1> QED
  BY <1>1, <1>2, <1>3 DEF Routed, PaneOk, NoRelease

LEMMA LastOfMany ==
  ASSUME NEW e \in Nat, NEW P \in SUBSET (1 .. e - 1), P # {}
  PROVE  \E p \in P : \A q \in P : q <= p
<1> DEFINE T == {e - q : q \in P}
<1>1. T \subseteq Nat /\ T # {}
  OBVIOUS
<1>2. PICK x \in T : \A y \in T : ~(y < x)
  BY <1>1, NatMin
<1>3. PICK p \in P : x = e - p
  BY <1>2
<1>4. \A q \in P : q <= p
  <2> TAKE q \in P
  <2>1. e - q \in T /\ ~(e - q < e - p)
    BY <1>2, <1>3
  <2> QED
    BY <2>1
<1> QED
  BY <1>4

(* Raw bytes that follow a click on the chrome go to the chrome, also when    *)
(* the wire delivered both at once and the click was still unresolved: as     *)
(* long as nothing has failed and nobody has left copy mode, the last press   *)
(* before raw bytes that the pane was given is one that missed the overlay.   *)
THEOREM RawBytesFollowTheClick == Spec => []RawFollowsHit
<1>1. Init => Pump /\ InOrder /\ Routed
  BY InitPump, InitOrder, InitRouted
<1>2. (Pump /\ InOrder /\ Routed) /\ [Next]_vars => (Pump /\ InOrder /\ Routed)'
  <2> SUFFICES ASSUME Pump, InOrder, Routed, [Next]_vars PROVE Pump' /\ InOrder' /\ Routed'
    OBVIOUS
  <2> QED
    BY StepPump, StepOrder, StepRouted
<1>3. Pump /\ Routed => RawFollowsHit
  <2> SUFFICES ASSUME Pump, Routed, faults = 0, \A e \in DOMAIN events : events[e].kind # "quit",
                      NEW i \in DOMAIN pane,
                      events[pane[i]].raw, LastPress(pane[i]) # 0
               PROVE  events[LastPress(pane[i])].kind = "miss"
    BY DEF RawFollowsHit
  <2>1. DOMAIN events = 1 .. Len(events)
    BY LenProperties DEF Pump, InputsOk
  <2>2. PaneOk(events, pane)
    BY <2>1 DEF Routed, Quiet
  <2>3. i \in 1 .. Len(pane)
    BY <2>2, LenProperties DEF PaneOk
  <2> PICK e : e = pane[i]
    OBVIOUS
  <2>4. e \in Nat /\ Aimed(events, e) /\ events[e].raw
    BY <2>2, <2>3 DEF PaneOk
  <2> DEFINE P == {p \in 1 .. e - 1 : events[p].kind \in {"hit", "miss"}}
  <2>5. LastPress(e) = IF P = {} THEN 0 ELSE CHOOSE p \in P : \A q \in P : q <= p
    BY Zenon DEF LastPress
  <2>6. P \in SUBSET (1 .. e - 1)
    OBVIOUS
  <2> HIDE DEF P
  <2>7. P # {}
    BY <2>5
  <2>8. \E p \in P : \A q \in P : q <= p
    BY <2>4, <2>6, <2>7, LastOfMany
  <2> PICK p : p = LastPress(e)
    OBVIOUS
  <2>9. p \in P /\ \A q \in P : q <= p
    BY <2>5, <2>7, <2>8
  <2>10. p \in 1 .. e - 1 /\ events[p].kind \in {"hit", "miss"}
    BY <2>9 DEF P
  <2>11. ASSUME events[p].kind = "hit" PROVE FALSE
    <3>1. PICK m \in 1 .. e - 1 : MissBehind(events, p, m)
      BY <2>4, <2>10, <2>11 DEF Aimed
    <3>2. m \in P /\ p < m
      BY <3>1 DEF P, MissBehind
    <3>3. m <= p
      BY <2>9, <3>2
    <3> QED
      BY <2>10, <3>1, <3>2, <3>3
  <2> QED
    BY <2>10, <2>11
<1> QED
  BY <1>1, <1>2, <1>3, PTL DEF Spec


-----------------------------------------------------------------------------
(* No event is lost or in two places. *)

LEMMA MembersNone == Members(<<>>) = {} /\ Distinct(<<>>)
<1> PICK s : s = <<>>
  OBVIOUS
<1>1. Len(s) = 0 /\ 1 .. 0 = {}
  BY EmptySeq
<1>2. Members(s) = {} /\ Distinct(s)
  BY <1>1 DEF Members, Distinct
<1> QED
  BY <1>2

LEMMA MembersTail ==
  ASSUME NEW s \in Seq(Nat), s # <<>>, Distinct(s)
  PROVE  /\ Members(Tail(s)) = Members(s) \ {Head(s)} /\ Head(s) \in Members(s)
         /\ Distinct(Tail(s))
<1> PICK t, h, n : t = Tail(s) /\ h = Head(s) /\ n = Len(s)
  OBVIOUS
<1>1. /\ n \in Nat \ {0} /\ Len(t) = n - 1 /\ s[1] = h
      /\ \A i \in 1 .. n - 1 : t[i] = s[i + 1]
  BY HeadTail
<1>2. ASSUME NEW i \in 1 .. n, i # 1 PROVE \E j \in 1 .. n - 1 : t[j] = s[i]
  <2>1. i - 1 \in 1 .. n - 1 /\ (i - 1) + 1 = i
    BY <1>1, <1>2
  <2>2. t[i - 1] = s[i]
    BY <1>1, <2>1
  <2> QED
    BY <2>1, <2>2
<1>3. \A i \in 1 .. n - 1 : i + 1 \in 1 .. n /\ i + 1 # 1 /\ 1 \in 1 .. n /\ t[i] = s[i + 1]
  BY <1>1
<1>4. Members(t) \subseteq Members(s) \ {h}
  BY <1>1, <1>3 DEF Members, Distinct
<1>5. Members(s) \ {h} \subseteq Members(t)
  <2> SUFFICES ASSUME NEW i \in 1 .. n, s[i] # h PROVE s[i] \in Members(t)
    BY DEF Members
  <2>1. PICK j \in 1 .. n - 1 : t[j] = s[i]
    BY <1>1, <1>2
  <2> QED
    BY <1>1, <2>1 DEF Members
<1>6. h \in Members(s)
  BY <1>1 DEF Members
<1>7. ASSUME NEW i \in 1 .. n - 1, NEW j \in 1 .. n - 1, t[i] = t[j] PROVE i = j
  <2>1. i + 1 \in 1 .. n /\ j + 1 \in 1 .. n /\ s[i + 1] = s[j + 1]
    BY <1>3, <1>7
  <2>2. i + 1 = j + 1
    BY <2>1 DEF Distinct
  <2> QED
    BY <1>1, <2>2
<1>8. Distinct(t)
  BY <1>1, <1>7 DEF Distinct
<1> QED
  BY <1>4, <1>5, <1>6, <1>8

LEMMA MembersCat ==
  ASSUME NEW s \in Seq(Nat), NEW t \in Seq(Nat)
  PROVE  /\ Members(Cat(s, t)) = Members(s) \cup Members(t)
         /\ Distinct(s) /\ Distinct(t) /\ Members(s) \cap Members(t) = {} => Distinct(Cat(s, t))
<1> PICK c, m, n : c = Cat(s, t) /\ m = Len(s) /\ n = Len(t)
  OBVIOUS
<1>1. /\ c \in Seq(Nat) /\ m \in Nat /\ n \in Nat /\ Len(c) = m + n
      /\ \A i \in 1 .. m + n : c[i] = IF i <= m THEN s[i] ELSE t[i - m]
  BY CatType
<1>2. ASSUME NEW i \in 1 .. m PROVE i \in 1 .. m + n /\ c[i] = s[i]
  <2>a. m \in Nat /\ n \in Nat
    BY <1>1
  <2>1. i \in 1 .. m + n /\ i <= m
    BY <2>a
  <2>2. c[i] = IF i <= m THEN s[i] ELSE t[i - m]
    BY <1>1, <2>1
  <2> QED
    BY <2>1, <2>2
<1>3. ASSUME NEW i \in 1 .. n PROVE \E j \in 1 .. m + n : c[j] = t[i]
  <2>a. m \in Nat /\ n \in Nat
    BY <1>1
  <2>1. i + m \in 1 .. m + n /\ ~(i + m <= m) /\ (i + m) - m = i
    BY <2>a
  <2>2. c[i + m] = t[(i + m) - m]
    BY <1>1, <2>1
  <2> QED
    BY <2>1, <2>2
<1>4. \A i \in 1 .. m + n : \/ i \in 1 .. m /\ c[i] = s[i]
                            \/ i - m \in 1 .. n /\ c[i] = t[i - m] /\ i > m
  <2> SUFFICES ASSUME NEW i \in 1 .. m + n
               PROVE  \/ i \in 1 .. m /\ c[i] = s[i]
                      \/ i - m \in 1 .. n /\ c[i] = t[i - m] /\ i > m
    OBVIOUS
  <2>1. m \in Nat /\ n \in Nat
    BY <1>1
  <2>2. \/ i \in 1 .. m /\ i <= m
        \/ i - m \in 1 .. n /\ ~(i <= m) /\ i > m
    BY <2>1
  <2>3. c[i] = IF i <= m THEN s[i] ELSE t[i - m]
    BY <1>1
  <2> QED
    BY <2>2, <2>3
<1>5. Members(c) \subseteq Members(s) \cup Members(t)
  <2> SUFFICES ASSUME NEW i \in 1 .. m + n
               PROVE  c[i] \in Members(s) \/ c[i] \in Members(t)
    BY <1>1 DEF Members
  <2>1. CASE i \in 1 .. m /\ c[i] = s[i]
    BY <2>1 DEF Members
  <2>2. CASE i - m \in 1 .. n /\ c[i] = t[i - m]
    BY <2>2 DEF Members
  <2> QED
    BY <1>4, <2>1, <2>2
<1>b. \A i \in 1 .. n : \E j \in 1 .. m + n : c[j] = t[i]
  BY <1>3
<1>6. Members(s) \cup Members(t) \subseteq Members(c)
  <2>1. Members(s) \subseteq Members(c)
    BY <1>1, <1>2 DEF Members
  <2>2. Members(t) \subseteq Members(c)
    BY <1>1, <1>b DEF Members
  <2> QED
    BY <2>1, <2>2
<1>7. ASSUME Distinct(s), Distinct(t), Members(s) \cap Members(t) = {} PROVE Distinct(c)
  <2> SUFFICES ASSUME NEW i \in 1 .. m + n, NEW j \in 1 .. m + n, c[i] = c[j] PROVE i = j
    BY <1>1 DEF Distinct
  <2>0. \A k \in 1 .. m, l \in 1 .. n : s[k] # t[l]
    BY <1>7 DEF Members
  <2>1. CASE i \in 1 .. m /\ c[i] = s[i] /\ j \in 1 .. m /\ c[j] = s[j]
    BY <1>7, <2>1 DEF Distinct
  <2>2. CASE i - m \in 1 .. n /\ c[i] = t[i - m] /\ j - m \in 1 .. n /\ c[j] = t[j - m]
    <3>1. i - m = j - m
      BY <1>7, <2>2 DEF Distinct
    <3> QED
      BY <1>1, <3>1
  <2> QED
    BY <1>4, <2>0, <2>1, <2>2
<1> QED
  BY <1>5, <1>6, <1>7

LEMMA MembersAppend ==
  ASSUME NEW s \in Seq(Nat), NEW e \in Nat
  PROVE  /\ Append(s, e) \in Seq(Nat)
         /\ Members(Append(s, e)) = Members(s) \cup {e}
         /\ Distinct(s) /\ e \notin Members(s) => Distinct(Append(s, e))
<1> PICK o : o = <<e>>
  OBVIOUS
<1>1. o \in Seq(Nat) /\ Len(o) = 1 /\ o[1] = e /\ Append(s, e) = Cat(s, o)
  BY One, CatAppend
<1>2. 1 .. 1 = {1}
  OBVIOUS
<1>3. Members(o) = {e} /\ Distinct(o)
  BY <1>1, <1>2 DEF Members, Distinct
<1>4. /\ Members(Cat(s, o)) = Members(s) \cup Members(o)
      /\ Distinct(s) /\ Distinct(o) /\ Members(s) \cap Members(o) = {} => Distinct(Cat(s, o))
  BY <1>1, MembersCat
<1>5. Cat(s, o) \in Seq(Nat)
  BY <1>1, CatType
<1> QED
  BY <1>1, <1>3, <1>4, <1>5

\* Every event up to n is in exactly one of the five sets.
Split(a, b, c, d, k, n) ==
  /\ a \cup b \cup c \cup d \cup k = 1 .. n
  /\ a \cap b = {} /\ a \cap c = {} /\ a \cap d = {} /\ a \cap k = {}
  /\ b \cap c = {} /\ b \cap d = {} /\ b \cap k = {}
  /\ c \cap d = {} /\ c \cap k = {} /\ d \cap k = {}

LEMMA SplitArrives ==
  ASSUME NEW a, NEW b, NEW c, NEW d, NEW k, NEW n \in Nat, Split(a, b, c, d, k, n),
         NEW e, e = n + 1
  PROVE  /\ Split(a \cup {e}, b, c, d, k, n + 1)
         /\ Split(a, b \cup {e}, c, d, k, n + 1)
         /\ Split(a, b, c \cup {e}, d, k, n + 1)
         /\ Split(a, b, c, d \cup {e}, k, n + 1)
         /\ Split(a, b, c, d, k \cup {e}, n + 1)
<1> PICK m, m2 : m = 1 .. n /\ m2 = 1 .. n + 1
  OBVIOUS
<1>1. m2 = m \cup {e} /\ e \notin m
  OBVIOUS
<1>2. e \notin a \cup b \cup c \cup d \cup k
  BY <1>1 DEF Split
<1> QED
  BY <1>1, <1>2 DEF Split

LEMMA SplitMoves ==
  ASSUME NEW a, NEW b, NEW c, NEW d, NEW k, NEW n, Split(a, b, c, d, k, n), NEW e, e \in a
  PROVE  /\ e \notin b /\ e \notin c /\ e \notin d /\ e \notin k
         /\ Split(a \ {e}, b, c, d \cup {e}, k, n)
         /\ Split(a \ {e}, b, c, d, k \cup {e}, n)
<1> PICK m : m = 1 .. n
  OBVIOUS
<1> QED
  BY DEF Split

LEMMA SplitReturns ==
  ASSUME NEW a, NEW b, NEW c, NEW d, NEW k, NEW n, Split(a, b, c, d, k, n), NEW e, e \in b
  PROVE  e \notin a /\ Split(a \cup {e}, b \ {e}, c, d, k, n)
<1> PICK m : m = 1 .. n
  OBVIOUS
<1> QED
  BY DEF Split

LEMMA SplitEmpties ==
  ASSUME NEW a, NEW b, NEW c, NEW d, NEW k, NEW n, Split(a, b, c, d, k, n)
  PROVE  Split(a, b, {}, d \cup c, k, n) /\ Split(a, b, {}, d, k \cup c, n)
<1> PICK m : m = 1 .. n
  OBVIOUS
<1> QED
  BY DEF Split

\* A press is no raw bytes, and only a decided one is shown to the chrome; a
\* key or paste is not stashed nor decided.
Kinds(ev, b, c, d, dc, ch) ==
  \A e \in 1 .. Len(ev) :
    IF ev[e].kind \in {"hit", "miss"}
    THEN e \notin c \cup d /\ (e \in ch => e \in dc)
    ELSE e \notin b \cup dc

Conserved ==
  /\ pane \in Seq(Nat)
  /\ Distinct(ordered) /\ Distinct(stash) /\ Distinct(overflow) /\ Distinct(pane)
  /\ Split(Members(ordered), Members(stash), Members(overflow), Members(pane),
           decided \cup EventsOf(TakenNow), Len(events))
  /\ Kinds(events, Members(stash), Members(overflow), Members(pane), decided,
           EventsOf(TakenNow))
  /\ Whole(TakenNow, Big)

LEMMA TakenType ==
  ASSUME Pump
  PROVE  TakenNow \in Seq(Record) /\ Taken = TakenNow
<1>1. applied \in Seq(Record) /\ Owned \in Seq(Record)
  BY OwnedIs DEF Pump, PumpNow, PumpOk
<1>2. TakenNow \in Seq(Record)
  BY <1>1, CatType DEF TakenNow
<1>3. Taken = TakenNow
  BY Zenon DEF Taken, TakenNow, Cat
<1> QED
  BY <1>2, <1>3

\* Records taken join what the chrome has or will be given.
LEMMA TakenJoins ==
  ASSUME Pump, NEW z \in Seq(Record), Takes(z)
  PROVE  TakenNow' = Cat(TakenNow, z)
<1>1. applied \in Seq(Record) /\ Owned \in Seq(Record)
  BY OwnedIs DEF Pump, PumpNow, PumpOk
<1>2. Cat(Cat(applied, Owned), z) = Cat(applied, Cat(Owned, z))
  BY <1>1, CatAssoc
<1> QED
  BY <1>2 DEF Takes, TakenNow

\* Nothing moves, but records may pass from the bridge to the daemon.
LEMMA ConservedStays ==
  ASSUME Pump, Conserved, DaemonOutcome,
         UNCHANGED <<events, ordered, stash, overflow, pane, decided>>
  PROVE  Conserved'
<1>1. TakenNow' = TakenNow
  BY TakenStays
<1>2. Big' = Big
  BY DEF Big
<1> QED
  BY <1>1, <1>2 DEF Conserved

LEMMA StashConserved ==
  ASSUME Pump, Conserved, FlushStash
  PROVE  Conserved'
<1> PICK e : e = Head(stash)
  OBVIOUS
<1>1. /\ stash # <<>> /\ ordered' = Append(ordered, e) /\ stash' = Tail(stash)
      /\ UNCHANGED <<events, overflow, pane, decided>>
  BY DEF FlushStash, inputVars
<1>2. TakenNow' = TakenNow /\ Big' = Big
  BY <1>1, StashQueue DEF TakenNow, Big
<1>3. ordered \in Seq(Nat) /\ stash \in Seq(Nat) /\ e \in Nat
  BY <1>1, HeadTail DEF Pump, InputsOk
<1> PICK a, b, c, d, k, n : /\ a = Members(ordered) /\ b = Members(stash)
                            /\ c = Members(overflow) /\ d = Members(pane)
                            /\ k = decided \cup EventsOf(TakenNow) /\ n = Len(events)
  OBVIOUS
<1>4. Split(a, b, c, d, k, n) /\ Distinct(stash) /\ Distinct(ordered)
  BY DEF Conserved
<1>5. Members(stash') = b \ {e} /\ e \in b /\ Distinct(stash')
  BY <1>1, <1>3, <1>4, MembersTail
<1>6. e \notin a /\ Split(a \cup {e}, b \ {e}, c, d, k, n)
  BY <1>4, <1>5, SplitReturns
<1>7. Members(ordered') = a \cup {e} /\ Distinct(ordered')
  BY <1>1, <1>3, <1>4, <1>6, MembersAppend
<1>8. Kinds(events, Members(stash'), c, d, decided, EventsOf(TakenNow))
  BY <1>5 DEF Conserved, Kinds
<1> QED
  BY <1>1, <1>2, <1>5, <1>6, <1>7, <1>8 DEF Conserved

LEMMA KeysConserved ==
  ASSUME Pump, Conserved, FlushKeys
  PROVE  Conserved'
<1>1. overflow' = <<>> /\ UNCHANGED <<events, ordered, stash, decided>>
  BY DEF FlushKeys, inputVars
<1>2. Big' = Big /\ Members(overflow') = {} /\ Distinct(overflow')
  BY <1>1, MembersNone DEF Big
<1>3. overflow \in Seq(Nat) /\ pane \in Seq(Nat)
  BY DEF Pump, InputsOk, Conserved
<1> PICK a, b, c, d, k, n : /\ a = Members(ordered) /\ b = Members(stash)
                            /\ c = Members(overflow) /\ d = Members(pane)
                            /\ k = decided \cup EventsOf(TakenNow) /\ n = Len(events)
  OBVIOUS
<1>4. /\ Split(a, b, c, d, k, n) /\ Distinct(overflow) /\ Distinct(pane)
      /\ Kinds(events, b, c, d, decided, EventsOf(TakenNow)) /\ Whole(TakenNow, Big)
  BY DEF Conserved
<1>5. /\ Split(a, b, {}, d \cup c, k, n) /\ Split(a, b, {}, d, k \cup c, n)
      /\ d \cap c = {} /\ c \cap k = {}
  <2>1. Split(a, b, {}, d \cup c, k, n) /\ Split(a, b, {}, d, k \cup c, n)
    BY <1>4, SplitEmpties
  <2>2. d \cap c = {} /\ c \cap k = {}
    BY <1>4 DEF Split
  <2> QED
    BY <2>1, <2>2
<1>6. CASE pane' = Cat(pane, overflow) /\ applied' = applied /\ Owned' = Owned
  <2>1. TakenNow' = TakenNow
    BY <1>6 DEF TakenNow
  <2>2. Members(pane') = d \cup c /\ Distinct(pane')
    BY <1>3, <1>4, <1>5, <1>6, MembersCat
  <2>3. pane' \in Seq(Nat)
    BY <1>3, <1>6, CatType
  <2>4. Kinds(events, b, {}, d \cup c, decided, EventsOf(TakenNow))
    BY <1>4 DEF Kinds
  <2> QED
    BY <1>1, <1>2, <1>4, <1>5, <2>1, <2>2, <2>3, <2>4 DEF Conserved
<1>7. ASSUME pane' = pane, NEW z \in Seq(Record), Takes(z),
             Gathered(z, overflow, Len(overflow))
      PROVE  Conserved'
  <2>1. TakenNow' = Cat(TakenNow, z)
    BY <1>7, TakenJoins
  <2>2. Whole(z, Big) /\ EventsOf(z) = c
    BY <1>7 DEF Gathered, Members
  <2>3. EventsOf(TakenNow') = EventsOf(TakenNow) \cup c
    BY <2>1, <2>2, TakenType, EventsJoin
  <2>4. Whole(TakenNow', Big)
    BY <1>4, <1>5, <2>1, <2>2, WholeJoins
  <2>5. Kinds(events, b, {}, d, decided, EventsOf(TakenNow'))
    BY <1>4, <2>3 DEF Kinds
  <2>6. decided \cup EventsOf(TakenNow') = k \cup c
    BY <2>3
  <2> QED
    BY <1>1, <1>2, <1>3, <1>4, <1>5, <1>7, <2>4, <2>5, <2>6 DEF Conserved
<1> QED
  BY <1>4, <1>6, <1>7, KeysMove

\* The head of the ordered queue is resolved, and shown to the chrome or not.
LEMMA PressConserved ==
  ASSUME Pump, Conserved, ProcessPress
  PROVE  Conserved'
<1> PICK e, p : e = Head(ordered) /\ p = Pieces(e)
  OBVIOUS
<1>1. /\ ordered # <<>> /\ ordered' = Tail(ordered) /\ decided' = decided \cup {e}
      /\ events[e].kind \in {"hit", "miss"}
      /\ UNCHANGED <<events, stash, overflow, pane>>
  BY DEF ProcessPress, inputVars
<1>2. Big' = Big /\ ordered \in Seq(Nat) /\ e \in Nat
  BY <1>1, HeadOrdered DEF Big, Pump, InputsOk
<1> PICK a, b, c, d, ch, n : /\ a = Members(ordered) /\ b = Members(stash)
                             /\ c = Members(overflow) /\ d = Members(pane)
                             /\ ch = EventsOf(TakenNow) /\ n = Len(events)
  OBVIOUS
<1> PICK k : k = decided \cup ch
  OBVIOUS
<1>4. /\ Split(a, b, c, d, k, n) /\ Distinct(ordered)
      /\ Kinds(events, b, c, d, decided, ch) /\ Whole(TakenNow, Big)
  BY DEF Conserved
<1>5. Members(ordered') = a \ {e} /\ e \in a /\ Distinct(ordered')
  BY <1>1, <1>2, <1>4, MembersTail
<1>6. /\ e \notin b /\ e \notin c /\ e \notin d /\ e \notin k
      /\ Split(a \ {e}, b, c, d, k \cup {e}, n)
  <2>1. Split(a, b, c, d, k, n) /\ e \in a
    BY <1>4, <1>5
  <2>2. /\ e \notin b /\ e \notin c /\ e \notin d /\ e \notin k
    BY <2>1 DEF Split
  <2>3. Split(a \ {e}, b, c, d, k \cup {e}, n)
    BY <2>1, SplitMoves
  <2>4. Split(a \ {e}, b, c, d \cup {e}, k, n)
    BY <2>1, SplitMoves
  <2> QED
    BY <2>2, <2>3, <2>4
<1>7. /\ EventsOf(TakenNow') \in {ch, ch \cup {e}} /\ Whole(TakenNow', Big)
  <2>1. CASE TakenNow' = TakenNow
    BY <1>4, <2>1
  <2>2. CASE TakenNow' = Cat(TakenNow, p)
    <3>1. Whole(p, Big) /\ EventsOf(p) = {e}
      BY <1>2, PiecesWhole
    <3>2. Whole(TakenNow', Big)
      BY <1>4, <1>6, <2>2, <3>1, WholeJoins
    <3>3. EventsOf(TakenNow') = ch \cup {e}
      BY <2>2, <3>1, TakenType, EventsJoin DEF Whole
    <3> QED
      BY <3>2, <3>3
  <2> QED
    BY <2>1, <2>2, PressQueue, TakenGrows
<1>8. decided' \cup EventsOf(TakenNow') = k \cup {e}
  BY <1>1, <1>7
<1>9. Kinds(events, b, c, d, decided', EventsOf(TakenNow'))
  BY <1>1, <1>4, <1>6, <1>7 DEF Kinds
<1> QED
  BY <1>1, <1>2, <1>5, <1>6, <1>7, <1>8, <1>9 DEF Conserved

\* The head of the ordered queue goes to the chrome or to the pane.
LEMMA RawConserved ==
  ASSUME Pump, Conserved, ProcessRaw
  PROVE  Conserved'
<1> PICK e, p : e = Head(ordered) /\ p = Pieces(e)
  OBVIOUS
<1>1. /\ ordered # <<>> /\ ordered' = Tail(ordered)
      /\ events[e].kind \notin {"hit", "miss"}
      /\ UNCHANGED <<events, stash, overflow, decided>>
  BY DEF ProcessRaw, inputVars
<1>2. Big' = Big /\ ordered \in Seq(Nat) /\ e \in Nat /\ pane \in Seq(Nat)
  BY <1>1, HeadOrdered DEF Big, Pump, InputsOk, Conserved
<1> PICK a, b, c, d, ch, n : /\ a = Members(ordered) /\ b = Members(stash)
                             /\ c = Members(overflow) /\ d = Members(pane)
                             /\ ch = EventsOf(TakenNow) /\ n = Len(events)
  OBVIOUS
<1> PICK k : k = decided \cup ch
  OBVIOUS
<1>4. /\ Split(a, b, c, d, k, n) /\ Distinct(ordered) /\ Distinct(pane)
      /\ Kinds(events, b, c, d, decided, ch) /\ Whole(TakenNow, Big)
  BY DEF Conserved
<1>5. Members(ordered') = a \ {e} /\ e \in a /\ Distinct(ordered')
  BY <1>1, <1>2, <1>4, MembersTail
<1>6. /\ e \notin b /\ e \notin c /\ e \notin d /\ e \notin k
      /\ Split(a \ {e}, b, c, d, k \cup {e}, n)
      /\ Split(a \ {e}, b, c, d \cup {e}, k, n)
  <2>1. Split(a, b, c, d, k, n) /\ e \in a
    BY <1>4, <1>5
  <2>2. /\ e \notin b /\ e \notin c /\ e \notin d /\ e \notin k
    BY <2>1 DEF Split
  <2>3. Split(a \ {e}, b, c, d, k \cup {e}, n)
    BY <2>1, SplitMoves
  <2>4. Split(a \ {e}, b, c, d \cup {e}, k, n)
    BY <2>1, SplitMoves
  <2> QED
    BY <2>2, <2>3, <2>4
<1>7. CASE pane' = pane /\ Takes(p) /\ p \in Seq(Record)
  <2>1. TakenNow' = Cat(TakenNow, p)
    BY <1>7, TakenJoins
  <2>2. Whole(p, Big) /\ EventsOf(p) = {e}
    BY <1>2, PiecesWhole
  <2>3. Whole(TakenNow', Big)
    BY <1>4, <1>6, <2>1, <2>2, WholeJoins
  <2>4. EventsOf(TakenNow') = ch \cup {e}
    BY <1>7, <2>1, <2>2, TakenType, EventsJoin
  <2>5. decided \cup EventsOf(TakenNow') = k \cup {e}
    BY <2>4
  <2>6. Kinds(events, b, c, d, decided, EventsOf(TakenNow'))
    BY <1>1, <1>4, <2>4 DEF Kinds
  <2> QED
    BY <1>1, <1>2, <1>4, <1>5, <1>6, <1>7, <2>3, <2>5, <2>6 DEF Conserved
<1>8. CASE pane' = Cat(pane, <<e>>) /\ applied' = applied /\ Owned' = Owned
  <2>1. TakenNow' = TakenNow
    BY <1>8 DEF TakenNow
  <2>2. pane' = Append(pane, e)
    BY <1>2, <1>8, CatAppend
  <2>3. pane' \in Seq(Nat) /\ Members(pane') = d \cup {e} /\ Distinct(pane')
    BY <1>2, <1>4, <1>6, <2>2, MembersAppend
  <2>4. Kinds(events, b, c, d \cup {e}, decided, ch)
    BY <1>1, <1>4 DEF Kinds
  <2> QED
    BY <1>1, <1>2, <1>4, <1>5, <1>6, <2>1, <2>3, <2>4 DEF Conserved
<1> QED
  BY <1>7, <1>8, RawMove

\* An event that arrives joins one place.
LEMMA IngressMoves ==
  ASSUME Ingress
  PROVE  \E kind \in {"hit", "miss", "paste", "key", "quit"}, raw \in BOOLEAN :
           /\ Arrive(kind, raw)
           /\ \/ /\ kind \in {"hit", "miss"} /\ overflow' = overflow /\ pane' = pane
                 /\ \/ ordered' = Append(ordered, New) /\ stash' = stash /\ decided' = decided
                    \/ ordered' = ordered /\ stash' = Append(stash, New) /\ decided' = decided
                    \/ ordered' = ordered /\ stash' = stash /\ decided' = decided \cup {New}
              \/ /\ kind \notin {"hit", "miss"} /\ stash' = stash /\ decided' = decided
                 /\ \/ ordered' = Append(ordered, New) /\ overflow' = overflow /\ pane' = pane
                    \/ ordered' = ordered /\ overflow' = Append(overflow, New) /\ pane' = pane
                    \/ ordered' = ordered /\ overflow' = overflow /\ pane' = Append(pane, New)
<1>1. CASE PressChrome
  BY <1>1 DEF PressChrome, PushPress
<1>2. CASE PressContent
  BY <1>2 DEF PressContent, PushPress
<1>3. CASE RawInput
  BY <1>3 DEF RawInput, PushRaw
<1>4. CASE FigureKey
  BY <1>4 DEF FigureKey, PushRaw
<1> QED
  BY <1>1, <1>2, <1>3, <1>4 DEF Ingress

LEMMA WholeSame ==
  ASSUME NEW tk, NEW big, NEW big2, Whole(tk, big),
         \A e \in EventsOf(tk) : e \in big <=> e \in big2
  PROVE  Whole(tk, big2)
<1>1. \A i \in 1 .. Len(tk) : tk[i].event \in big <=> tk[i].event \in big2
  BY DEF EventsOf
<1> QED
  BY <1>1 DEF Whole

LEMMA KindsArrives ==
  ASSUME NEW ev \in Seq(Event), NEW w \in Event, NEW b, NEW c, NEW d, NEW dc, NEW ch,
         Kinds(ev, b, c, d, dc, ch), NEW e, e = Len(ev) + 1,
         e \notin b, e \notin c, e \notin d, e \notin dc, e \notin ch
  PROVE  /\ Kinds(Append(ev, w), b, c, d, dc, ch)
         /\ w.kind \in {"hit", "miss"} =>
              /\ Kinds(Append(ev, w), b \cup {e}, c, d, dc, ch)
              /\ Kinds(Append(ev, w), b, c, d, dc \cup {e}, ch)
         /\ w.kind \notin {"hit", "miss"} =>
              /\ Kinds(Append(ev, w), b, c \cup {e}, d, dc, ch)
              /\ Kinds(Append(ev, w), b, c, d \cup {e}, dc, ch)
<1> PICK ev2, n : ev2 = Append(ev, w) /\ n = Len(ev)
  OBVIOUS
<1>1. /\ n \in Nat /\ Len(ev2) = n + 1 /\ ev2[n + 1] = w
      /\ \A h \in 1 .. n : ev2[h] = ev[h]
  BY AppendProperties, LenProperties
<1>2. \A h \in 1 .. Len(ev2) : \/ h \in 1 .. n /\ ev2[h] = ev[h] /\ h # e
                               \/ h = e /\ ev2[h] = w
  BY <1>1
<1> QED
  BY <1>2 DEF Kinds

LEMMA IngressConserved ==
  ASSUME Pump, Conserved, Ingress
  PROVE  Conserved'
<1> PICK kind \in {"hit", "miss", "paste", "key", "quit"}, raw \in BOOLEAN :
           /\ Arrive(kind, raw)
           /\ \/ /\ kind \in {"hit", "miss"} /\ overflow' = overflow /\ pane' = pane
                 /\ \/ ordered' = Append(ordered, New) /\ stash' = stash /\ decided' = decided
                    \/ ordered' = ordered /\ stash' = Append(stash, New) /\ decided' = decided
                    \/ ordered' = ordered /\ stash' = stash /\ decided' = decided \cup {New}
              \/ /\ kind \notin {"hit", "miss"} /\ stash' = stash /\ decided' = decided
                 /\ \/ ordered' = Append(ordered, New) /\ overflow' = overflow /\ pane' = pane
                    \/ ordered' = ordered /\ overflow' = Append(overflow, New) /\ pane' = pane
                    \/ ordered' = ordered /\ overflow' = overflow /\ pane' = Append(pane, New)
  BY IngressMoves
<1> PICK w, e, n : w = [kind |-> kind, raw |-> raw] /\ e = New /\ n = Len(events)
  OBVIOUS
<1>1. /\ w \in Event /\ events' = Append(events, w) /\ events \in Seq(Event)
      /\ w.kind = kind /\ e = n + 1
  BY DEF Arrive, Event, Pump, InputsOk, New
<1>2. /\ n \in Nat /\ e \in Nat /\ Len(events') = n + 1
      /\ events'[e] = w /\ \A h \in 1 .. n : events'[h] = events[h]
  BY <1>1, AppendProperties, LenProperties
<1>3. TakenNow' = TakenNow
  BY IngressQueue DEF TakenNow
<1>4. /\ ordered \in Seq(Nat) /\ stash \in Seq(Nat) /\ overflow \in Seq(Nat) /\ pane \in Seq(Nat)
      /\ Distinct(ordered) /\ Distinct(stash) /\ Distinct(overflow) /\ Distinct(pane)
  BY DEF Pump, InputsOk, Conserved
<1> PICK a, b, c, d, dc, ch : /\ a = Members(ordered) /\ b = Members(stash)
                              /\ c = Members(overflow) /\ d = Members(pane)
                              /\ dc = decided /\ ch = EventsOf(TakenNow)
  OBVIOUS
<1> PICK k : k = dc \cup ch
  OBVIOUS
<1>5. Split(a, b, c, d, k, n) /\ Kinds(events, b, c, d, dc, ch) /\ Whole(TakenNow, Big)
  BY DEF Conserved
<1>6. /\ e \notin a /\ e \notin b /\ e \notin c /\ e \notin d /\ e \notin dc /\ e \notin ch
      /\ Split(a \cup {e}, b, c, d, k, n + 1)
      /\ Split(a, b \cup {e}, c, d, k, n + 1)
      /\ Split(a, b, c \cup {e}, d, k, n + 1)
      /\ Split(a, b, c, d \cup {e}, k, n + 1)
      /\ Split(a, b, c, d, k \cup {e}, n + 1)
  <2>1. n \in Nat /\ e = n + 1 /\ Split(a, b, c, d, k, n)
    BY <1>1, <1>2, <1>5
  <2>2. e \notin a /\ e \notin b /\ e \notin c /\ e \notin d /\ e \notin k
    BY <2>1 DEF Split
  <2>3. Split(a \cup {e}, b, c, d, k, n + 1)
    BY <2>1, SplitArrives
  <2>4. Split(a, b \cup {e}, c, d, k, n + 1)
    BY <2>1, SplitArrives
  <2>5. Split(a, b, c \cup {e}, d, k, n + 1)
    BY <2>1, SplitArrives
  <2>6. Split(a, b, c, d \cup {e}, k, n + 1)
    BY <2>1, SplitArrives
  <2>7. Split(a, b, c, d, k \cup {e}, n + 1)
    BY <2>1, SplitArrives
  <2> QED
    BY <2>2, <2>3, <2>4, <2>5, <2>6, <2>7
<1>7. Whole(TakenNow', Big')
  <2>1. ch \subseteq 1 .. n
    BY <1>5 DEF Split
  <2>2. \A h \in EventsOf(TakenNow) : h \in Big <=> h \in Big'
    BY <1>2, <2>1 DEF Big
  <2>3. Whole(TakenNow, Big')
    BY <1>5, <2>2, WholeSame
  <2> QED
    BY <1>3, <2>3
<1>8. /\ Kinds(events', b, c, d, dc, ch)
      /\ kind \in {"hit", "miss"} => /\ Kinds(events', b \cup {e}, c, d, dc, ch)
                                     /\ Kinds(events', b, c, d, dc \cup {e}, ch)
      /\ kind \notin {"hit", "miss"} => /\ Kinds(events', b, c \cup {e}, d, dc, ch)
                                        /\ Kinds(events', b, c, d \cup {e}, dc, ch)
  BY <1>1, <1>5, <1>6, KindsArrives
<1>9. /\ Append(ordered, e) \in Seq(Nat) /\ Append(stash, e) \in Seq(Nat)
      /\ Append(overflow, e) \in Seq(Nat) /\ Append(pane, e) \in Seq(Nat)
      /\ Members(Append(ordered, e)) = a \cup {e} /\ Distinct(Append(ordered, e))
      /\ Members(Append(stash, e)) = b \cup {e} /\ Distinct(Append(stash, e))
      /\ Members(Append(overflow, e)) = c \cup {e} /\ Distinct(Append(overflow, e))
      /\ Members(Append(pane, e)) = d \cup {e} /\ Distinct(Append(pane, e))
  BY <1>2, <1>4, <1>6, MembersAppend
<1>10. EventsOf(TakenNow') = ch /\ Len(events') = n + 1
  BY <1>2, <1>3
<1>11. CASE ordered' = Append(ordered, e) /\ UNCHANGED <<stash, overflow, pane, decided>>
  BY <1>4, <1>6, <1>7, <1>8, <1>9, <1>10, <1>11 DEF Conserved
<1>12. CASE /\ kind \in {"hit", "miss"}
            /\ stash' = Append(stash, e) /\ UNCHANGED <<ordered, overflow, pane, decided>>
  BY <1>4, <1>6, <1>7, <1>8, <1>9, <1>10, <1>12 DEF Conserved
<1>13. CASE /\ kind \in {"hit", "miss"}
            /\ decided' = decided \cup {e} /\ UNCHANGED <<ordered, overflow, pane, stash>>
  <2>1. decided' \cup EventsOf(TakenNow') = k \cup {e}
    BY <1>10, <1>13
  <2> QED
    BY <1>4, <1>6, <1>7, <1>8, <1>10, <1>13, <2>1 DEF Conserved
<1>14. CASE /\ kind \notin {"hit", "miss"}
            /\ overflow' = Append(overflow, e) /\ UNCHANGED <<ordered, stash, pane, decided>>
  BY <1>4, <1>6, <1>7, <1>8, <1>9, <1>10, <1>14 DEF Conserved
<1>15. CASE /\ kind \notin {"hit", "miss"}
            /\ pane' = Append(pane, e) /\ UNCHANGED <<ordered, stash, overflow, decided>>
  BY <1>4, <1>6, <1>7, <1>8, <1>9, <1>10, <1>15 DEF Conserved
<1> QED
  BY <1>11, <1>12, <1>13, <1>14, <1>15

LEMMA StepConserved ==
  ASSUME Pump, Conserved, [Next]_vars
  PROVE  Conserved'
<1>1. CASE Ingress
  BY <1>1, IngressConserved
<1>2. CASE RetryHead
  <2>1. DaemonOutcome
    BY <1>2, RetryQueue DEF DaemonOutcome
  <2> QED
    BY <1>2, <2>1, ConservedStays DEF RetryHead, inputVars
<1>3. CASE ProcessPress
  BY <1>3, PressConserved
<1>4. CASE ProcessRaw
  BY <1>4, RawConserved
<1>5. CASE FlushKeys
  BY <1>5, KeysConserved
<1>6. CASE FlushStash
  BY <1>6, StashConserved
<1>7. CASE OverlayFlush
  <2>1. DaemonOutcome
    BY <1>7, FlushQueue DEF DaemonOutcome
  <2> QED
    BY <1>7, <2>1, ConservedStays DEF OverlayFlush, inputVars
<1>8. CASE ClientReads
  <2>1. DaemonOutcome
    BY <1>8, ClientQueue DEF DaemonOutcome
  <2> QED
    BY <1>8, <2>1, ConservedStays DEF ClientReads, inputVars
<1>9. CASE DaemonHandles
  <2>1. DaemonOutcome
    BY <1>9, DaemonQueue
  <2> QED
    BY <1>9, <2>1, ConservedStays DEF DaemonHandles, inputVars
<1>10. CASE UNCHANGED vars
  <2>1. /\ InputsOk'
        /\ UNCHANGED <<retry, applied, appliedSeq, acked, toClient, backlog, pumpVars>>
    BY <1>10 DEF vars, Pump, InputsOk, inputVars, pumpVars, clientVars, daemonVars
  <2>2. DaemonOutcome
    BY <2>1, StillQueue DEF DaemonOutcome
  <2> QED
    BY <1>10, <2>2, ConservedStays DEF vars, inputVars
<1> QED
  BY <1>1, <1>2, <1>3, <1>4, <1>5, <1>6, <1>7, <1>8, <1>9, <1>10 DEF Next, Drain

LEMMA InitConserved == Init => Conserved
<1> SUFFICES ASSUME Init PROVE Conserved
  OBVIOUS
<1> PICK e : e = <<>>
  OBVIOUS
<1>1. \A S : e \in Seq(S) /\ Len(e) = 0
  BY EmptySeq
<1>2. /\ Owned = e /\ applied = e /\ ordered = e /\ stash = e /\ overflow = e /\ events = e
      /\ pane = e /\ decided = {}
  BY InitPump DEF Init
<1>3. TakenNow = e
  <2>1. e \in Seq(Nat)
    BY <1>1
  <2>2. Cat(e, <<>>) = e
    BY <2>1, CatEmpty
  <2> QED
    BY <1>2, <2>2 DEF TakenNow
<1>4. Members(e) = {} /\ Distinct(e)
  BY MembersNone
<1>5. 1 .. 0 = {}
  OBVIOUS
<1>6. EventsOf(e) = {} /\ Whole(e, Big)
  BY <1>1, <1>5 DEF EventsOf, Whole
<1>7. Split({}, {}, {}, {}, {} \cup {}, 0)
  BY <1>5 DEF Split
<1>8. Kinds(e, {}, {}, {}, {}, {})
  BY <1>1, <1>5 DEF Kinds
<1> QED
  BY <1>1, <1>2, <1>3, <1>4, <1>6, <1>7, <1>8 DEF Conserved

(* Every input event is in exactly one place, once, and what the chrome is     *)
(* given of an event it is given whole and in order: full queues, refused      *)
(* allocations, held pieces and resent records lose and double nothing.        *)
THEOREM NoInputIsLost == Spec => []InputConserved
<1>1. Init => Pump /\ Conserved
  BY InitPump, InitConserved
<1>2. (Pump /\ Conserved) /\ [Next]_vars => (Pump /\ Conserved)'
  <2> SUFFICES ASSUME Pump, Conserved, [Next]_vars PROVE Pump' /\ Conserved'
    OBVIOUS
  <2> QED
    BY StepPump, StepConserved
<1>3. Pump /\ Conserved => InputConserved
  <2> SUFFICES ASSUME Pump, Conserved PROVE InputConserved
    OBVIOUS
  <2> PICK tk, n : tk = TakenNow /\ n = Len(events)
    OBVIOUS
  <2>1. Taken = tk /\ tk \in Seq(Record)
    BY TakenType
  <2>2. /\ ordered \in Seq(Nat) /\ stash \in Seq(Nat) /\ overflow \in Seq(Nat)
        /\ pane \in Seq(Nat) /\ events \in Seq(Event)
    BY DEF Conserved, Pump, InputsOk, Event
  <2>3. DOMAIN events = 1 .. n /\ DOMAIN tk = 1 .. Len(tk)
    BY <2>1, <2>2, LenProperties
  <2>4. \A s \in {ordered, stash, overflow, pane} :
           DOMAIN s = 1 .. Len(s) /\ Range(s) = Members(s)
    BY <2>2, LenProperties DEF Range, Members
  <2>5. Chrome = EventsOf(tk)
    BY <2>1, <2>3 DEF Chrome, EventsOf
  <2>6. \A s \in {ordered, stash, overflow, pane} : IsInjective(s)
    BY <2>4 DEF IsInjective, Conserved, Distinct
  <2> PICK a, b, c, d, k : /\ a = Members(ordered) /\ b = Members(stash)
                           /\ c = Members(overflow) /\ d = Members(pane)
                           /\ k = decided \cup EventsOf(tk)
    OBVIOUS
  <2>7. Places = <<a, b, c, d, k>>
    BY <2>4, <2>5 DEF Places
  <2>8. Split(a, b, c, d, k, n)
    BY DEF Conserved
  <2>9. UNION Range(Places) = DOMAIN events
    <3>1. Range(Places) = {a, b, c, d, k}
      BY <2>7 DEF Range
    <3>2. UNION {a, b, c, d, k} = a \cup b \cup c \cup d \cup k
      OBVIOUS
    <3> QED
      BY <2>3, <2>8, <3>1, <3>2 DEF Split
  <2>10. \A i, j \in DOMAIN Places : i # j => Places[i] \cap Places[j] = {}
    <3>1. /\ DOMAIN Places = {1, 2, 3, 4, 5} /\ Places[1] = a /\ Places[2] = b
          /\ Places[3] = c /\ Places[4] = d /\ Places[5] = k
      BY <2>7
    <3> QED
      BY <2>8, <3>1 DEF Split
  <2>11. ASSUME NEW e \in DOMAIN events
         PROVE  IF events[e].kind \in {"hit", "miss"}
                THEN e \notin Range(overflow) \cup Range(pane) /\ (e \in Chrome => e \in decided)
                ELSE e \notin Range(stash) \cup decided
    <3>1. Kinds(events, b, c, d, decided, Chrome)
      BY <2>5 DEF Conserved
    <3>2. Range(overflow) = c /\ Range(pane) = d /\ Range(stash) = b
      BY <2>4
    <3> QED
      BY <2>3, <3>1, <3>2 DEF Kinds
  <2>12. Whole(tk, Big)
    BY DEF Conserved
  <2>13. ASSUME NEW e \in Chrome
         PROVE  {r \in Range(Taken) : r.event = e} = Range(Pieces(e))
    <3> PICK x, y : x = [event |-> e, piece |-> 1] /\ y = [event |-> e, piece |-> 2]
      OBVIOUS
    <3>1. PICK i \in 1 .. Len(tk) : tk[i].event = e
      BY <2>5 DEF EventsOf
    <3>2. e \in Nat /\ \A j \in 1 .. Len(tk) : tk[j] \in Record
      <4>1. \A j \in 1 .. Len(tk) : tk[j] \in Record
        BY <2>1, ElementOfSeq
      <4> QED
        BY <3>1, <4>1 DEF Record
    <3>3. \A r \in Record : r.event = e =>
             (r.piece = 1 /\ r = x) \/ (r.piece = 2 /\ r = y)
      BY DEF Record
    <3>4. Range(Pieces(e)) = IF e \in Big THEN {x, y} ELSE {x}
      <4>1. Pieces(e) = IF e \in Big THEN <<x, y>> ELSE <<x>>
        BY <3>2, Zenon DEF Pieces, Big
      <4>2. Range(<<x, y>>) = {x, y} /\ Range(<<x>>) = {x}
        BY DEF Range
      <4> QED
        BY <4>1, <4>2
    <3>a. \A p \in {1, 2} : p = 1 \/ e \in Big =>
             \E j \in 1 .. Len(tk) : tk[j].event = e /\ tk[j].piece = p
      BY <2>12, <3>1 DEF Whole
    <3>b. \A j \in 1 .. Len(tk) : tk[j].piece = 2 => tk[j].event \in Big
      BY <2>12 DEF Whole
    <3>c. \A j \in 1 .. Len(tk) : tk[j].event = e =>
             \/ tk[j].piece = 1 /\ tk[j] = x
             \/ tk[j].piece = 2 /\ tk[j] = y
      BY <3>2, <3>3
    <3>5. \E j \in 1 .. Len(tk) : tk[j] = x
      <4>1. PICK j \in 1 .. Len(tk) : tk[j].event = e /\ tk[j].piece = 1
        BY <3>a
      <4> QED
        BY <3>c, <4>1
    <3>6. e \in Big => \E j \in 1 .. Len(tk) : tk[j] = y
      <4> SUFFICES ASSUME e \in Big PROVE \E j \in 1 .. Len(tk) : tk[j] = y
        OBVIOUS
      <4>1. PICK j \in 1 .. Len(tk) : tk[j].event = e /\ tk[j].piece = 2
        BY <3>a
      <4> QED
        BY <3>c, <4>1
    <3>7. \A j \in 1 .. Len(tk) : tk[j].event = e => tk[j] = x \/ (tk[j] = y /\ e \in Big)
      BY <3>b, <3>c
    <3>8. Range(Taken) = {tk[j] : j \in 1 .. Len(tk)} /\ x.event = e /\ y.event = e
      BY <2>1, <2>3 DEF Range
    <3> QED
      BY <3>4, <3>5, <3>6, <3>7, <3>8
  <2>14. \A i, j \in DOMAIN Taken :
           i < j /\ Taken[i].event = Taken[j].event => Taken[i].piece < Taken[j].piece
    <3>1. \A i, j \in 1 .. Len(tk) :
             i < j /\ tk[i].event = tk[j].event => tk[i].piece < tk[j].piece
      BY <2>12 DEF Whole
    <3> QED
      BY <2>1, <2>3, <3>1
  <2> QED
    BY <2>6, <2>9, <2>10, <2>11, <2>13, <2>14 DEF InputConserved
<1> QED
  BY <1>1, <1>2, <1>3, PTL DEF Spec

=============================================================================
