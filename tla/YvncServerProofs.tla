-------------------------- MODULE YvncServerProofs --------------------------
(***************************************************************************)
(* Theorems about YvncServer, for any number of viewers, sizes, tiles and  *)
(* bounds.  What a viewer shows, once the frame on its way has arrived,    *)
(* differs from the frame last read back only in tiles the viewer is owed, *)
(* or will be when the readback lands (Current); whoever is owed something *)
(* waits for an ACK, a render or a readback (Attended); and the frame read *)
(* back is the screen, or a render is due (Caught).                        *)
(***************************************************************************)
EXTENDS YvncServer, TLAPS

Colours  == Pixels \cup {Black}
Pictures == {P \in [w : Sizes, pix : [Tiles -> Colours]] :
               \A t \in Tiles \ Grid[P.w] : P.pix[t] = Black}
Contexts == [on : BOOLEAN, need : BOOLEAN, owed : SUBSET Tiles, awaiting : BOOLEAN,
             aseq : Nat, next : Nat]
Engines  == [busy : BOOLEAN, again : BOOLEAN, force : BOOLEAN, has : BOOLEAN,
             base : Pictures \cup {Cleared(NoSize)}, dirty : SUBSET Tiles]

Typed ==
  /\ screen \in Pictures
  /\ pending \in BOOLEAN /\ failed \in BOOLEAN
  /\ engine \in Engines
  /\ server \in [w : Sizes \cup {NoSize}, force : BOOLEAN]
  /\ ctx \in [Viewers -> Contexts]
  /\ link \in [Viewers -> {"none", "open", "gone"}]
  /\ toViewer = [c \in Viewers |-> toViewer[c]]
  /\ acks \in [Viewers -> Seq(Nat)]
  /\ pic \in [Viewers -> Pictures]
  /\ stuck \subseteq Viewers

\* A frame carries tiles of its grid, perhaps not all that it announces.
Frame(f) ==
  /\ f.w \in Sizes /\ f.tiles \subseteq Grid[f.w] /\ DOMAIN f.pix \subseteq f.tiles
  /\ \A t \in DOMAIN f.pix : f.pix[t] \in Colours

\* The connection of a viewer: its context K, the link l, the frames q and ACKs a
\* under way, and whether it is stuck.
Paced(K, l, q, a, hung) ==
  /\ K.on <=> l # "none"
  /\ l = "none" => a = <<>>
  /\ l # "open" => q = <<>> /\ ~hung
  /\ K.aseq < K.next /\ \A i \in DOMAIN a : a[i] < K.next
  /\ q # <<>> => /\ q = <<q[1]>> /\ Frame(q[1])
                 /\ K.awaiting /\ q[1].seq = K.aseq
                 /\ \A i \in DOMAIN a : a[i] # K.aseq
  /\ l = "open" /\ ~hung /\ K.awaiting => q # <<>> \/ \E i \in DOMAIN a : a[i] = K.aseq

PacedAt(c) == Paced(ctx[c], link[c], toViewer[c], acks[c], c \in stuck)

\* What the engine read back: its grid is the server's when it rests.
Read ==
  /\ engine.busy => engine.base.w \in Sizes /\ engine.dirty \subseteq Grid[engine.base.w]
  /\ ~engine.busy /\ ~failed => engine.base.w = server.w

Caught == Watched /\ ~pending => engine.base = screen \/ (engine.busy /\ engine.again)

Owes(c) == ctx[c].owed # {} => server.w \in Sizes /\ ctx[c].owed \subseteq Grid[server.w]

Attended(c) ==
  ctx[c].on /\ (ctx[c].need \/ ctx[c].owed # {}) =>
    ctx[c].awaiting \/ pending \/ engine.busy \/ failed

\* The picture of a viewer once the frame under way is there.
Coming(q, P) == IF q = <<>> THEN P ELSE Shown(P, q[1])
Intact(q)    == q # <<>> => DOMAIN q[1].pix = q[1].tiles

\* Picture P, owed the tiles of O, will show base B once the tiles of D are folded in.
Nearly(P, O, B, D) ==
  \A t \in Grid[B.w] \ O : P.w = B.w /\ (P.pix[t] = B.pix[t] \/ t \in D)

Current(c) ==
  ~failed /\ Follows(c) /\ Intact(toViewer[c]) =>
    \/ ctx[c].need
    \/ server.w # engine.base.w
    \/ Nearly(Coming(toViewer[c], pic[c]), ctx[c].owed, engine.base,
              IF engine.busy THEN engine.dirty ELSE {})

IInv ==
  /\ Typed /\ Read /\ Caught
  /\ \A c \in Viewers : PacedAt(c) /\ Owes(c) /\ Attended(c) /\ Current(c)

-----------------------------------------------------------------------------
(* Pictures *)

LEMMA PaintedPicture ==
  /\ \A w \in Sizes, p \in Pixels : Painted(w, p) \in Pictures /\ Painted(w, p).w = w
  /\ \A w \in Sizes : Cleared(w) \in Pictures
BY DEF Painted, Cleared, Pictures, Colours

LEMMA DrawnPicture ==
  ASSUME NEW P \in Pictures, NEW t \in Grid[P.w], NEW p \in Pixels
  PROVE  [P EXCEPT !.pix[t] = p] \in Pictures
BY GridAssumption DEF Pictures, Colours

LEMMA ShownPicture ==
  ASSUME NEW P \in Pictures, NEW f, Frame(f)
  PROVE  /\ Shown(P, f) \in Pictures /\ Shown(P, f).w = f.w
         /\ \A t \in Tiles : Shown(P, f).pix[t] =
              IF t \in DOMAIN f.pix THEN f.pix[t] ELSE IF P.w = f.w THEN P.pix[t] ELSE Black
<1>1. Shown(P, f) = [w |-> f.w, pix |-> Shown(P, f).pix]
  BY DEF Shown
<1>2. \A t \in Tiles : Shown(P, f).pix[t] =
        IF t \in DOMAIN f.pix THEN f.pix[t] ELSE IF P.w = f.w THEN P.pix[t] ELSE Black
  BY DEF Shown
<1>3. Shown(P, f).pix \in [Tiles -> Colours]
  BY DEF Shown, Frame, Pictures, Colours
<1>4. \A t \in Tiles \ Grid[f.w] : Shown(P, f).pix[t] = Black
  BY <1>2 DEF Frame, Pictures
<1> QED
  BY <1>1, <1>2, <1>3, <1>4 DEF Frame, Pictures

LEMMA SamePicture ==
  ASSUME NEW P \in Pictures, NEW B \in Pictures, P.w = B.w, \A t \in Grid[B.w] : P.pix[t] = B.pix[t]
  PROVE  P = B
<1>1. P = [w |-> P.w, pix |-> P.pix] /\ B = [w |-> B.w, pix |-> B.pix]
  BY DEF Pictures
<1>2. P.pix \in [Tiles -> Colours] /\ B.pix \in [Tiles -> Colours]
  BY DEF Pictures
<1>3. \A t \in Tiles : P.pix[t] = B.pix[t]
  BY DEF Pictures
<1>4. P.pix = B.pix
  BY <1>2, <1>3
<1> QED
  BY <1>1, <1>4

-----------------------------------------------------------------------------
(* The steps *)

\* Nothing is under way to a viewer that has no connection.
LEMMA Unconnected ==
  ASSUME NEW h, ~h
  PROVE  /\ Paced(NoCtx, "none", <<>>, <<>>, h)
         /\ NoCtx \in Contexts /\ ~NoCtx.on /\ NoCtx.owed = {}
<1>1. NoCtx.on = FALSE /\ NoCtx.awaiting = FALSE /\ NoCtx.aseq < NoCtx.next
  BY DEF NoCtx
<1>2. DOMAIN <<>> = {}
  OBVIOUS
<1>3. NoCtx \in Contexts /\ NoCtx.owed = {}
  BY DEF NoCtx, Contexts
<1> QED
  BY <1>1, <1>2, <1>3 DEF Paced

LEMMA InitInv == ASSUME Init PROVE IInv
<1>1. Typed
  <2>1. engine \in Engines /\ server \in [w : Sizes \cup {NoSize}, force : BOOLEAN]
    BY DEF Init, Engines
  <2>2. /\ screen \in Pictures /\ ctx \in [Viewers -> Contexts]
        /\ pic \in [Viewers -> Pictures]
    BY PaintedPicture, SizesAssumption DEF Init, NoCtx, Contexts
  <2>3. acks \in [Viewers -> Seq(Nat)]
    BY DEF Init
  <2>4. toViewer = [c \in Viewers |-> toViewer[c]]
    BY DEF Init
  <2>5. /\ link \in [Viewers -> {"none", "open", "gone"}] /\ stuck \subseteq Viewers
        /\ pending \in BOOLEAN /\ failed \in BOOLEAN
    BY DEF Init
  <2> QED
    BY <2>1, <2>2, <2>3, <2>4, <2>5 DEF Typed
<1>2. Read /\ Caught
  BY DEF Init, Read, Caught, Watched, NoCtx, Cleared
<1>3. ASSUME NEW c \in Viewers
      PROVE  PacedAt(c) /\ Owes(c) /\ Attended(c) /\ Current(c)
  <2>1. /\ ctx[c] = NoCtx /\ link[c] = "none" /\ toViewer[c] = <<>> /\ acks[c] = <<>>
        /\ c \notin stuck
    BY DEF Init
  <2>2. Paced(NoCtx, "none", <<>>, <<>>, c \in stuck) /\ ~NoCtx.on /\ NoCtx.owed = {}
    BY <2>1, Unconnected
  <2> QED
    BY <2>1, <2>2 DEF PacedAt, Owes, Attended, Current, Follows
<1> QED
  BY <1>1, <1>2, <1>3 DEF IInv

LEMMA DrawInv == ASSUME IInv, Draw \/ Resize PROVE IInv'
<1>1. screen' \in Pictures
  <2>1. CASE Draw
    <3>1. PICK t \in Grid[screen.w], p \in Pixels : screen' = [screen EXCEPT !.pix[t] = p]
      BY <2>1, Zenon DEF Draw
    <3>2. screen \in Pictures
      BY DEF IInv, Typed
    <3> QED
      BY <3>1, <3>2, DrawnPicture, Zenon
  <2>2. CASE Resize
    BY <2>2, PaintedPicture DEF Resize
  <2> QED
    BY <2>1, <2>2
<1>2. /\ pending' = TRUE
      /\ UNCHANGED <<engine, server, ctx, slots, link, toViewer, acks, pic, stuck, failed>>
  BY DEF Draw, Resize, serverVars, wireVars, viewerVars
<1>3. Typed' /\ Read' /\ Caught'
  BY <1>1, <1>2 DEF IInv, Typed, Read, Caught
<1>4. ASSUME NEW c \in Viewers
      PROVE  PacedAt(c)' /\ Owes(c)' /\ Attended(c)' /\ Current(c)'
  BY <1>2 DEF IInv, PacedAt, Owes, Attended, Current, Follows
<1> QED
  BY <1>3, <1>4 DEF IInv

LEMMA RenderSkippedInv == ASSUME IInv, RenderSkipped PROVE IInv'
<1>1. /\ pending' = FALSE /\ engine.busy
      /\ engine' = [engine EXCEPT !.again = TRUE]
      /\ UNCHANGED <<screen, server, ctx, slots, link, toViewer, acks, pic, stuck, failed>>
  BY DEF RenderSkipped, Skipped, wireVars, viewerVars
<1>2. /\ engine'.busy /\ engine'.again /\ engine'.base = engine.base
      /\ engine'.dirty = engine.dirty /\ engine' \in Engines
  BY <1>1 DEF IInv, Typed, Engines
<1>3. Typed' /\ Read' /\ Caught'
  BY <1>1, <1>2 DEF IInv, Typed, Read, Caught
<1>4. ASSUME NEW c \in Viewers
      PROVE  PacedAt(c)' /\ Owes(c)' /\ Attended(c)' /\ Current(c)'
  BY <1>1, <1>2 DEF IInv, PacedAt, Owes, Attended, Current, Follows
<1> QED
  BY <1>3, <1>4 DEF IInv

LEMMA RenderUnwatchedInv == ASSUME IInv, RenderUnwatched PROVE IInv'
<1>1. /\ pending' = FALSE /\ ~Watched
      /\ UNCHANGED <<screen, engine, server, ctx, slots, link, toViewer, acks, pic, stuck, failed>>
  BY DEF RenderUnwatched, serverVars, wireVars, viewerVars
<1>2. Typed' /\ Read' /\ Caught'
  BY <1>1 DEF IInv, Typed, Read, Caught, Watched
<1>3. ASSUME NEW c \in Viewers
      PROVE  PacedAt(c)' /\ Owes(c)' /\ Attended(c)' /\ Current(c)'
  BY <1>1 DEF IInv, PacedAt, Owes, Attended, Current, Follows, Watched
<1> QED
  BY <1>2, <1>3 DEF IInv

LEMMA PresentInv == ASSUME IInv, Present PROVE IInv'
<1>1. /\ pending' = FALSE /\ ~engine.busy /\ (engine.base.w = server.w \/ failed)
      /\ server' = [server EXCEPT !.force = FALSE]
      /\ engine' = [engine EXCEPT !.busy = TRUE, !.base = screen, !.dirty = Dirty,
                                  !.force = FALSE, !.has = @ /\ Fits]
      /\ UNCHANGED <<screen, ctx, slots, link, toViewer, acks, pic, stuck, failed>>
  BY DEF Present, wireVars, viewerVars, IInv, Read
<1>2. Dirty \subseteq Grid[screen.w] /\ screen.w \in Sizes
  BY DEF Dirty, IInv, Typed, Pictures
<1> DEFINE D == Dirty
           H == engine.has /\ Fits
<1>3. D \subseteq Tiles /\ H \in BOOLEAN
  BY <1>2, GridAssumption DEF IInv, Typed
<1> HIDE DEF D, H
<1>4. engine' = [engine EXCEPT !.busy = TRUE, !.base = screen, !.dirty = D,
                               !.force = FALSE, !.has = H]
  BY <1>1 DEF D, H
<1>5. /\ engine'.busy /\ engine'.base = screen /\ engine'.dirty = D /\ engine' \in Engines
      /\ server'.w = server.w /\ server' \in [w : Sizes \cup {NoSize}, force : BOOLEAN]
  BY <1>1, <1>3, <1>4 DEF IInv, Typed, Engines
<1>6. Typed'
  <2>1. /\ pending' = FALSE
        /\ UNCHANGED <<screen, ctx, slots, link, toViewer, acks, pic, stuck, failed>>
    BY <1>1
  <2> QED
    BY <1>5, <2>1 DEF IInv, Typed
<1>7. Read' /\ Caught'
  BY <1>1, <1>2, <1>5 DEF Read, Caught, D
<1>8. ASSUME NEW c \in Viewers
      PROVE  PacedAt(c)' /\ Owes(c)' /\ Attended(c)' /\ Current(c)'
  <2>1. PacedAt(c)' /\ Owes(c)' /\ Attended(c)'
    BY <1>1, <1>5 DEF IInv, PacedAt, Owes, Attended
  <2>2. ASSUME ~failed', Follows(c)', Intact(toViewer[c])', ~ctx[c].need', server'.w = screen.w
        PROVE  Nearly(Coming(toViewer[c], pic[c]), ctx[c].owed, screen, D)
    <3>1. engine.base.w = server.w /\ ~engine.busy /\ server.w = screen.w
      BY <1>1, <1>5, <2>2
    <3>2. Nearly(Coming(toViewer[c], pic[c]), ctx[c].owed, engine.base, {})
      BY <1>1, <2>2, <3>1 DEF IInv, Current, Follows
    <3>3. \A t \in Grid[screen.w] \ D : engine.base.pix[t] = screen.pix[t]
      BY DEF D, Dirty
    <3> QED
      BY <3>1, <3>2, <3>3 DEF Nearly
  <2> QED
    BY <1>1, <1>5, <2>1, <2>2 DEF Current
<1> QED
  BY <1>6, <1>7, <1>8 DEF IInv

(* The readback lands *)

LEMMA FoldedContext ==
  ASSUME IInv, engine.busy, NEW c \in Viewers
  PROVE  /\ Folded(c) \in Contexts
         /\ Folded(c).on = ctx[c].on /\ ~Folded(c).need
         /\ Folded(c).awaiting = ctx[c].awaiting
         /\ Folded(c).aseq = ctx[c].aseq /\ Folded(c).next = ctx[c].next
         /\ Folded(c).owed = IF ctx[c].need \/ server.w # engine.base.w THEN Grid[engine.base.w]
                             ELSE ctx[c].owed \cup engine.dirty
         /\ Folded(c).owed \subseteq Grid[engine.base.w]
<1> DEFINE K == ctx[c]
           R == Regridded(K)
<1>1. K \in Contexts /\ engine.base.w \in Sizes /\ engine.dirty \subseteq Grid[engine.base.w]
  BY DEF IInv, Typed, Read
<1>2. Grid[engine.base.w] \subseteq Tiles
  BY <1>1, GridAssumption
<1>3. /\ R \in Contexts /\ R.on = K.on /\ R.awaiting = K.awaiting /\ R.aseq = K.aseq
      /\ R.next = K.next
      /\ R.need = (K.need \/ server.w # engine.base.w)
      /\ R.owed = IF server.w = engine.base.w THEN K.owed ELSE {}
  BY <1>1 DEF Regridded, Contexts
<1>4. R.owed \subseteq Grid[engine.base.w]
  BY <1>3 DEF IInv, Owes
<1> HIDE DEF R
<1>5. /\ Fold(R) \in Contexts /\ Fold(R).on = R.on /\ ~Fold(R).need /\ Fold(R).awaiting = R.awaiting
      /\ Fold(R).aseq = R.aseq /\ Fold(R).next = R.next
      /\ Fold(R).owed = IF R.need THEN Grid[engine.base.w] ELSE R.owed \cup engine.dirty
  BY <1>1, <1>2, <1>3 DEF Fold, Contexts
<1>6. Fold(R).owed \subseteq Grid[engine.base.w]
  BY <1>1, <1>4, <1>5
<1> QED
  BY <1>3, <1>5, <1>6 DEF Folded, R

LEMMA SentContext ==
  ASSUME NEW K \in Contexts
  PROVE  /\ Sent(K) \in Contexts /\ Sent(K).on = K.on /\ Sent(K).need = K.need
         /\ Sent(K).owed = {} /\ Sent(K).awaiting
         /\ Sent(K).aseq = K.next /\ Sent(K).next = K.next + 1
<1> DEFINE n == K.next + 1
<1>1. n \in Nat /\ K.next \in Nat
  BY DEF Contexts
<1>2. Sent(K) = [K EXCEPT !.owed = {}, !.awaiting = TRUE, !.aseq = K.next, !.next = n]
  BY Zenon DEF Sent
<1> HIDE DEF n
<1>3. /\ Sent(K) \in Contexts /\ Sent(K).on = K.on /\ Sent(K).need = K.need
      /\ Sent(K).owed = {} /\ Sent(K).awaiting
      /\ Sent(K).aseq = K.next /\ Sent(K).next = n
  BY <1>1, <1>2 DEF Contexts
<1> QED
  BY <1>3 DEF n

LEMMA PacedSame ==
  ASSUME NEW K, NEW L, L.on = K.on, L.awaiting = K.awaiting, L.aseq = K.aseq, L.next = K.next,
         NEW l, NEW q, NEW a, NEW h, Paced(K, l, q, a, h)
  PROVE  Paced(L, l, q, a, h)
BY DEF Paced

LEMMA PacedSent ==
  ASSUME NEW K \in Contexts, NEW l \in {"none", "open", "gone"}, NEW q, NEW a \in Seq(Nat), NEW h,
         Paced(K, l, q, a, h), K.on, ~K.awaiting, NEW f, Frame(f), f.seq = K.next
  PROVE  /\ q = <<>>
         /\ Paced(Sent(K), l, IF l = "open" THEN Append(q, f) ELSE q, a, h)
<1>1. q = <<>>
  BY DEF Paced
<1>2. Append(q, f) = <<f>> /\ <<f>> # <<>> /\ <<f>>[1] = f
  BY <1>1
<1>3. /\ Sent(K).on = K.on /\ Sent(K).awaiting /\ Sent(K).aseq = K.next
      /\ Sent(K).next = K.next + 1 /\ K.next \in Nat
  BY SentContext DEF Contexts
<1>4. \A i \in DOMAIN a : a[i] \in Nat /\ a[i] < K.next
  BY DEF Paced
<1>5. \A i \in DOMAIN a : a[i] < Sent(K).next /\ a[i] # Sent(K).aseq
  BY <1>3, <1>4
<1>6. Sent(K).aseq < Sent(K).next
  BY <1>3
<1>7. CASE l = "open"
  BY <1>2, <1>3, <1>5, <1>6, <1>7 DEF Paced
<1>8. CASE l # "open"
  BY <1>1, <1>3, <1>5, <1>6, <1>8 DEF Paced
<1> QED
  BY <1>1, <1>7, <1>8

LEMMA FrameIsSound ==
  ASSUME IInv, engine.busy, NEW c \in Viewers, NEW bad
  PROVE  /\ Frame(FrameFor(c, bad)) /\ FrameFor(c, bad).w = engine.base.w
         /\ FrameFor(c, bad).seq = Folded(c).next /\ FrameFor(c, bad).tiles = Folded(c).owed
         /\ \A t \in DOMAIN FrameFor(c, bad).pix : FrameFor(c, bad).pix[t] = engine.base.pix[t]
<1>1. engine.base \in Pictures
  BY SizesAssumption DEF IInv, Typed, Engines, Read, Cleared
<1>2. engine.base.w \in Sizes /\ \A t \in Tiles : engine.base.pix[t] \in Colours
  BY <1>1 DEF Pictures
<1>3. Folded(c).owed \subseteq Grid[engine.base.w] /\ Folded(c).owed \subseteq Tiles
  BY FoldedContext DEF Contexts
<1>4. Folded(c).next = ctx[c].next
  BY FoldedContext
<1> QED
  BY <1>2, <1>3, <1>4 DEF Frame, FrameFor

LEMMA NearlyShown ==
  ASSUME NEW P \in Pictures, NEW B \in Pictures, NEW f, Frame(f), f.w = B.w, NEW O,
         DOMAIN f.pix = O, \A t \in O : f.pix[t] = B.pix[t], Nearly(P, O, B, {})
  PROVE  Nearly(Shown(P, f), {}, B, {})
<1>1. Grid[B.w] \subseteq Tiles
  BY GridAssumption DEF Pictures
<1> QED
  BY <1>1, ShownPicture DEF Nearly

LEMMA LandInv ==
  ASSUME IInv, engine.busy, NEW over \in SUBSET Viewers, NEW bad, Land(over, bad)
  PROVE  IInv'
<1> DEFINE B == engine.base
<1>1. /\ engine' \in Engines /\ ~engine'.busy /\ engine'.base = B
      /\ server' \in [w : Sizes \cup {NoSize}, force : BOOLEAN] /\ server'.w = B.w
      /\ pending' = (pending \/ engine.again) /\ pending' \in BOOLEAN
  BY DEF Land, IInv, Typed, Engines, Read
<1>2. /\ UNCHANGED <<screen, pic, failed>> /\ stuck' = stuck \ over
      /\ \A c \in Viewers :
           /\ ctx'[c] = IF ~ctx[c].on \/ c \in over THEN NoCtx
                        ELSE IF Flushes(c, over) THEN Sent(Folded(c)) ELSE Folded(c)
           /\ toViewer'[c] = IF c \in over THEN <<>>
                             ELSE IF Flushes(c, over) /\ link[c] = "open"
                             THEN Append(toViewer[c], FrameFor(c, bad)) ELSE toViewer[c]
           /\ acks'[c] = IF c \in over THEN <<>> ELSE acks[c]
           /\ link'[c] = IF c \in over THEN "none" ELSE link[c]
  BY DEF Land
<1>3. B \in Pictures
  BY SizesAssumption DEF IInv, Typed, Engines, Read, Cleared
<1>4. ASSUME NEW c \in Viewers
      PROVE  /\ ctx'[c] \in Contexts /\ (ctx'[c].on => ctx[c].on)
             /\ PacedAt(c)' /\ Owes(c)' /\ Attended(c)' /\ Current(c)'
  <2> DEFINE F == Folded(c)
             f == FrameFor(c, bad)
  <2>1. /\ F \in Contexts /\ F.on = ctx[c].on /\ ~F.need /\ F.awaiting = ctx[c].awaiting
        /\ F.aseq = ctx[c].aseq /\ F.next = ctx[c].next
        /\ F.owed = IF ctx[c].need \/ server.w # B.w THEN Grid[B.w] ELSE ctx[c].owed \cup engine.dirty
        /\ F.owed \subseteq Grid[B.w]
    BY FoldedContext
  <2>2. /\ PacedAt(c) /\ Current(c) /\ pic[c] \in Pictures /\ ctx[c] \in Contexts
        /\ link[c] \in {"none", "open", "gone"} /\ acks[c] \in Seq(Nat)
    BY DEF IInv, Typed
  <2>3. /\ Frame(f) /\ f.w = B.w /\ f.seq = F.next /\ f.tiles = F.owed
        /\ \A t \in DOMAIN f.pix : f.pix[t] = B.pix[t]
    BY FrameIsSound
  \* What a viewer that stays is owed, whether it is flushed or not.
  <2>4. ASSUME ~failed, Follows(c), Intact(toViewer[c])
        PROVE  Nearly(Coming(toViewer[c], pic[c]), F.owed, B, {})
    BY <2>1, <2>2, <2>4 DEF Current, Nearly
  <2> HIDE DEF F, f, B
  <2>5. CASE c \in over
    <3>1. /\ ctx'[c] = NoCtx /\ link'[c] = "none" /\ toViewer'[c] = <<>> /\ acks'[c] = <<>>
          /\ c \notin stuck'
      BY <1>2, <2>5
    <3>3. /\ Paced(NoCtx, "none", <<>>, <<>>, c \in stuck')
          /\ NoCtx \in Contexts /\ ~NoCtx.on /\ NoCtx.owed = {}
      BY <3>1, Unconnected
    <3> QED
      BY <3>1, <3>3 DEF PacedAt, Owes, Attended, Current, Follows
  <2>6. CASE ~ctx[c].on /\ c \notin over
    <3>1. link[c] = "none" /\ acks[c] = <<>> /\ toViewer[c] = <<>> /\ c \notin stuck
      BY <2>2, <2>6 DEF PacedAt, Paced
    <3>2. /\ ctx'[c] = NoCtx /\ link'[c] = "none" /\ toViewer'[c] = <<>> /\ acks'[c] = <<>>
          /\ c \notin stuck'
      BY <1>2, <2>6, <3>1 DEF Flushes
    <3>3. /\ Paced(NoCtx, "none", <<>>, <<>>, c \in stuck')
          /\ NoCtx \in Contexts /\ ~NoCtx.on /\ NoCtx.owed = {}
      BY <3>2, Unconnected
    <3> QED
      BY <3>2, <3>3 DEF PacedAt, Owes, Attended, Current, Follows
  <2>7. CASE Flushes(c, over)
    <3>1. /\ ctx[c].on /\ ~ctx[c].awaiting /\ c \notin over
          /\ ctx'[c] = Sent(F) /\ link'[c] = link[c] /\ acks'[c] = acks[c]
          /\ (c \in stuck') = (c \in stuck)
          /\ toViewer'[c] = IF link[c] = "open" THEN Append(toViewer[c], f) ELSE toViewer[c]
      BY <1>2, <2>7 DEF Flushes, F, f
    <3>2. Paced(F, link[c], toViewer[c], acks[c], c \in stuck)
      BY <2>1, <2>2, PacedSame DEF PacedAt
    <3>3. /\ toViewer[c] = <<>>
          /\ Paced(Sent(F), link[c], IF link[c] = "open" THEN Append(toViewer[c], f) ELSE toViewer[c],
                   acks[c], c \in stuck)
      BY <2>1, <2>2, <2>3, <3>1, <3>2, PacedSent
    <3>4. PacedAt(c)'
      BY <3>1, <3>3 DEF PacedAt
    <3>5. /\ Sent(F) \in Contexts /\ Sent(F).on /\ ~Sent(F).need /\ Sent(F).owed = {}
          /\ Sent(F).awaiting
      BY <2>1, <3>1, SentContext
    <3>6. Owes(c)' /\ Attended(c)'
      BY <3>1, <3>5 DEF Owes, Attended
    <3>7. ASSUME ~failed', Follows(c)', Intact(toViewer[c])'
          PROVE  Nearly(Coming(toViewer[c], pic[c])', {}, B, {})
      <4>1. link[c] = "open" /\ c \notin stuck /\ toViewer'[c] = <<f>>
        BY <3>1, <3>3, <3>7 DEF Follows
      <4>2. DOMAIN f.pix = F.owed
        BY <2>3, <3>7, <4>1 DEF Intact
      <4>3. Nearly(pic[c], F.owed, B, {})
        BY <1>2, <2>4, <3>1, <3>3, <3>7, <4>1 DEF Coming, Follows, Intact
      <4>4. Nearly(Shown(pic[c], f), {}, B, {})
        BY <1>3, <2>2, <2>3, <4>2, <4>3, NearlyShown
      <4> QED
        BY <1>2, <4>1, <4>4 DEF Coming
    <3>8. Current(c)'
      BY <1>1, <3>1, <3>5, <3>7 DEF Current
    <3> QED
      BY <3>1, <3>4, <3>5, <3>6, <3>8
  <2>8. CASE ctx[c].on /\ c \notin over /\ ~Flushes(c, over)
    <3>1. /\ ctx'[c] = F /\ link'[c] = link[c] /\ acks'[c] = acks[c] /\ toViewer'[c] = toViewer[c]
          /\ (c \in stuck') = (c \in stuck)
      BY <1>2, <2>8 DEF F
    <3>2. PacedAt(c)'
      BY <2>1, <2>2, <3>1, PacedSame DEF PacedAt
    <3>3. F.awaiting \/ F.owed = {}
      BY <2>1, <2>8 DEF Flushes, F
    <3>4. B.w \in Sizes
      BY <1>3 DEF Pictures
    <3>5. Owes(c)' /\ Attended(c)'
      BY <1>1, <2>1, <3>1, <3>3, <3>4 DEF Owes, Attended
    <3>6. Current(c)'
      BY <1>1, <1>2, <2>1, <2>4, <3>1 DEF Current, Follows
    <3> QED
      BY <2>1, <3>1, <3>2, <3>5, <3>6
  <2> QED
    BY <2>5, <2>6, <2>7, <2>8
<1>5. Typed'
  <2>1. ctx' \in [Viewers -> Contexts]
    <3>1. ctx' = [c \in Viewers |-> ctx'[c]]
      BY DEF Land
    <3>2. \A c \in Viewers : ctx'[c] \in Contexts
      BY <1>4
    <3> QED
      BY <3>1, <3>2
  <2>2. /\ toViewer' = [c \in Viewers |-> toViewer'[c]]
        /\ link' \in [Viewers -> {"none", "open", "gone"}] /\ acks' \in [Viewers -> Seq(Nat)]
    BY DEF Land, IInv, Typed
  <2> QED
    BY <1>1, <1>2, <2>1, <2>2 DEF IInv, Typed
<1>6. Read'
  BY <1>1 DEF Read
<1>7. Caught'
  <2>1. Watched' => Watched
    BY <1>4 DEF Watched
  <2> QED
    BY <1>1, <1>2, <2>1 DEF IInv, Caught, Typed, Engines
<1> QED
  BY <1>4, <1>5, <1>6, <1>7 DEF IInv

LEMMA ReadbackFailsInv == ASSUME IInv, ReadbackFails PROVE IInv'
<1>1. /\ engine.busy /\ failed' /\ failed' \in BOOLEAN
      /\ pending' = (pending \/ engine.again) /\ pending' \in BOOLEAN
      /\ engine' \in Engines /\ ~engine'.busy /\ engine'.base = engine.base
  BY DEF ReadbackFails, IInv, Typed, Engines
<1>2. UNCHANGED <<screen, server, ctx, slots, link, toViewer, acks, pic, stuck>>
  BY DEF ReadbackFails, wireVars, viewerVars
<1>3. Typed' /\ Read' /\ Caught'
  <2>1. Typed'
    BY <1>1, <1>2 DEF IInv, Typed
  <2>2. Read'
    BY <1>1 DEF Read
  <2>3. Caught'
    BY <1>1, <1>2 DEF IInv, Caught, Watched, Typed, Engines
  <2> QED
    BY <2>1, <2>2, <2>3
<1>4. ASSUME NEW c \in Viewers
      PROVE  PacedAt(c)' /\ Owes(c)' /\ Attended(c)' /\ Current(c)'
  BY <1>1, <1>2 DEF IInv, PacedAt, Owes, Attended, Current
<1> QED
  BY <1>3, <1>4 DEF IInv

-----------------------------------------------------------------------------
(* The steps of one viewer *)

\* A step that touches nothing of viewer d keeps what is said of d.
LEMMA OtherViewer ==
  ASSUME IInv, NEW d \in Viewers,
         ctx'[d] = ctx[d], link'[d] = link[d], toViewer'[d] = toViewer[d], acks'[d] = acks[d],
         pic'[d] = pic[d], d \in stuck' <=> d \in stuck,
         engine' = engine, server'.w = server.w, failed' = failed, pending => pending'
  PROVE  PacedAt(d)' /\ Owes(d)' /\ Attended(d)' /\ Current(d)'
<1>1. PacedAt(d) /\ Owes(d) /\ Attended(d) /\ Current(d)
  BY DEF IInv
<1>2. PacedAt(d)'
  BY <1>1 DEF PacedAt, Paced
<1>3. Owes(d)' /\ Attended(d)'
  BY <1>1 DEF Owes, Attended
<1>4. Current(d)'
  BY <1>1 DEF Current, Follows
<1> QED
  BY <1>2, <1>3, <1>4

LEMMA ConnectInv == ASSUME IInv, NEW c \in Viewers, Connect(c) PROVE IInv'
<1>1. /\ link[c] = "none"
      /\ UNCHANGED <<screen, engine, toViewer, acks, pic, stuck, failed>>
  BY DEF Connect, viewerVars
<1>2. CASE NoSlot
  <2>1. UNCHANGED <<pending, server, ctx, link>>
    BY <1>2 DEF Connect
  <2>2. Typed' /\ Read' /\ Caught'
    BY <1>1, <2>1 DEF IInv, Typed, Read, Caught, Watched
  <2>3. ASSUME NEW d \in Viewers
        PROVE  PacedAt(d)' /\ Owes(d)' /\ Attended(d)' /\ Current(d)'
    BY <1>1, <2>1, OtherViewer
  <2> QED
    BY <2>2, <2>3 DEF IInv
<1>3. CASE ~NoSlot
  <2> DEFINE K == [NoCtx EXCEPT !.on = TRUE, !.need = TRUE]
  <2>1. /\ K \in Contexts /\ K.on /\ K.need /\ ~K.awaiting /\ K.owed = {} /\ K.aseq < K.next
    <3>1. NoCtx \in Contexts
      BY Unconnected
    <3>2. ~NoCtx.awaiting /\ NoCtx.owed = {} /\ NoCtx.aseq < NoCtx.next
      BY DEF NoCtx
    <3> QED
      BY <3>1, <3>2 DEF Contexts
  <2>2. /\ link' = [link EXCEPT ![c] = "open"] /\ ctx' = [ctx EXCEPT ![c] = K]
        /\ server' = [server EXCEPT !.force = TRUE] /\ pending' = TRUE
    BY <1>3 DEF Connect
  <2> HIDE DEF K
  <2>3. server' \in [w : Sizes \cup {NoSize}, force : BOOLEAN] /\ server'.w = server.w
    BY <2>2 DEF IInv, Typed
  <2>4. Typed'
    <3>1. /\ ctx' \in [Viewers -> Contexts] /\ link' \in [Viewers -> {"none", "open", "gone"}]
      BY <2>1, <2>2 DEF IInv, Typed
    <3>2. pending' \in BOOLEAN
      BY <2>2
    <3> QED
      BY <1>1, <2>3, <3>1, <3>2 DEF IInv, Typed
  <2>5. Read' /\ Caught'
    BY <1>1, <2>2, <2>3 DEF IInv, Read, Caught
  <2>6. ASSUME NEW d \in Viewers, d # c
        PROVE  PacedAt(d)' /\ Owes(d)' /\ Attended(d)' /\ Current(d)'
    <3>1. ctx'[d] = ctx[d] /\ link'[d] = link[d]
      BY <2>2, <2>6 DEF IInv, Typed
    <3> QED
      BY <1>1, <2>2, <2>3, <3>1, OtherViewer
  <2>7. PacedAt(c)' /\ Owes(c)' /\ Attended(c)' /\ Current(c)'
    <3>1. ctx'[c] = K /\ link'[c] = "open"
      BY <2>2 DEF IInv, Typed
    <3>2. toViewer[c] = <<>> /\ acks[c] = <<>> /\ c \notin stuck /\ DOMAIN acks[c] = {}
      BY <1>1 DEF IInv, PacedAt, Paced
    <3>3. PacedAt(c)'
      BY <1>1, <2>1, <3>1, <3>2 DEF PacedAt, Paced
    <3> QED
      BY <1>1, <2>1, <2>2, <3>1, <3>3 DEF Owes, Attended, Current
  <2> QED
    BY <2>4, <2>5, <2>6, <2>7 DEF IInv
<1> QED
  BY <1>2, <1>3

LEMMA TakeAckInv == ASSUME IInv, NEW c \in Viewers, TakeAck(c) PROVE IInv'
<1> DEFINE K == ctx[c]
           n == acks[c][1]
           L == [K EXCEPT !.awaiting = FALSE]
<1>1. /\ acks[c] # <<>> /\ acks' = [acks EXCEPT ![c] = Tail(@)]
      /\ UNCHANGED <<screen, engine, server, slots, link, toViewer, pic, stuck, failed>>
  BY DEF TakeAck, viewerVars
<1>2. \/ K.awaiting /\ n = K.aseq /\ ctx' = [ctx EXCEPT ![c] = L] /\ pending' = TRUE
      \/ ~(K.awaiting /\ n = K.aseq) /\ ctx' = ctx /\ pending' = pending
  BY DEF TakeAck, Unblocks
<1>3. K \in Contexts /\ acks[c] \in Seq(Nat) /\ Paced(K, link[c], toViewer[c], acks[c], c \in stuck)
  BY DEF IInv, Typed, PacedAt
<1>4. /\ L \in Contexts /\ L.on = K.on /\ L.need = K.need /\ L.owed = K.owed /\ ~L.awaiting
      /\ L.aseq = K.aseq /\ L.next = K.next
  BY <1>3 DEF Contexts
<1> HIDE DEF L
<1>5. /\ Tail(acks[c]) \in Seq(Nat)
      /\ \A i \in DOMAIN Tail(acks[c]) : i + 1 \in DOMAIN acks[c] /\ Tail(acks[c])[i] = acks[c][i + 1]
      /\ \A i \in DOMAIN acks[c] : i # 1 => i - 1 \in DOMAIN Tail(acks[c])
                                         /\ Tail(acks[c])[i - 1] = acks[c][i]
      /\ 1 \in DOMAIN acks[c]
  BY <1>1, <1>3
<1>6. ctx'[c] = IF K.awaiting /\ n = K.aseq THEN L ELSE K
  BY <1>2 DEF IInv, Typed
<1>7. acks'[c] = Tail(acks[c])
  BY <1>1 DEF IInv, Typed
<1>8. Typed'
  <2>1. ctx' \in [Viewers -> Contexts] /\ pending' \in BOOLEAN
    BY <1>2, <1>4 DEF IInv, Typed
  <2>2. acks' \in [Viewers -> Seq(Nat)]
    BY <1>1, <1>5 DEF IInv, Typed
  <2> QED
    BY <1>1, <2>1, <2>2 DEF IInv, Typed
<1>9. Read' /\ Caught'
  <2>1. Watched' => Watched
    BY <1>2, <1>4, <1>6 DEF Watched, IInv, Typed
  <2> QED
    BY <1>1, <1>2, <2>1 DEF IInv, Read, Caught
<1>10. ASSUME NEW d \in Viewers, d # c
       PROVE  PacedAt(d)' /\ Owes(d)' /\ Attended(d)' /\ Current(d)'
  <2>1. ctx'[d] = ctx[d] /\ acks'[d] = acks[d] /\ (pending => pending')
    BY <1>1, <1>2, <1>10 DEF IInv, Typed
  <2> QED
    BY <1>1, <2>1, OtherViewer
<1>11. PacedAt(c)' /\ Owes(c)' /\ Attended(c)' /\ Current(c)'
  <2>1. /\ ctx'[c].on = K.on /\ ctx'[c].need = K.need /\ ctx'[c].owed = K.owed
        /\ ctx'[c].aseq = K.aseq /\ ctx'[c].next = K.next
        /\ K.awaiting => ctx'[c].awaiting \/ pending'
        /\ ctx'[c].awaiting => K.awaiting /\ n # K.aseq
    BY <1>2, <1>3, <1>4, <1>6 DEF Contexts
  <2>2. toViewer[c] # <<>> => ctx'[c].awaiting
    BY <1>3, <1>5, <1>6 DEF Paced
  <2>3. Paced(ctx'[c], link[c], toViewer[c], Tail(acks[c]), c \in stuck)
    <3>1. link[c] = "none" => FALSE
      BY <1>1, <1>3 DEF Paced
    <3>2. \A i \in DOMAIN Tail(acks[c]) : Tail(acks[c])[i] < K.next
      BY <1>3, <1>5 DEF Paced
    <3>3. toViewer[c] # <<>> => \A i \in DOMAIN Tail(acks[c]) : Tail(acks[c])[i] # K.aseq
      BY <1>3, <1>5 DEF Paced
    <3>4. ASSUME link[c] = "open", c \notin stuck, ctx'[c].awaiting, toViewer[c] = <<>>
          PROVE  \E i \in DOMAIN Tail(acks[c]) : Tail(acks[c])[i] = K.aseq
      <4>1. K.awaiting /\ n # K.aseq
        BY <2>1, <3>4
      <4>2. PICK i \in DOMAIN acks[c] : acks[c][i] = K.aseq
        BY <1>3, <3>4, <4>1 DEF Paced
      <4> QED
        BY ZenonT(40), <1>5, <4>1, <4>2
    <3> QED
      BY <1>3, <2>1, <2>2, <3>1, <3>2, <3>3, <3>4 DEF Paced
  <2>4. PacedAt(c)'
    BY <1>1, <1>7, <2>3 DEF PacedAt
  <2>5. Owes(c)' /\ Attended(c)'
    BY <1>1, <1>2, <2>1 DEF IInv, Owes, Attended
  <2>6. Current(c)'
    BY <1>1, <2>1 DEF IInv, Current, Follows
  <2> QED
    BY <2>4, <2>5, <2>6
<1> QED
  BY <1>8, <1>9, <1>10, <1>11 DEF IInv

LEMMA DisconnectInv == ASSUME IInv, NEW c \in Viewers, Disconnect(c) PROVE IInv'
<1>1. /\ link[c] = "gone" /\ link' = [link EXCEPT ![c] = "none"]
      /\ ctx' = [ctx EXCEPT ![c] = NoCtx] /\ acks' = [acks EXCEPT ![c] = <<>>]
      /\ UNCHANGED <<screen, pending, engine, server, toViewer, pic, stuck, failed>>
  BY DEF Disconnect, viewerVars
<1>2. toViewer[c] = <<>> /\ c \notin stuck
  BY <1>1 DEF IInv, PacedAt, Paced
<1>3. /\ Paced(NoCtx, "none", <<>>, <<>>, c \in stuck)
      /\ NoCtx \in Contexts /\ ~NoCtx.on /\ NoCtx.owed = {}
  BY <1>2, Unconnected
<1>4. ctx'[c] = NoCtx /\ link'[c] = "none" /\ acks'[c] = <<>>
  BY <1>1 DEF IInv, Typed
<1>5. Typed'
  <2>1. /\ ctx' \in [Viewers -> Contexts] /\ link' \in [Viewers -> {"none", "open", "gone"}]
        /\ acks' \in [Viewers -> Seq(Nat)]
    BY <1>1, <1>3 DEF IInv, Typed
  <2> QED
    BY <1>1, <2>1 DEF IInv, Typed
<1>6. Read' /\ Caught'
  <2>1. Watched' => Watched
    BY <1>1, <1>3, <1>4 DEF Watched, IInv, Typed
  <2> QED
    BY <1>1, <2>1 DEF IInv, Read, Caught
<1>7. ASSUME NEW d \in Viewers, d # c
      PROVE  PacedAt(d)' /\ Owes(d)' /\ Attended(d)' /\ Current(d)'
  <2>1. ctx'[d] = ctx[d] /\ link'[d] = link[d] /\ acks'[d] = acks[d]
    BY <1>1, <1>7 DEF IInv, Typed
  <2> QED
    BY <1>1, <2>1, OtherViewer
<1>8. PacedAt(c)' /\ Owes(c)' /\ Attended(c)' /\ Current(c)'
  BY <1>1, <1>2, <1>3, <1>4 DEF PacedAt, Owes, Attended, Current, Follows
<1> QED
  BY <1>5, <1>6, <1>7, <1>8 DEF IInv

LEMMA LeaveInv == ASSUME IInv, NEW c \in Viewers, Leave(c) PROVE IInv'
<1>1. /\ link[c] = "open" /\ link' = [link EXCEPT ![c] = "gone"]
      /\ toViewer' = [toViewer EXCEPT ![c] = <<>>] /\ stuck' = stuck \ {c}
      /\ UNCHANGED <<screen, pending, engine, server, ctx, acks, pic, failed>>
  BY DEF Leave, serverVars
<1>2. link'[c] = "gone" /\ toViewer'[c] = <<>> /\ c \notin stuck'
  BY <1>1 DEF IInv, Typed
<1>3. Typed'
  <2>1. /\ link' \in [Viewers -> {"none", "open", "gone"}] /\ stuck' \subseteq Viewers
        /\ toViewer' = [d \in Viewers |-> toViewer'[d]]
    BY <1>1 DEF IInv, Typed
  <2> QED
    BY <1>1, <2>1 DEF IInv, Typed
<1>4. Read' /\ Caught'
  BY <1>1 DEF IInv, Read, Caught, Watched
<1>5. ASSUME NEW d \in Viewers, d # c
      PROVE  PacedAt(d)' /\ Owes(d)' /\ Attended(d)' /\ Current(d)'
  <2>1. link'[d] = link[d] /\ toViewer'[d] = toViewer[d] /\ (d \in stuck' <=> d \in stuck)
    BY <1>1, <1>5 DEF IInv, Typed
  <2> QED
    BY <1>1, <2>1, OtherViewer
<1>6. PacedAt(c)' /\ Owes(c)' /\ Attended(c)' /\ Current(c)'
  <2>1. PacedAt(c)'
    BY <1>1, <1>2 DEF IInv, PacedAt, Paced
  <2> QED
    BY <1>1, <1>2, <2>1 DEF IInv, Owes, Attended, Current, Follows
<1> QED
  BY <1>3, <1>4, <1>5, <1>6 DEF IInv

LEMMA HangInv == ASSUME IInv, NEW c \in Viewers, Hang(c) PROVE IInv'
<1>1. /\ link[c] = "open" /\ stuck' = stuck \cup {c}
      /\ UNCHANGED <<screen, pending, engine, server, ctx, link, toViewer, acks, pic, failed>>
  BY DEF Hang, serverVars, wireVars
<1>2. Typed' /\ Read' /\ Caught'
  BY <1>1 DEF IInv, Typed, Read, Caught, Watched
<1>3. ASSUME NEW d \in Viewers, d # c
      PROVE  PacedAt(d)' /\ Owes(d)' /\ Attended(d)' /\ Current(d)'
  <2>1. d \in stuck' <=> d \in stuck
    BY <1>1, <1>3
  <2> QED
    BY <1>1, <2>1, OtherViewer
<1>4. PacedAt(c)' /\ Owes(c)' /\ Attended(c)' /\ Current(c)'
  <2>1. PacedAt(c)'
    BY <1>1 DEF IInv, PacedAt, Paced
  <2> QED
    BY <1>1, <2>1 DEF IInv, Owes, Attended, Current, Follows
<1> QED
  BY <1>2, <1>3, <1>4 DEF IInv

LEMMA TakeFrameInv == ASSUME IInv, NEW c \in Viewers, TakeFrame(c) PROVE IInv'
<1> DEFINE f == toViewer[c][1]
           K == ctx[c]
<1>0. link[c] = "open" /\ c \notin stuck /\ toViewer[c] # <<>>
  BY DEF TakeFrame
<1>a. toViewer[c] = <<f>>
  BY <1>0 DEF IInv, PacedAt, Paced
<1>b. Head(toViewer[c]) = f /\ Tail(toViewer[c]) = <<>>
  <2> HIDE DEF f
  <2> QED
    BY <1>a
<1>1. /\ link[c] = "open" /\ c \notin stuck /\ toViewer[c] # <<>>
      /\ toViewer' = [toViewer EXCEPT ![c] = Tail(@)]
      /\ pic' = [pic EXCEPT ![c] = Shown(@, f)]
      /\ UNCHANGED <<screen, pending, engine, server, ctx, link, failed>>
  BY <1>b DEF TakeFrame, serverVars
<1>2. \/ /\ DOMAIN f.pix = f.tiles /\ stuck' = stuck
         /\ \/ acks' = [acks EXCEPT ![c] = Append(@, f.seq)]
            \/ acks' = [acks EXCEPT ![c] = @ \o <<f.seq, f.seq>>]
      \/ DOMAIN f.pix # f.tiles /\ stuck' = stuck \cup {c} /\ acks' = acks
  BY <1>b DEF TakeFrame, Acknowledge
<1>3. /\ toViewer[c] = <<f>> /\ Frame(f) /\ K.awaiting /\ f.seq = K.aseq
      /\ K.aseq < K.next /\ K.on /\ \A i \in DOMAIN acks[c] : acks[c][i] < K.next
  BY <1>1 DEF IInv, PacedAt, Paced
<1>4. K \in Contexts /\ f.seq \in Nat /\ acks[c] \in Seq(Nat) /\ pic[c] \in Pictures
  BY <1>3 DEF IInv, Typed, Contexts
<1>5. DOMAIN acks[c] = 1 .. Len(acks[c]) /\ Len(acks[c]) \in Nat
  BY <1>4
<1> HIDE DEF f
<1>6. toViewer'[c] = <<>> /\ pic'[c] = Shown(pic[c], f)
  BY <1>1, <1>b DEF IInv, Typed
<1>7. /\ acks'[c] \in Seq(Nat)
      /\ \A i \in DOMAIN acks'[c] : acks'[c][i] < K.next
      /\ DOMAIN f.pix = f.tiles => \E i \in DOMAIN acks'[c] : acks'[c][i] = K.aseq
  <2>1. CASE acks' = [acks EXCEPT ![c] = Append(@, f.seq)]
    <3>1. acks'[c] = Append(acks[c], f.seq)
      BY <2>1 DEF IInv, Typed
    <3>2. /\ acks'[c] \in Seq(Nat) /\ DOMAIN acks'[c] = 1 .. Len(acks[c]) + 1
          /\ \A i \in 1 .. Len(acks[c]) : acks'[c][i] = acks[c][i]
          /\ acks'[c][Len(acks[c]) + 1] = f.seq
      BY <1>4, <3>1
    <3>3. \A i \in DOMAIN acks'[c] : acks'[c][i] < K.next
      <4>1. \A i \in DOMAIN acks'[c] : i \in 1 .. Len(acks[c]) \/ acks'[c][i] = f.seq
        BY <1>5, <3>2
      <4> QED
        BY <1>3, <1>5, <3>2, <4>1
    <3>4. Len(acks[c]) + 1 \in DOMAIN acks'[c] /\ acks'[c][Len(acks[c]) + 1] = K.aseq
      BY <1>3, <1>5, <3>2
    <3> QED
      BY <3>2, <3>3, <3>4
  <2>2. CASE acks' = [acks EXCEPT ![c] = @ \o <<f.seq, f.seq>>]
    <3>1. acks'[c] = acks[c] \o <<f.seq, f.seq>>
      BY <2>2 DEF IInv, Typed
    <3>2. /\ acks'[c] \in Seq(Nat) /\ DOMAIN acks'[c] = 1 .. Len(acks[c]) + 2
          /\ \A i \in 1 .. Len(acks[c]) : acks'[c][i] = acks[c][i]
          /\ acks'[c][Len(acks[c]) + 1] = f.seq /\ acks'[c][Len(acks[c]) + 2] = f.seq
      BY <1>4, <3>1
    <3>3. \A i \in DOMAIN acks'[c] : acks'[c][i] < K.next
      <4>1. \A i \in DOMAIN acks'[c] : i \in 1 .. Len(acks[c]) \/ acks'[c][i] = f.seq
        BY <1>5, <3>2
      <4> QED
        BY <1>3, <1>5, <3>2, <4>1
    <3>4. Len(acks[c]) + 1 \in DOMAIN acks'[c] /\ acks'[c][Len(acks[c]) + 1] = K.aseq
      BY <1>3, <1>5, <3>2
    <3> QED
      BY <3>2, <3>3, <3>4
  <2>3. CASE DOMAIN f.pix # f.tiles /\ acks' = acks
    BY <1>3, <1>4, <2>3
  <2> QED
    BY <1>2, <2>1, <2>2, <2>3
<1>8. Shown(pic[c], f) \in Pictures
  BY <1>3, <1>4, ShownPicture
<1>9. Typed'
  <2>1. stuck' \subseteq Viewers /\ toViewer' = [d \in Viewers |-> toViewer'[d]]
    BY <1>1, <1>2 DEF IInv, Typed
  <2>2. acks' \in [Viewers -> Seq(Nat)]
    <3>1. acks' = [acks EXCEPT ![c] = acks'[c]]
      BY <1>2 DEF IInv, Typed
    <3> QED
      BY <1>7, <3>1 DEF IInv, Typed
  <2>3. pic' \in [Viewers -> Pictures]
    BY <1>1, <1>8 DEF IInv, Typed
  <2> QED
    BY <1>1, <2>1, <2>2, <2>3 DEF IInv, Typed
<1>10. Read' /\ Caught'
  BY <1>1 DEF IInv, Read, Caught, Watched
<1>11. ASSUME NEW d \in Viewers, d # c
       PROVE  PacedAt(d)' /\ Owes(d)' /\ Attended(d)' /\ Current(d)'
  <2>1. /\ toViewer'[d] = toViewer[d] /\ pic'[d] = pic[d] /\ acks'[d] = acks[d]
        /\ (d \in stuck' <=> d \in stuck)
    BY <1>1, <1>2, <1>11 DEF IInv, Typed
  <2> QED
    BY <1>1, <2>1, OtherViewer
<1>12. PacedAt(c)' /\ Owes(c)' /\ Attended(c)' /\ Current(c)'
  <2>1. c \notin stuck' => DOMAIN f.pix = f.tiles
    BY <1>2
  <2>2. PacedAt(c)'
    BY <1>1, <1>3, <1>6, <1>7, <2>1 DEF PacedAt, Paced
  <2>3. Owes(c)' /\ Attended(c)'
    BY <1>1 DEF IInv, Owes, Attended
  <2>4. Current(c)'
    <3>1. ASSUME ~failed', Follows(c)', Intact(toViewer[c])'
          PROVE  Follows(c) /\ Intact(toViewer[c])
      BY <1>1, <2>1, <3>1 DEF Follows, Intact, f
    <3>2. Coming(toViewer[c], pic[c])' = Coming(toViewer[c], pic[c])
      BY <1>1, <1>6 DEF Coming, f
    <3> QED
      BY <1>1, <3>1, <3>2 DEF IInv, Current
  <2> QED
    BY <2>2, <2>3, <2>4
<1> QED
  BY <1>9, <1>10, <1>11, <1>12 DEF IInv

-----------------------------------------------------------------------------
(* The theorems *)

LEMMA StutterInv == ASSUME IInv, UNCHANGED vars PROVE IInv'
<1>1. UNCHANGED <<screen, pending, engine, server, ctx, slots, link, toViewer, acks, pic, stuck, failed>>
  BY DEF vars, serverVars, wireVars, viewerVars
<1>2. Typed' /\ Read' /\ Caught'
  BY <1>1 DEF IInv, Typed, Read, Caught, Watched
<1>3. ASSUME NEW d \in Viewers
      PROVE  PacedAt(d)' /\ Owes(d)' /\ Attended(d)' /\ Current(d)'
  BY <1>1, OtherViewer
<1> QED
  BY <1>2, <1>3 DEF IInv

LEMMA ReadbackInv == ASSUME IInv, Readback PROVE IInv'
<1>1. CASE ReadbackLands
  BY <1>1, LandInv DEF ReadbackLands
<1>2. CASE Evict
  BY <1>2, LandInv DEF Evict
<1>3. CASE EncodeFails
  BY <1>3, LandInv DEF EncodeFails
<1>4. CASE ReadbackFails
  BY <1>4, ReadbackFailsInv
<1> QED
  BY <1>1, <1>2, <1>3, <1>4 DEF Readback

LEMMA Invariance == Spec => []IInv
<1>1. Init => IInv
  BY InitInv
<1>2. IInv /\ [Next]_vars => IInv'
  <2> SUFFICES ASSUME IInv, [Next]_vars PROVE IInv'
    OBVIOUS
  <2>1. CASE Draw \/ Resize
    BY <2>1, DrawInv
  <2>2. CASE Render
    BY <2>2, RenderSkippedInv, RenderUnwatchedInv, PresentInv DEF Render
  <2>3. CASE Readback
    BY <2>3, ReadbackInv
  <2>4. ASSUME NEW c \in Viewers,
               Connect(c) \/ TakeAck(c) \/ Disconnect(c) \/ TakeFrame(c) \/ Hang(c) \/ Leave(c)
        PROVE  IInv'
    BY <2>4, ConnectInv, TakeAckInv, DisconnectInv, TakeFrameInv, HangInv, LeaveInv
  <2>5. CASE UNCHANGED vars
    BY <2>5, StutterInv
  <2> QED
    BY <2>1, <2>2, <2>3, <2>4, <2>5 DEF Next
<1> QED
  BY <1>1, <1>2, PTL DEF Spec

\* The server never has more than one frame on its way to a viewer, and while it
\* waits that frame or its ACK is under way (vnc-server.c 1525-1541).
THEOREM FramesArePaced == Spec => []StopAndWait
<1>1. IInv => StopAndWait
  <2> SUFFICES ASSUME IInv, NEW c \in Viewers, Follows(c)
               PROVE  /\ Len(toViewer[c]) <= 1
                      /\ toViewer[c] # <<>> => ctx[c].awaiting /\ toViewer[c][1].seq = ctx[c].aseq
                      /\ ctx[c].awaiting => \/ toViewer[c] # <<>>
                                            \/ \E i \in DOMAIN acks[c] : acks[c][i] = ctx[c].aseq
    BY DEF StopAndWait
  <2>1. Paced(ctx[c], link[c], toViewer[c], acks[c], c \in stuck) /\ link[c] = "open" /\ c \notin stuck
    BY DEF IInv, PacedAt, Follows
  <2>2. toViewer[c] = <<>> \/ toViewer[c] = <<toViewer[c][1]>>
    BY <2>1 DEF Paced
  <2>3. Len(toViewer[c]) <= 1
    <3> DEFINE f == toViewer[c][1]
    <3>1. toViewer[c] = <<>> \/ toViewer[c] = <<f>>
      BY <2>2
    <3> HIDE DEF f
    <3>2. Len(<<f>>) = 1 /\ Len(<<>>) = 0
      OBVIOUS
    <3>3. Len(toViewer[c]) = 1 \/ Len(toViewer[c]) = 0
      BY <3>1, <3>2, Zenon
    <3>4. 1 <= 1 /\ 0 <= 1
      OBVIOUS
    <3> QED
      BY <3>3, <3>4, Zenon
  <2> QED
    BY <2>1, <2>3 DEF Paced
<1> QED
  BY <1>1, Invariance, PTL

\* Whatever was drawn, resized, skipped or acknowledged in between, a viewer to which
\* nothing is under way shows the screen once nothing is due (vnc-server.c 1990-1996,
\* tile-diff.c 261-269).
THEOREM ViewersRestCurrent == Spec => []RestsCurrent
<1>1. IInv => RestsCurrent
  <2> SUFFICES ASSUME IInv, ~pending, ~engine.busy, ~failed, NEW c \in Viewers, Follows(c), Quiet(c)
               PROVE  pic[c] = screen
    BY DEF RestsCurrent
  <2>1. /\ Paced(ctx[c], link[c], toViewer[c], acks[c], c \in stuck) /\ link[c] = "open"
        /\ c \notin stuck /\ ctx[c].on /\ toViewer[c] = <<>> /\ DOMAIN acks[c] = {}
    BY DEF IInv, PacedAt, Follows, Quiet
  <2>2. ~ctx[c].awaiting
    BY <2>1 DEF Paced
  <2>3. ~ctx[c].need /\ ctx[c].owed = {}
    BY <2>1, <2>2 DEF IInv, Attended
  <2>4. engine.base = screen /\ engine.base.w = server.w /\ screen \in Pictures /\ pic[c] \in Pictures
    BY <2>1 DEF IInv, Caught, Watched, Read, Typed
  <2>5. Nearly(pic[c], {}, screen, {})
    BY <2>1, <2>3, <2>4 DEF IInv, Current, Intact, Coming
  <2>6. Grid[screen.w] # {}
    BY <2>4, GridAssumption DEF Pictures
  <2>7. pic[c].w = screen.w /\ \A t \in Grid[screen.w] : pic[c].pix[t] = screen.pix[t]
    BY <2>5, <2>6 DEF Nearly
  <2> QED
    BY <2>4, <2>7, SamePicture
<1> QED
  BY <1>1, Invariance, PTL
=============================================================================
