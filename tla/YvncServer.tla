----------------------------- MODULE YvncServer -----------------------------
(***************************************************************************)
(* The VNC server's frame pacing (yvnc/vnc-server.c) over the tile-diff    *)
(* engine (yrender-utils/tile-diff.c) and the render cycle that drives     *)
(* both: what is drawn reaches every viewer, each at its own pace, by      *)
(* stop and wait.                                                          *)
(*                                                                         *)
(* The server's process is one thread.  What runs between two of its       *)
(* events is the GPU, which reads a frame back, and the viewers.  Tile     *)
(* mode only: H.264 and merged rectangles are left out, and how a tile is  *)
(* encoded.                                                                *)
(***************************************************************************)
EXTENDS Naturals, Sequences, FiniteSets

CONSTANTS
  Viewers,          \* connections that may exist, each to a viewer of its own
  Sizes,            \* sizes the window can have
  Tiles,            \* tile positions
  Grid,             \* Grid[w]: tiles of a window of size w
  Pixels,           \* contents of a tile
  Black,            \* content of a cleared texture
  FirstSize,        \* size of the window at the start
  TextureSize,      \* and of a viewer's texture before its first frame
  MAX_TCP_CLIENTS,  \* connection slots of the TCP server; MAX_CLIENTS is the same
  Bounds            \* how many draws, connects and faults are explored

NoSize == "none"
ASSUME SizesAssumption  == NoSize \notin Sizes /\ {FirstSize, TextureSize} \subseteq Sizes
ASSUME GridAssumption   == Grid \in [Sizes -> (SUBSET Tiles) \ {{}}]
ASSUME BoundsAssumption == Bounds \in [draws : Nat, connects : Nat, faults : Nat]

VARIABLES
  screen,    \* the render target: its size and what each tile shows
  pending,   \* render_pending of the event loop
  engine,    \* the diff engine; base is prev_texture, and the frame read back
  server,    \* last_width and force_full_frame
  ctx,       \* ctx[c]: the server's context of connection c
  slots,     \* occupied entries of conns[] of the TCP server
  link,      \* link[c]: the TCP connection
  toViewer,  \* toViewer[c]: frames on their way
  acks,      \* acks[c]: FRAME_ACKs on their way
  pic,       \* pic[c]: the texture of viewer c
  stuck,     \* viewers that hang, or wait for a tile that was not sent
  failed,    \* a readback has failed (history)
  left       \* what is left of Bounds

serverVars == <<engine, server, ctx, slots>>
wireVars   == <<link, toViewer, acks>>
viewerVars == <<pic, stuck>>
vars == <<screen, pending, serverVars, wireVars, viewerVars, failed, left>>

Spend(what) == left[what] > 0 /\ left' = [left EXCEPT ![what] = @ - 1]

\* A picture of one colour: outside the grid a texture is black.
Painted(w, p) == [w |-> w, pix |-> [t \in Tiles |-> IF t \in Grid[w] THEN p ELSE Black]]
Cleared(w) == [w |-> w, pix |-> [t \in Tiles |-> Black]]

(***************************************************************************)
(* The application draws and resizes, and requests a render.               *)
(***************************************************************************)
Draw ==
  /\ Spend("draws") /\ pending' = TRUE
  /\ \E t \in Grid[screen.w] : \E p \in Pixels \ {screen.pix[t]} :
       screen' = [screen EXCEPT !.pix[t] = p]
  /\ UNCHANGED <<serverVars, wireVars, viewerVars, failed>>

Resize ==
  /\ Spend("draws") /\ pending' = TRUE
  /\ \E w \in Sizes \ {screen.w}, p \in Pixels : screen' = Painted(w, p)
  /\ UNCHANGED <<serverVars, wireVars, viewerVars, failed>>

(***************************************************************************)
(* RENDER: the loop clears render_pending, then dispatches.                *)
(***************************************************************************)

\* The engine is not told: a plausible bug.
SkippedSilently(E) == E

\* The target is busy: the render is skipped, and the engine told so.
Skipped(E) == [E EXCEPT !.again = TRUE]

RenderSkipped ==
  /\ pending /\ engine.busy
  /\ pending' = FALSE
  /\ engine' = Skipped(engine)
  /\ UNCHANGED <<screen, server, ctx, slots, wireVars, viewerVars, failed, left>>

Watched == \E c \in Viewers : ctx[c].on

RenderUnwatched ==
  /\ pending /\ ~engine.busy /\ ~Watched
  /\ pending' = FALSE
  /\ UNCHANGED <<screen, serverVars, wireVars, viewerVars, failed, left>>

\* ensure_resources: a texture of another size starts without content.
Fits == engine.base.w = screen.w

\* The diff and both copies are in one command buffer, so prev_texture and the
\* pixels read back are the same frame. A full frame marks every tile.
Full == ~Fits \/ ~engine.has \/ engine.force \/ server.force
Dirty == IF Full THEN Grid[screen.w]
         ELSE {t \in Grid[screen.w] : engine.base.pix[t] # screen.pix[t]}

Present ==
  /\ pending /\ ~engine.busy /\ Watched
  /\ pending' = FALSE
  /\ server' = [server EXCEPT !.force = FALSE]
  /\ engine' = [engine EXCEPT !.busy = TRUE, !.base = screen, !.dirty = Dirty,
                              !.force = FALSE, !.has = @ /\ Fits]
  /\ UNCHANGED <<screen, ctx, slots, wireVars, viewerVars, failed, left>>

(***************************************************************************)
(* The readback lands: the sink folds the dirty tiles into what each       *)
(* viewer is owed, and flushes to those that wait for no ACK.              *)
(***************************************************************************)
NoCtx == [on |-> FALSE, need |-> FALSE, owed |-> {}, awaiting |-> FALSE, aseq |-> 0, next |-> 1]

\* Blocked viewers are not marked: a plausible bug.
FoldUnblocked(K) ==
  IF K.awaiting THEN K
  ELSE [K EXCEPT !.need = FALSE,
                 !.owed = IF K.need THEN Grid[engine.base.w] ELSE @ \cup engine.dirty]

\* ensure_cpu_state: another size makes the owed bits meaningless.
Regridded(K) == IF server.w = engine.base.w THEN K ELSE [K EXCEPT !.owed = {}, !.need = TRUE]

Fold(K) ==
  [K EXCEPT !.need = FALSE,
            !.owed = IF K.need THEN Grid[engine.base.w] ELSE @ \cup engine.dirty]

Folded(c) == Fold(Regridded(ctx[c]))

\* check_ack_timeouts closes those whose ACK is overdue (over): tcp_close calls
\* on_disconnect, which frees the context, and leaves the connection in its slot.
\* What was on its way is lost.
Flushes(c, over) == ctx[c].on /\ c \notin over /\ ~ctx[c].awaiting /\ Folded(c).owed # {}

Sent(K) == [K EXCEPT !.owed = {}, !.awaiting = TRUE, !.aseq = K.next, !.next = @ + 1]

\* A tile of `bad` is announced and not sent.
FrameFor(c, bad) ==
  [w |-> engine.base.w, seq |-> ctx[c].next, tiles |-> Folded(c).owed,
   pix |-> [t \in Folded(c).owed \ bad |-> engine.base.pix[t]]]

Land(over, bad) ==
  /\ ctx' = [c \in Viewers |-> IF ~ctx[c].on \/ c \in over THEN NoCtx
                               ELSE IF Flushes(c, over) THEN Sent(Folded(c)) ELSE Folded(c)]
  /\ toViewer' = [c \in Viewers |-> IF c \in over THEN <<>>
                                    ELSE IF Flushes(c, over) /\ link[c] = "open"
                                    THEN Append(toViewer[c], FrameFor(c, bad))
                                    ELSE toViewer[c]]
  /\ acks' = [c \in Viewers |-> IF c \in over THEN <<>> ELSE acks[c]]
  /\ link' = [c \in Viewers |-> IF c \in over THEN "none" ELSE link[c]]
  /\ stuck' = stuck \ over
  /\ server' = [w |-> engine.base.w, force |-> server.force \/ server.w # engine.base.w]
  /\ engine' = [engine EXCEPT !.busy = FALSE, !.again = FALSE, !.has = TRUE, !.dirty = {},
                              !.force = @ \/ server.w # engine.base.w]
  /\ pending' = (pending \/ engine.again)
  /\ UNCHANGED <<screen, slots, pic, failed>>

ReadbackLands == engine.busy /\ Land({}, {}) /\ UNCHANGED left

\* Viewers have been waited for longer than ACK_TIMEOUT_SEC.
Evict ==
  /\ engine.busy /\ Spend("faults")
  /\ \E over \in SUBSET {c \in Viewers : ctx[c].on /\ ctx[c].awaiting} : Land(over, {})

\* encode_tile fails for a tile, after the frame header has counted it.
EncodeFails ==
  /\ engine.busy /\ Spend("faults")
  /\ \E t \in Tiles : (\E c \in Viewers : Flushes(c, {}) /\ t \in Folded(c).owed) /\ Land({}, {t})

\* A map fails: the coroutine ends without the sink, prev_texture is the new one.
ReadbackFails ==
  /\ engine.busy /\ Spend("faults")
  /\ engine' = [engine EXCEPT !.busy = FALSE, !.again = FALSE, !.dirty = {}]
  /\ pending' = (pending \/ engine.again)
  /\ failed' = TRUE
  /\ UNCHANGED <<screen, server, ctx, slots, wireVars, viewerVars>>

(***************************************************************************)
(* Connections.                                                            *)
(***************************************************************************)

\* With every slot taken the connection is accepted and closed at once.
NoSlot == slots = MAX_TCP_CLIENTS

Connect(c) ==
  /\ link[c] = "none" /\ Spend("connects")
  /\ IF NoSlot
     THEN UNCHANGED <<pending, server, ctx, slots, link>>
     ELSE /\ link' = [link EXCEPT ![c] = "open"]
          /\ slots' = slots + 1
          /\ ctx' = [ctx EXCEPT ![c] = [NoCtx EXCEPT !.on = TRUE, !.need = TRUE]]
          /\ server' = [server EXCEPT !.force = TRUE]
          /\ pending' = TRUE
  /\ UNCHANGED <<screen, engine, toViewer, acks, viewerVars, failed>>

\* Any ACK unblocks: a plausible bug.
UnblocksByAny(K, seq) == K.awaiting

\* An ACK of the frame in flight, and no other, unblocks.
Unblocks(K, seq) == K.awaiting /\ seq = K.aseq

TakeAck(c) ==
  /\ ctx[c].on /\ acks[c] # <<>>
  /\ acks' = [acks EXCEPT ![c] = Tail(@)]
  /\ IF Unblocks(ctx[c], Head(acks[c]))
     THEN /\ ctx' = [ctx EXCEPT ![c].awaiting = FALSE]
          /\ pending' = TRUE
     ELSE UNCHANGED <<ctx, pending>>
  /\ UNCHANGED <<screen, engine, server, slots, link, toViewer, viewerVars, failed, left>>

\* The read fails or ends; here the slot is freed.
Disconnect(c) ==
  /\ link[c] = "gone"
  /\ link' = [link EXCEPT ![c] = "none"]
  /\ ctx' = [ctx EXCEPT ![c] = NoCtx]
  /\ acks' = [acks EXCEPT ![c] = <<>>]
  /\ slots' = slots - 1
  /\ UNCHANGED <<screen, pending, engine, server, toViewer, viewerVars, failed, left>>

(***************************************************************************)
(* Viewers.                                                                *)
(***************************************************************************)

\* A frame of another size starts from a cleared texture.
Shown(P, f) ==
  [w |-> f.w, pix |-> [t \in Tiles |-> IF t \in DOMAIN f.pix THEN f.pix[t]
                                       ELSE IF P.w = f.w THEN P.pix[t] ELSE Black]]

\* The last tile announced makes the viewer acknowledge, perhaps twice.
Acknowledge(c, seq) ==
  /\ \/ acks' = [acks EXCEPT ![c] = Append(@, seq)] /\ UNCHANGED left
     \/ acks' = [acks EXCEPT ![c] = @ \o <<seq, seq>>] /\ Spend("faults")
  /\ UNCHANGED stuck

TakeFrame(c) ==
  /\ link[c] = "open" /\ c \notin stuck /\ toViewer[c] # <<>>
  /\ toViewer' = [toViewer EXCEPT ![c] = Tail(@)]
  /\ \E f \in {Head(toViewer[c])} :
       /\ pic' = [pic EXCEPT ![c] = Shown(@, f)]
       /\ IF DOMAIN f.pix = f.tiles THEN Acknowledge(c, f.seq)
          ELSE stuck' = stuck \cup {c} /\ UNCHANGED <<acks, left>>
  /\ UNCHANGED <<screen, pending, serverVars, link, failed>>

Hang(c) ==
  /\ link[c] = "open" /\ c \notin stuck /\ Spend("faults")
  /\ stuck' = stuck \cup {c}
  /\ UNCHANGED <<screen, pending, serverVars, wireVars, pic, failed>>

\* The viewer closes the connection. Its texture survives.
Leave(c) ==
  /\ link[c] = "open"
  /\ link' = [link EXCEPT ![c] = "gone"]
  /\ toViewer' = [toViewer EXCEPT ![c] = <<>>]
  /\ stuck' = stuck \ {c}
  /\ UNCHANGED <<screen, pending, serverVars, acks, pic, failed, left>>

(***************************************************************************)
(* The specification.                                                      *)
(***************************************************************************)
Init ==
  /\ screen = Cleared(FirstSize)
  /\ pending = FALSE
  /\ engine = [busy |-> FALSE, again |-> FALSE, force |-> FALSE, has |-> FALSE,
               base |-> Cleared(NoSize), dirty |-> {}]
  /\ server = [w |-> NoSize, force |-> FALSE]
  /\ ctx = [c \in Viewers |-> NoCtx] /\ slots = 0
  /\ link = [c \in Viewers |-> "none"]
  /\ toViewer = [c \in Viewers |-> <<>>] /\ acks = [c \in Viewers |-> <<>>]
  /\ pic = [c \in Viewers |-> Cleared(TextureSize)]
  /\ stuck = {} /\ failed = FALSE
  /\ left = Bounds

Render == RenderSkipped \/ RenderUnwatched \/ Present
Readback == ReadbackLands \/ Evict \/ EncodeFails \/ ReadbackFails

Next ==
  \/ Draw \/ Resize \/ Render \/ Readback
  \/ \E c \in Viewers : \/ Connect(c) \/ TakeAck(c) \/ Disconnect(c)
                        \/ TakeFrame(c) \/ Hang(c) \/ Leave(c)

Spec == Init /\ [][Next]_vars

\* The loop renders when asked and reads its sockets, the GPU answers, and a
\* viewer that does not hang reads.
FairSpec ==
  /\ Spec
  /\ WF_vars(Render) /\ WF_vars(Readback)
  /\ \A c \in Viewers : WF_vars(TakeAck(c)) /\ WF_vars(TakeFrame(c)) /\ WF_vars(Disconnect(c))

(***************************************************************************)
(* Properties.                                                             *)
(***************************************************************************)
Follows(c) == ctx[c].on /\ link[c] = "open" /\ c \notin stuck

\* Stop and wait: one frame at most is on its way to a viewer, the one the server
\* waits for, and while it waits that frame or its ACK is on the way, whatever
\* repeated ACKs arrive (vnc-server.c 1525-1541, 2213-2219).
StopAndWait ==
  \A c \in Viewers : Follows(c) =>
    /\ Len(toViewer[c]) <= 1
    /\ toViewer[c] # <<>> => ctx[c].awaiting /\ toViewer[c][1].seq = ctx[c].aseq
    /\ ctx[c].awaiting => \/ toViewer[c] # <<>>
                          \/ \E i \in DOMAIN acks[c] : acks[c][i] = ctx[c].aseq

\* When nothing is under way every viewer shows the screen, although tiles changed
\* while it was blocked, renders were skipped while the engine was busy, the window
\* was resized and viewers came and went in between (vnc-server.c 1990-1996,
\* tile-diff.c 261-269). A failed readback loses what it found dirty.
Quiet(c) == toViewer[c] = <<>> /\ acks[c] = <<>>
RestsCurrent ==
  ~pending /\ ~engine.busy /\ ~failed =>
    \A c \in Viewers : Follows(c) /\ Quiet(c) => pic[c] = screen

\* And a viewer that stays gets there.
Converges ==
  \A c \in Viewers : []<>(~Follows(c) \/ failed \/ pic[c] = screen)
=============================================================================
