# yetty — verification project

TLA+ models of the protocol core of yetty (a GPU terminal written in C), checked with TLC on
small instances and proved about with TLAPS for all instances. Paths below are relative to the
repository (`src/src/yetty/...` is the C source, `src/include/yetty/...` its headers).

## 1. Inventory

### Where the concurrency is

yetty is single threaded per process for almost everything it does: a libuv loop dispatches
events to listeners. Its hard behaviour is *between* processes: an in-pane client program and the
terminal host share one byte stream; a `ymux` daemon serves several attached terminals; RPC calls
and remote objects travel over both. So most of what can go wrong is messages that cross on the
wire, a queue or window at its limit, an endpoint that stalls, and a lifecycle in which both ends
act at once. Threads appear in one place, the worker pool, and inside one process the GPU's
readback is the other actor that finishes when it likes.

| Component | State it keeps | Operations | What makes it correct |
|---|---|---|---|
| **ywire dynamic channels** (`ywire/connection.c`, `channel.c`) | per connection: 16 channel slots (3 fixed, 13 dynamic), id counter, scheduler cursor; per channel: out-buffer with flush mark, in-buffer, send window, receive window, consumed bytes, seven lifecycle flags | open, write, flush, read, send_eof, close; demux of OPEN / DATA / EOF / CLOSE / WINDOW_ADJUST; `pump_outbound`, `want_write`, `pump_writable` | each direction is an ordered, lossless byte stream; windows are never overrun and credit is neither lost nor invented; seals follow data; both ends release a closed channel; no channel blocks another |
| **ywire input barrier** (`connection.c`, host half in `yterminal/terminal.c`) | client: hold state, lease, held bytes; host: armed clients, backlog, deadline | hold, present, release, forced release | no keystroke lost, duplicated or reordered across a hold; a dead client cannot hold input for ever |
| **ywire framing** (`ywire/wire-statemachine.c`) | scanner state, partial envelope, carry-over bytes | feed | any chunking of the stream yields the same events |
| **ymux feed path** (`ymux/daemon.c`, `tx-queue.c`, `client.c`, bridge in `tools/ymux/main.c`) | daemon: projector shadow, bounded queue of frames, sent / acknowledged generation, recovery strikes, feed session; bridge: pending bytes, ledger of writes, desync and reset flags | project, enqueue, send, recover, publish, resync; publish to the scene, acknowledge, recreate the grid | frames stay whole, control frames survive recovery, the window never stays closed, the terminal's grid converges to the pane |
| **ymux sessions** (`ymux/session.c`, `pane.c`, `attachment.c`, `daemon.c`) | sessions, attachments, controller, permissions, geometries; per pane the relayed figure channels and their owner; in the bridge the upstream channels | attach, detach, takeover, resize, kill; relay and close of figure channels | one controller, only it resizes, pane and PTY follow its view; the relays of a lost controller end on all three sides |
| **ymux overlay input** (bridge in `tools/ymux/main.c`, `client.c`, `daemon.c`) | ordered input queue, focus flag, ownership backlog, retry queue, sequence in flight; in the daemon the applied sequence | route, retain, send, resend, acknowledge, refuse | exactly-once, in-order application; what follows a click goes where the click went |
| **ymux projector, engine, history** | damage, terminal emulator, history ring with anchors | feed, project, scroll | what is projected equals the pane |
| **yclass RPC** (`yclass/rpc.c`, `rpc-connection-server.c`) | session: pending calls in order, reassembly buffer, completion count; host: reassembly buffer and `dead` per channel; object registry, class tables | call (pipelined, one-way, blocking), pump, dispatch, reply, kill, destroy | nothing on the wire names a call, so the order of requests and replies must pair them; a call counted as completed has been applied |
| **yplatform work pool and loop** (`yworkpool/default.c`, `libuv-event-loop/default.c`) | job queue, live and idle counts, thread handles; the loop's callback queue and its wake-up | submit, run, post, dispatch, destroy | no lost wake-up, each job completes once, the pool outlives its workers |
| **ypty / ytelnet / yssh** | ring buffers, option negotiation state | read, write, resize | no byte lost or reordered |
| **yvnc** (`yvnc/vnc-server.c`, `vnc-client.c`, `yrender-utils/tile-diff.c`) | previous texture, readback in flight; per viewer the owed tiles and the frame it has not acknowledged | render, diff, read back, send, acknowledge, evict | viewers converge, at most one unacknowledged frame |
| **ydvnc** | client of foreign RFB servers | — | — |
| **yctl, yclient, yevent, ynotify, yco, ycore** | small service state | — | — |
| **rendering, scene, fonts, GPU; user interface toolkits; viewers and converters** | large data structures, no protocol | — | pictures |
| **vendored and generated code** | third party | — | out of scope |

### How the parts interact

* A client program opens dynamic channels on its ywire connection; the host's `accept` callback
  binds an RPC server, a PTY or a proxy to the new channel. Data flows by push (raw sink) or pull
  (`read`), and both return credit.
* Everything an endpoint sends leaves through `pump_outbound`. A client that owns its fd is driven
  by readable and writable events; the host in *attach mode* writes synchronously through the pane
  and gets no writable event.
* `ymuxd` holds panes and runs, for each attachment, accept → receive → read PTYs → project →
  transmit in one loop. The attach bridge of `ymux` feeds what it receives to the hosting terminal
  as pipelined scene calls over a ywire channel and acknowledges a feed when its call completes. The
  other way it routes keys and clicks to the pane or to the daemon's overlay, and relays figure
  channels of the pane's application between daemon and terminal.
* A worker's job comes back to the loop thread through the loop's callback queue. Rendering is asked
  for through the loop as well: the VNC server, its diff engine and its viewers meet only there.

### Hazards

PROJECT.json lists the leading ones at their lines, with the properties that would catch them; some
that no property covers stand under the observations of section 5. In a word: credit accounting with
deferred grants; seals overtaking data; both ends closing, with slots reused while old messages are
in flight; the scheduler's high-water stop against the two wake-up rules (writable event,
WINDOW_ADJUST); a recovery that drops frames from a queue whose head is half sent; stale
acknowledgements after a reset; control of a session that changes hands while relayed requests,
answers and closes are in four queues; a resend that races a late answer; a wake-up that is
signalled to a worker on its way out; a render that is skipped because a readback is under way;
replies that only their order ties to their calls.

## 2. Plan

Done, in this order:

1. `YwireStream`, `YwireChannel`, `YwireChannelProofs`
2. `YwireBarrier`, `YwireBarrierProofs`
3. `YmuxFeed`, `YmuxFeedProofs`
4. `YworkPool`, `YworkPoolProofs`
5. `OverlayQueue`, `YmuxOverlay`, `YmuxOverlayProofs`
6. `YmuxSession`, `YmuxSessionProofs`
7. `YvncServer`, `YvncServerProofs`
8. `YclassRpc`, `YclassRpcProofs`

Left:

9. The history ring and its anchors; the framing scanner; the H.264 path of the VNC server.

Composition: `YwireChannel` refines `YwireStream`, `YmuxOverlay` refines `OverlayQueue`. `YclassRpc`
takes its two byte streams to be what `YwireStream` promises, and `YmuxFeed` its queue of scene calls
and replies to be what `YclassRpc` shows of a session without abandoned calls. No module uses a
RECURSIVE operator.

## 3. The modules and the code

Each module keeps the control of the code: every guard, early return, assignment and their order.
Payloads are numbers. PROJECT.json maps each definition to its lines.

### `YwireChannel` (refines `YwireStream`)

`channels[e]` is the slot table of endpoint `e`, one record per `struct yetty_ywire_channel`;
`pump[e]` is the scheduler loop of `pump_outbound`, with its local variables; `wire[e]` the
envelopes `e` has shipped, in order. `accepted`, `delivered`, `told` and `closers` are history.

| Action | Code |
|---|---|
| `Open`, `RecvOpen` | `open_channel`; `on_channel_open` (accept, duplicate id, full table, refusal) |
| `Write`, `Flush`, `Read` | `channel_write`, `channel_flush`, `channel_take` with `grant_credit` |
| `SendEof`, `Close` | `channel_send_eof`, `channel_close`; the seals are sent by the scheduler |
| `EmitData`, `EmitSeals`, `EmitNothing` | one turn of the loop of `pump_outbound`: `emit_one` on the slot under the cursor, then the loop's advance and its high-water test |
| `PumpWritable` | `want_write` and `pump_writable`: the event loop's call for an endpoint that owns its fd |
| `RecvData`, `RecvEof`, `RecvClose`, `RecvWindowAdjust`, `RecvUnknown` | `on_channel_envelope`, `on_channel_close` |

An endpoint is one thread: no other action of `e` is enabled while `pump[e].on`. The other endpoint
runs between any two turns of the loop. Bytes are numbered in the order they are written, so a
buffer offset is a position in the stream. The transport below is a FIFO of envelopes. It fails in
one place only: a `WINDOW_ADJUST` sent out of `channel_take`, whose error the code absorbs.

### `YwireBarrier`

`host` is the terminal's half (armed flag, deadline, backlog, expiry timer, accepted channels,
`client_present`); `client` the program in the pane, in the phases running, waiting for the ACK,
teardown and close drain; `output` and `input` the two directions of the PTY. `typed`, `taken`,
`killed` and `client.misled` are history.

| Action | Code |
|---|---|
| `Type` | `terminal_sink_pty_write` |
| `FeedOpen` … `FeedHold`, `FeedEnd` | one chunk of pane output: envelopes in turn, then `input_barrier_release` |
| `Expire`, `ShellReset` | the expiry timer; RIS / DECSTR printed by the shell |
| `Start`, `SendHold`, `EndAckWait`, `CloseChannel`, `EndTeardown`, `Drain`, `EndDrain` | `yguiapp` / `yguiapp2` exit path: HOLD, bounded wait, teardown, `hold_ack_lease_valid`, `drain_closes` |
| `TakeAck`, `TakeClose` | the client's reading of its input |

A chunk is handled without anything else of the host between its first and last message
(`host.feeding`), and in no time. Time is counted in ticks. The constants of the code are 500 ms for
the wait, 2000 ms of lease, 500 ms of drain and 3000 ms for the host's deadline; what matters is
`ACK_WAIT + LEASE + DRAIN_WAIT <= DEADLINE`, the assumption of the module.

### `YmuxFeed`

| Variable | Code |
|---|---|
| `pane` | what the pane's engine shows: screen version, scroll position, content of a figure, mode bits |
| `daemon` | `struct daemon_connection` (`tx`, `sent`, `session` for `vtsink_proxy`, window, strikes) and the projector's shadows |
| `down`, `up` | frames on the socket |
| `bridge` | client library (`rich_body`, `vtsink_acked`, retry flag) and `struct attach_bridge` (pending bytes, `vt_desynced`, reset flags, ledger, covered and reported generation) |
| `host` | scene calls not yet served, their replies, the grid and figures |

| Action | Code |
|---|---|
| `DaemonReceive`, `DaemonClose` | ACK, VTSINK_PUBLISH and RESYNC of `daemon_handle_frame`; the `want_close` test of the receive step |
| `ProjectBacklogged`, `ProjectNothing`, `ProjectContent` | one pass of `daemon_step_project` for a connection: modes; recovery and strike; closed window; figures and text, with the fit tests and a failing feed |
| `DaemonSend` | `daemon_step_tx`, a unit at a time, so a frame can be half sent |
| `Wake`, `ClientStep` | one iteration of the bridge's loop: resync request, pane wire; `yetty_ymux_client_step` over every frame that has arrived, `attach_flush_content`; then `attach_report_applied` and `attach_perform_receiver_reset` |
| `HostServe` | `terminal_write_content`, figures first, and the reply |

Abstractions. The screen's content is a version number; an incremental feed leads from the version
it was computed against to the next, and applied to anything else leaves `NoText`. Sizes are units:
a complete redraw two, everything else one, so the first can be half sent. `DrawFigure` creates the
figure and later changes its content. The daemon's receive, project and transmit steps may come in
any order and the socket takes any amount, which includes the loop's order. The replies to feeds are
left out: they only complete the daemon's own calls. A closed connection ends the behaviour, as the
bridge exits. `lost` in `ClientStep` stands for VT bytes that could not be kept (allocation) or a
figure whose resource is not cached. Failures of `grid_create` (retried in the next iteration) and
the bridge's input, overlay, selection and relay traffic are left out.

### `YworkPool`

`queue`, `live`, `idle`, `shutdown`, `handle` are the pool; `worker[t]` is where `worker_main` stands,
`submitter[s]` where `yworkpool_submit` does; `posted`, `wake`, `batch` the loop's callback queue.
A region under a mutex is one action, so every interleaving of the regions happens.

| Action | Code |
|---|---|
| `Submit`, `Spawn`, `Rollback` | `yworkpool_submit`: push, signal or claim a slot; `ythread_create` outside the lock; the second region when that fails |
| `WorkerLocks`, `WorkerWakes`, `SpuriousWakeup`, `RunReturns` | `worker_main` between its lock operations and `cond_wait` |
| `Post`, `LoopDetaches`, `LoopRuns` | `post_to_loop`, `on_post_async`; a signal that is pending absorbs the next |
| `Destroy`, `Join`, `Free` | `yworkpool_destroy` |

Faults are a thread that cannot be created and a callback node that cannot be allocated. Two submits
that roll back at once can free a slot twice (see the observations), so `PoolOutlivesWorkers`
and `EveryJobIsDone` speak of behaviours without a fault.

### `YmuxOverlay` (refines `OverlayQueue`)

An event is its number; a record is an entry of the ownership backlog, a large paste being two.

| Action | Code |
|---|---|
| `PressChrome`, `PressContent`, `RawInput`, `FigureKey` | the host's input callbacks, `attach_on_raw` and `attach_pointer_enqueue` |
| `ProcessPress`, `ProcessRaw`, `RetryHead`, `FlushKeys`, `FlushStash` | `attach_process_ordered_input` and its neighbours, with `attach_overlay_retain_or_hold` |
| `OverlayFlush` | `attach_overlay_flush`, which the drain calls as well |
| `ClientReads`, `DaemonHandles` | OVERLAY_INPUT, its ACK and NACK, CHROME_RELEASE |

`OverlayQueue` is what it all promises: owned records are applied one at a time, each once, in order.
The refinement mapping calls a record owned until the daemon has applied it, also while the bridge
does not know. Left out: pointer moves and releases, the byte classifier, detach chords, what copy
mode does with a key besides its exit.

### `YmuxSession`

| Variable | Code |
|---|---|
| `sess` | `struct yetty_ymux_session`: controller, views, PERMISSION_RESIZE, canonical geometry, geometry of the PTY |
| `conn` | the daemon's connection slots, and the bridge's end |
| `toDaemon`, `toClient` | frames on the sockets |
| `relay` | a pane's `rpc_channels` and `rpc_controller` |
| `app`, `pane` | the application's end of its channels and its unread requests |
| `up`, `due` | the bridge's `rpc_channels`, and what yetty has still to answer |

| Action | Code |
|---|---|
| `HandleAttach`, `HandleOrder`, `HandleDetach`, `HandleRelay`, `HandleRelayClose` | `daemon_handle_frame` with `session.c`'s attach, takeover, resize and detach |
| `RxEnd`, `TxFails`, `DropSlow` | the ways a connection slot is reset |
| `SessionNew`, `SessionDetach`, `SessionEnd` | session-new, detach-client, kill-session or the end of the pane's child |
| `PaneCheck`, `Forward`, `PaneClose` | the pane's part of a pump: relays without owner, requests and closes of the application |
| `Start`, `Order`, `Quit`, `ReadExit`, `SeesEnd`, `Crash`, `ReadRelay`, `ReadClose` | the attach bridge |
| `YettyAnswers`, `YettyConfirms`, `YettyCloses` | the terminal behind the bridge, as the bridge sees it |
| `AppCalls`, `AppCloses`, `NextProgram` | the program in the pane, and the one after it |

Abstractions. A session has one pane. The permission token decides nothing in `session.c` and is left
out; `set_permissions` has no caller; the daemon's exit with its last session is left out. Numbers of
requests and answers do not matter, so a channel either waits for an answer or does not.

Every program in a pane numbers its channels from `DYNAMIC_BASE`, so the next one uses the ids of the
last again while the daemon, the frames under way and the bridge may still hold what belonged to the
old ones. A program ends after it has the answer to each of its CLOSEs. Left out: programs that are
killed or end with channels open, several at once in a pane, and an attach on a connection that is
attached already.

`cut` is history: the channels whose message the bridge or the daemon dropped (the entry of the id is
still closing, the bridge's table is full, the open failed, the daemon's table is full, the sender
lost control), or that a bridge asked to close. The last program's loss is forgotten with it, once its
channel has left no trace.

### `YvncServer`

| Variable | Code |
|---|---|
| `screen`, `pending` | the render target; `render_pending` of the loop |
| `engine` | the tile-diff engine: in flight, redraw pending, force full, previous texture, and the dirty bitmap of the readback under way |
| `server`, `ctx` | `last_width` and `force_full_frame`; the context of each viewer: owed tiles, the sequence awaited |
| `slots`, `link`, `toViewer`, `acks` | the TCP server's slots, and the connections |
| `pic`, `stuck` | the viewer's texture; viewers that hang, or wait for a tile that was announced and never sent |

| Action | Code |
|---|---|
| `Draw`, `Resize` | the application changes the window and requests a render |
| `RenderSkipped`, `RenderUnwatched`, `Present` | RENDER of `yetty.c`: target busy; no consumer; `send_frame_gpu` with the engine's submit up to its first await |
| `ReadbackLands`, `Evict`, `EncodeFails`, `ReadbackFails` | the rest of `submit_coro_entry`, with the sink: `ensure_cpu_state`, `check_ack_timeouts`, `encode_and_send_dirty_tiles`, `submit_coro_finish` |
| `Connect`, `TakeAck`, `Disconnect` | `on_tcp_server_connection` with `vnc_server_on_connect`; FRAME_ACK; `on_server_conn_read` at the end of a stream |
| `TakeFrame`, `Hang`, `Leave` | the viewer: `process_tile_data`, `send_frame_ack`, disconnect |

Tile mode only. A tile shows one of a set of pixels and is taken to be decoded exactly; how it is
encoded, and the viewer's parsing of partial reads, are left out. The code falls short of that at the
edges: the server clips a tile to the window (`vnc-server.c:1396-1407`) and the client copies a RAW tile
only when it has the full 64 x 64 size (`vnc-client.c:176`), so a clipped RAW tile stays blank. What is
on its way to an evicted viewer is lost at once. A viewer's texture survives its connection, as in the
client, so the first frame after a reconnect meets it.

### `YclassRpc`

`pending`, `inbound` and `completed` are fields of the session, `waiting` the round-trip that blocks
in `recv`; `inbuf` and `dead` the host's server of the channel; `up` and `down` the bytes between
them. `applied`, `abandoned`, `reads` and `sink` are history: what the host dispatched, whose reply
nobody waits for, and which reply each round-trip and each call of the error sink was given.

| Action | Code |
|---|---|
| `CallVoid`, `CallOneway`, `CallSync` | `rpc_call_void` on an ASYNC session, `rpc_call_oneway`, `rpc_call` and `rpc_call_alloc` up to their blocking read |
| `ReadReply`, `GiveUp` | the rest of the round-trip: `recv_blocking` with a reply; with a timeout, a failed flush or a closed channel |
| `Pump` | `session_pump` with `complete_pending_call` |
| `CloseArrives`, `Destroy` | the host's CLOSE; `session_destroy` |
| `HostReceives` | `rpc_channel_raw_sink` and `rpc_channel_drain` on one DATA message, `rpc_channel_kill` |

The unit is a field of a frame: a request is its header and the units of its body, a reply its
`resp_len` and its payload. A dispatch answers as it likes: ok, an error chain, or nothing (the empty
reply of a failed dispatch). A session that has lost its place in the stream (`garbled`) is not
followed further. Left out: allocation failures, a request written in part, what another user of the
slot does after its release (see the observations), lockstep transports, the caches of remote ids and
the registry of objects behind a dispatch.

## 4. The runs

`CHECK_DEADLOCK FALSE` throughout: consumers, users and programs may stop for good. Bounds on
bytes, opens, keys, clients, resets, changes, generations and faults are guards of the actions that
count. Runs marked † end in a violation that PROJECT.json reports as a finding.

| Run | Instance | Why it is enough | States |
|---|---|---|---|
| `channel_lifecycle` | 1 slot, two opens, 3 bytes, window 2, chunk 2, both ends close, the writer half-closes, grants may fail | the second channel takes the slot while messages of the first are in flight; the window fills and cuts a chunk; closes cross each other and the half-close | 583 k |
| `channel_slots` | 2 slots, an open by each end, chunk 1, high water 3 | both tables can be full and refuse, ids cross, a run needs several rounds | 1.1 M |
| `channel_live` | 1 slot, 5 bytes, window 4, chunk and high water 1, both ends own their fd | the scheduler stops after every byte, so wake-ups carry the rest; the bytes pass the window, with the sender stopped before, at and after the grant threshold | 26 k |
| `channel_attach` † | window 6, high water 2, host attached, 3 bytes from the host | the run stops above the high-water mark and below the grant threshold | — |
| `barrier_pane` | two clients of either kind, 1 channel, 2 keys, 1 reset, kills, deadline 3 | a client can leave a barrier, a timer or a channel behind for the next one; keys before and after each step | 598 k |
| `feed_screen` | queue of 4 units, high water 2, socket 2, pipeline 2, window 1, ledger 1; 2 screens, 1 scroll, 1 figure, 3 generations | backlog, full queue, half-sent frame, closed window and full ledger each happen, recoveries overlap with resets and late ACKs | 794 k |
| `feed_live` | socket and pipeline 1, a mode change, 3 generations, one fault | each kind of fault at every point, with fairness | 292 k |
| `pool_pass` | the loop and another thread submit 3 jobs to 2 workers; one fault | a job finds a worker idle, signalled but not awake, running, leaving, or not born; destroy at any point | 75 k |
| `overlay` | backlog of 1, 3 events of any kind, 2 frames in transit each way, one fault | a full backlog holds a record, a large paste is split, a copy of a frame is in transit behind its refusal | 137 k |
| `session` | 2 bridges in terminals of different size, 1 session, 2 channel ids, tables of 1 in daemon and bridge, 2 starts, 2 orders, 1 fault, 2 calls, 1 close | attach, takeover, detach and loss in any order, with requests, answers and closes in all four queues; both tables overflow; a second program meets the closing channel of the first | 446 k |
| `vnc` | 2 viewers, windows of 1 or 2 tiles, 2 colours, 1 draw or resize, 2 connects, 1 fault | a viewer connects, leaves, hangs or is evicted before, in and after a readback that another draw overtakes; a second draw makes the liveness check too large | 582 k |
| `rpc_pairing` | 3 calls of any kind, bodies of 0 or 2 units, frame cap 3, DATA messages of 1 or 2 units, one fault | a frame is cut by and shares a message with its neighbours, a body below the cap overruns it with the next header, a reply is taken in parts; three calls let one abandoned reply meet a call before and behind its own | 130 k |

What they show:

* `ImplementsStream`, `SealFollowsData`: each direction of a channel is an
  ordered stream, sealed behind its data, whatever the reuse of slots; REMOTE_EOF is told only at
  the end of the stream unless somebody closed the channel.
* `CreditConserved`, `BlockedSenderIsWoken`: deferred grants lose nothing and
  starve nobody. `FairRounds`: the scheduler passes nobody over. `NoOrphan`: closes and refusals end on
  both sides. `FlushedIsDelivered` (with the half-close behind the bytes), `CloseReleasesBoth`: progress.
* `DrainTakesNoKey`: the reason for the barrier. Only an ACK meant for another program defeats it.
  `KeysInOrder`, `ReleasedWhenGone`, `EveryKeyTaken`: holding is orderly and ends.
* `PublishIsAwaited`: the daemon never refuses the PUBLISH that answers its own reset.
  `WindowReopens`: a closed window always has something under way that will reopen it.
  `FramesStayWhole`: recovery never cuts a frame. `RestsCurrent`, `CatchesUp`: the grid shows the
  pane whenever nothing is under way, and gets there.
* `QueuedJobIsAttended`: no wake-up of a worker is lost.
  `PoolOutlivesWorkers`, `EveryJobIsDone`, `DestroyReturns`: the pool is freed after its workers, jobs
  finish, destroy ends.
* `ImplementsQueue`, `SequenceNamesOneEvent`, `TakenInWireOrder`, `InputConserved`, `RawFollowsHit`,
  `EveryInputIsTaken`: overlay input is applied once, whole and in order; nothing is lost or doubled
  between the queues; raw keys follow the click before them; everything arrives in the end.
* `ViewsMatch`, `ControllerAlone`, `CanonicalGeometry`, `ControlIsNotStolen`: the daemon's two tables
  agree, and control, permission and geometry stay together. `RelaysPairAtRest`, `AppIsReleased`: at
  rest the bridges serve the channels the daemon relays, and an application that waits is answered or
  sees its channel closed. Both leave out the channels of `cut`, on which the code does drop a message:
  there a relay may stay without a partner and an application may wait for ever (section 5, the
  observations on sessions and relays). The answer may be a late one to the program before.
* `StopAndWait`, `RestsCurrent`, `Converges`: one frame in flight per viewer, and every viewer that
  follows rests on the screen and gets there.
* `OwnReplies`: while no call has been abandoned every reply reaches its own call. `CompletedIsApplied`:
  the completion count an embedder watches runs ahead of the host by at most one for each abandoned
  call. `DispatchedInOrder`: no request is lost, doubled or overtaken between two DATA messages.
  `QueuedIsCompleted`: a queued call completes whatever the host made of it.

Fairness. `YwireChannel`: the scheduler's loop runs on by itself (weak fairness of each turn); the
peer's reader, the writable event and the pulling consumer are called again and again by their event
loops, but may be disabled in between by a scheduler run of the same thread (strong fairness).
Opens, writes, half-closes and closes are never forced. `YwireBarrier`: the host's loop, the clock
and the reader of the PTY go on. `YmuxFeed`: the daemon's loop, the bridge's loop and the terminal's
RPC server go on (weak fairness of their steps; an iteration that finds nothing to do changes
nothing). `YworkPool`: threads run, a job's `run()` returns, the loop dispatches. `YmuxOverlay`: both
loops go on, and a pump that sends again and again is not refused each time (strong fairness of a
send that goes through). `YmuxSession`: the daemon pumps, bridges poll, yetty answers. `YvncServer`:
the loop renders when asked and reads its sockets, the GPU answers, a viewer that does not hang reads.
`YclassRpc`: the connection delivers, the embedder pumps, a blocked `recv` returns once its reply is there.
The application, the user and faults are never forced.

`CatchesUp` is stated for behaviours in which the bound on generations is not met and the stream is
not desynced for ever again: see the last observation of section 5.

## 5. Proofs and results

### Proved (`YwireChannelProofs`, types, ids and scheduling)

For every number of slots, window, chunk size, high-water mark and bound, from
`ConstantsAssumption` alone:

| Theorem | Says | Argument |
|---|---|---|
| `TypeCorrect` | `Spec => []TypeOK` | `TypeOK` is not inductive: a run of the scheduler looks at a slot that must still hold a channel with an id of the instance, and ids come from offsets. `TypeInv` adds that every used slot tracks an id in `Id` (`TrackedChannel`) and that offsets are even (`EvenOffset`). |
| `RunBounded` | `Spec => []RunIsBounded` | `RunInv`: at position `i` of a round, `queued < HIGH_WATER + i * CHUNK_MAX`; a round starts only below the mark and a turn adds at most a chunk. |
| `RoundsAreFair` | `Spec => []FairRounds` | `FairInv`: a slot that can still send has been served once for each completed round, plus one if the current round has passed it, and no slot more than that. |
| `IdsAreUnique` | `Spec => []UniqueIds` | `IdInv` adds `OpensAllocated`: an id in an OPEN on the wire lies below the allocation counter of its parity, as the ids in use do, so a fresh id meets no tracked one; a duplicate that arrives is refused. |

Each is `Init => Inv`, `Inv /\ [Next]_vars => Inv'` with one step per action, and PTL.

### Proved (`YwireChannelProofs`, order and streams)

For every number of slots, channels and bytes, from `ConstantsAssumption`. All three theorems rest on
one invariant, `OrderInv`. It concerns one channel id at a time: a *view* is what the two ends and
the two wires hold of that id, and every action of `YwireChannel` changes the view of an id by a few
elementary steps (a message appended, a message taken, a slot changed), which have a lemma each.

| Theorem | Says | Argument |
|---|---|---|
| `SealsFollowData` | `Spec => []SealFollowsData` | By itself it is not inductive: `Tidy` says that each wire carries OPEN first and each seal once and last, and `EndInv`, `EofInv` and `CloseInv` tie what is on a wire to the flags of the slot that sent it and to what the other end was told, so that no second seal and no DATA follows. |
| `NoHalfDeadChannel` | `Spec => []NoOrphan` | `OrphanInv`: an end that has not seen the CLOSE has its OPEN or the peer's CLOSE on a wire, or a peer that still has to send one. `OpenInv` and `KnownInv` are needed for the first of these: until its OPEN arrives, the peer has no trace of the id. |
| `ChannelsAreStreams` | `Spec => ImplementsStream` | `StreamInv`: what the consumer was given and what waits for it is a prefix of what was written, the DATA on the wire continues it byte by byte (`Chain`) up to what was sent, and behind an EOF nothing is missing unless somebody closed; `ReasonInv`: a CLOSE has a reason. Then each step maps: a write that is accepted to Accept, DATA delivered to Arrive, an EOF told to TellEof, a CLOSE told to TellClosed, a close to Close, everything else to a stutter. |

### Proved (`YwireChannelProofs`, the flow-control windows)

For every number of slots, channels, messages and bytes, every window, chunk and high-water mark, from
`ConstantsAssumption` and `~ShipMayFail`. The second is needed: `grant_credit` clears `recv_consumed`
and `read()` absorbs the error of the grant, so a grant that cannot be shipped is credit lost.

| Theorem | Says | Argument |
|---|---|---|
| `CreditIsConserved` | `~ShipMayFail => (Spec => []CreditConserved)` | `CreditInv`, beside `OrderInv`. `PairOk` balances the books of the two ends of an id: each action of one end grants `gx`, is granted `gy` and hands `n` bytes to its consumer, and `MoveCredit` shows that the books of both directions balance again (`Ledger`). `EndOk` is needed because an OPEN on the wire announces a window that the acceptor has not got yet: until it is taken, the opener has received, granted and drained nothing and has sent within the default window. |
| `BlockedSendersAreWoken` | `~ShipMayFail => (Spec => []BlockedSenderIsWoken)` | from the balance and `recv_consumed < recv_window_initial` (`EndOk`): `grant_credit` keeps back less than half a window, so the rest of the window of a sender without credit is somewhere under way. |

The grants on a wire are a sum over a sequence, a recursive function (`Credit`): the library's
theorems on recursive functions take an operator, so `CreditIs` shows from its definition that any
function that adds up the same way is this one (`CountUp`, from the well-foundedness of `<`), and
`CreditAppend` and `CreditTail` follow with a witness each.

### Proved (`YwireBarrierProofs`)

For every number of channels, clients, keys and resets, both kinds of clients, with kills, and every
choice of times with `ACK_WAIT + LEASE + DRAIN_WAIT <= DEADLINE` (`BarrierAssumption`; the constants
of the code satisfy it):

| Theorem | Says | Argument |
|---|---|---|
| `BarrierInvariant` | `Spec => [](TypeInv /\ BarrierInv /\ LeaveInv)` | the inductive invariant of the two below |
| `DrainNeverTakesAKey` | `Spec => []DrainTakesNoKey` | `AckInv`: while the answer to the client's HOLD is on its way, the host's deadline is as far behind the end of the client's wait as it was when the HOLD was read, no OPEN is left on the output (`HoldInv`), and no key follows the ACK. `CoverInv` takes over when the ACK is read: the deadline stays behind the lease and the drain (`DeadlineBehind`), as long as one of the channels is open at the host it is armed and no key is on its way (`ArmedWhileOpen`), and the CLOSE of each channel that is awaited precedes any key (`AnsweredFirst`). `NumberInv` tells the client's own ACK from an earlier one, `OpenInv` that the host has the channels the client closes. |
| `NothingHeldWhenGone` | `Spec => []ReleasedWhenGone` | `RestInv`: a host at rest with the barrier armed has a channel or a subscriber. `GoneInv`: what the host will have open once it has read its input (`WillBeOpen`) is open at the client, and it will have a subscriber only while a dcs client runs. |
| `KeysStayInOrder` | `Spec => []KeysInOrder` | `OrderInv`: the keys not yet read are exactly those above the last taken, in the stream and then among the held, increasing up to the last typed. `HeldInv`: only an armed barrier holds keys, so a key written directly meets no backlog. |

### Proved (`YmuxOverlayProofs`)

For every capacity, number of events, copies and faults, from `OverlayAssumption`:

| Theorem | Says | Argument |
|---|---|---|
| `PumpIsAQueue` | `Spec => ImplementsQueue` | `Pump`: the daemon's watermark is the cursor of the bridge's backlog (the sequence its head has, or will be sent with) or one behind it; every copy in transit is of the head, or of a record applied under its sequence; acknowledgements name applied sequences. The fold in `Retain` only extends the queue: `FoldSteps` unfolds it, by induction on its length. |
| `SequencesNameRecords` | `Spec => []SequenceNamesOneEvent` | from `Pump` |
| `TakenAsTheWireBroughtIt` | `Spec => []TakenInWireOrder` | `InOrder`: until a push is refused nothing is set aside, and what was taken, then the ordered queue, is sorted by arrival |
| `RawBytesFollowTheClick` | `Spec => []RawFollowsHit` | `Routed`: no hit is forgotten, what is decided arrived before what waits, and the overlay has lost the focus only to a miss behind every hit decided; so a raw run at the head that meets no focus has that miss before it |
| `NoInputIsLost` | `Spec => []InputConserved` | `Conserved`: the ordered queue, the stash, the overflow, the pane and what is decided or with the chrome split the events among them (`Split`), each queue holds an event once, and the chrome's records are whole events (`Whole`). What a fold of `RetainOrHold` over any number of events adds to the queue is `Gathered` event by event. |

Induction over the natural numbers comes from the well-foundedness of `<` (`NatMin`, `NatInd`), with
a set in place of the predicate.

### Proved (`YworkPoolProofs`)

For every set of submitting threads and every number of workers, jobs and faults, from
`PoolAssumption`. One invariant serves all four theorems:

| Theorem | Says | Argument |
|---|---|---|
| `NoLostWakeup` | `Spec => []QueuedJobIsAttended` | By induction alone it fails: a signal may wake a worker that another job's signal has already woken. `IdleCounts` says which workers `idle_count` counts, so a submit that signals finds a waiter, or one already woken that will look again. |
| `JobsStartInOrder` | `Spec => []StartedInOrder` | `InOrder`: what has started, followed by the queue, is `1 .. next - 1`. |
| `PostsAreNotified` | `Spec => []PostedIsNotified` | `PostedIsNotified` is inductive with the types: the poster between its two steps is the wake-up under way. |
| `WorkersLeaveFirst` | `Spec => []PoolOutlivesWorkers` | `Closing` orders destroy's join behind the shutdown; `SlotsHeld`, without faults, says that every thread born is in a slot, so the join meets it. |

### Proved (`YmuxSessionProofs`)

For every set of clients, sessions, sizes and starts, and every finite set of channels:

| Theorem | Says | Argument |
|---|---|---|
| `TablesAgree` | `Spec => []ViewsMatch` | `Matched(sess, conn)` is kept by four lemmas on pure tables (attach, leave, change in place, end of a session), and each action is one of them; `Queues` says that frames under way ask only for sessions that can exist. |
| `OneController` | `Spec => []ControllerAlone` | part of `Sound`, the invariant of a single session record |
| `GeometryFollows` | `Spec => []CanonicalGeometry` | likewise |
| `ControlStays` | `Spec => ControlIsNotStolen` | an action property, from the same invariant: only TAKEOVER changes the controller and leaves the old one attached. |

### Proved (`YvncServerProofs`)

For every set of viewers, sizes, tiles and pixels, any number of draws, connects and faults, from
`SizesAssumption` and `GridAssumption` (every window has a tile: a frame without one is never
acknowledged):

| Theorem | Says | Argument |
|---|---|---|
| `FramesArePaced` | `Spec => []StopAndWait` | `PacedAt`: sequences on their way, in frames and in acknowledgements, are at most the one awaited, and frames or a matching acknowledgement exist while it is awaited. A repeated acknowledgement has a smaller sequence than any later frame. |
| `ViewersRestCurrent` | `Spec => []RestsCurrent` | `Current`: where a viewer's texture, patched by the frame on its way, differs from the engine's previous texture, the tile is owed, or a full frame is, or it is dirty in the readback under way. `Caught`: the previous texture is the screen, or a render is pending, or the engine will ask for one. `Attended`: a viewer that is owed something and waits for nothing has a render under way. |

### Proved (`YmuxFeedProofs`)

For every capacity, mark, limit and bound of `YmuxFeed` and any number of faults. All rest on one
inductive invariant, `Feeds`, beside the types:

| Theorem | Says | Argument |
|---|---|---|
| `TypeCorrect` | `Spec => []TypeInv` | together with `Feeds`: a feed is shipped only with a generation, an entry only with a call |
| `FeedsHold` | `Spec => []Feeds` | one lemma per helper and per action (below) |
| `PublishAwaited` | `Spec => []PublishIsAwaited` | `Token`: the right to open a session is in one place, with a daemon that has one, in a VTSINK_RESET queued or on the socket, in the client's retry flag or in a PUBLISH. A recovery takes it from the daemon's session and puts it into the reset. |
| `WindowsReopen` | `Spec => []WindowReopens` | `Window`: the generation waited for is queued, on the socket, pending, in the ledger or in an ACK, or a resync is due. For this, generations must grow along the way (`Numbered`, `Reported`): an ACK of an earlier epoch never covers the ledger's next entry. |
| `RestShows` | `Spec => []RestsCurrent` | `Screen`: applied in order to the grid, the calls at the terminal, the pending feeds, the frames on the socket and those queued give the projector's shadow (`Path`, `CallPath`), unless a loss is known to the bridge (`Broken`) or the shadow is void. `ModesFollow`: the last PANE_MODES under way, or else the client, has the modes last sent. |
| `FramesWhole` | `Spec => FramesStayWhole` | an action property: `Kept` leaves the leading frame alone, everything else appends or ships it whole |

What needed care. Between the RESYNC of an iteration and the reset at its end a loss is known that no
frame carries: `Ready` and `Safe` say that a complete redraw is then queued, on the socket, with the
bridge or in the pipeline, or nothing was sent since (`Covers`, `Idle`). An iteration of the bridge
changes everything at once, so it is followed helper by helper over the record it works on. The
recursive functions (`Kept`, `TakeFrames`, `Shown`) are unfolded by an induction on the length of the
sequence each.

### Proved (`YclassRpcProofs`)

For every frame cap, message size, set of body sizes, and any number of calls and faults, from
`RpcAssumption`:

| Theorem | Says | Argument |
|---|---|---|
| `RepliesPaired` | `Spec => [](TypeInv /\ Replies)` | the inductive invariant of the others |
| `TypeCorrect` | `Spec => []TypeOK` | with `completed <= r <= Len(applied)`: no reply is counted twice |
| `DispatchOrder` | `Spec => []DispatchedInOrder` | `Ordered`: the host has dispatched `1 .. n`; its buffer is the beginning of request `n + 1` (`Begun`) and what is on its way continues it unit by unit, up to the last request written unless the session is gone (`Asked`, `AllAsked`) |
| `RepliesAreOwn` | `Spec => []OwnReplies` | `Lined`: while nothing is abandoned, the calls that wait are exactly the calls that follow the `r` replies taken; the next reply is that of call `r + 1`, and an ordinal names one call (`OrdinalNames`) |
| `CountIsPromise` | `Spec => []CompletedIsApplied` | `Promised`: `completed` plus a call's ordinal is at most `r` plus its snapshot plus the calls abandoned. So a count that has reached the snapshot means `r` is at least the ordinal, and of what is not dispatched no reply has been taken (`OrdinalRises`) |

The key is the *ordinal* of a call, its number among those that get a reply. There is one number `r`
of replies taken (`Paired`) to which everything refers: the reply that is half taken (`Halved`), the
replies on their way, which have consecutive ordinals from there (`Replied`) up to the last dispatch
unless the channel is dead (`AllReplied`), and the calls that wait (`Covered`, `Lined`). `r` runs ahead
of `completed` when a round-trip, or nobody, takes a reply. `OwnReplies` and the count do not follow
from each other: after an abandoned call the pairing is off, and the count still keeps its promise.

A DATA message is a fold over its units (`Pumped`, `Drained`). It is followed unit by unit: `StepsExist`
unfolds such a function, and one invariant is carried from a unit to the next.

### Only model-checked

Liveness, out of the prover's reach: `FlushedIsDelivered`, `CloseReleasesBoth`, `EveryKeyTaken`,
`CatchesUp`, `EveryJobIsDone`, `DestroyReturns`, `EveryInputIsTaken`, `AppIsReleased`, `Converges` and
`QueuedIsCompleted`, each under the fairness of section 4.

`RelaysPairAtRest` of `YmuxSession` is checked on its run and not proved. It excludes the channels of
`cut`. A request that meets a closing entry, a full bridge table, a failed open or a full daemon table,
and a CLOSE that a bridge asked for: each happens in the run, and without its exclusion TLC finds a
relayed channel without a partner. An answer refused for lack of control is excluded for
`AppIsReleased`: with three orders control returns to the sender before the pane's check, and the
application waits for ever. Random simulation of larger instances (three ids, tables of one and two in
each combination, eight calls or closes, two faults) finds no other way to break `RelaysPairAtRest`.

`TypeOK`, `RunIsBounded` and `UniqueIds` of the channel and `StartedInOrder` and `PostedIsNotified`
of the pool are proved and no longer run: the theorems say more than their instances.

### Finding

One run ends in a violation of what a comment of the code says; PROJECT.json quotes the lines.
`channel_attach`: a host flush above the 64 KiB high-water mark leaves bytes that no event wakes.

### Observations without a run

* `close()` after `send_eof()`, or a CLOSE of the peer, discards the sealed bytes and still sends
  EOF, against `connection-internal.h:73-75`; and it discards what was flushed, against
  `channel.h:152`. `YwireStream` therefore ties REMOTE_EOF to a complete stream only while nobody
  has closed.
* A grant whose envelope cannot be shipped is lost: `recv_consumed` is already zero and the error
  absorbed (`channel.c:147-148`, `connection.c:278-282`).
* REMOTE_EOF may be told after CLOSED (`connection.c:396-399`, `channel.h:91`).
* `want_write` stays true for an EOF that waits behind window-blocked bytes: the loop spins until
  credit comes (`connection.c:832-842`).
* When the last CLOSE of one program and the first OPEN of the next come in one chunk, the barrier
  stays armed over the new program until the deadline (`terminal.c:682`, `connection.c:1023`).
* A reset the bridge made on its own leaves `receiver_reset_done` set; a later VTSINK_RESET takes it
  for its own and publishes without a new grid (`tools/ymux/main.c:1182-1190` against `1266-1269`).
  The redraw that follows starts with a terminal reset, so the model's grid heals.
* The strike count is cleared by the first projection after a recovery (`daemon.c:2949-2952`), so a
  client that drains nothing is hardly ever closed for it, against `daemon.c:90-92`.
* A desynced bridge sends RESYNC in every iteration. Each provokes a complete TRANSACTION and thereby
  a scene call, and the reset waits for an empty pipeline (`tools/ymux/main.c:1229-1231`): if
  redraws come faster than calls complete, the reset never happens. This is the behaviour
  `CatchesUp` excludes by `<>[]~desynced`.

Barrier and feed:

* The ACK of an earlier program's HOLD is taken for one's own (`connection.c:1171`), against
  `connection.h:191`: the client drains before its HOLD is seen, and a key is swallowed. The model
  marks such a drain (`misled`) and `DrainTakesNoKey` leaves it out.
* The channel a killed program left makes the host refuse, and close, the same id of the next
  program (`connection.c:315-317`); every program numbers its channels from the same id.
* A generation whose scene write failed is acknowledged (`tools/ymux/main.c:1408` against
  `2264-2266`), and the new content of a figure is overwritten by the REPOSITION behind it
  (`client.c:542-547` against `rich-format.h:25-33`).
* At PTY EOF held keys are released into a dead pane (`terminal.c:611`); the expiry timer may fail to
  start after the barrier was armed and acknowledged (`terminal.c:1638`).
* `open_channel` frees its slot when the transport fails although the OPEN may have left
  (`connection.c:785`); an answering CLOSE that cannot be shipped is not tried again
  (`connection.c:351`); channel ids wrap after 2^31 opens (`connection.c:776`).

Work pool:

* A submit whose thread cannot be created reports an error and leaves the job queued: the next worker
  runs it (`yworkpool/default.c:216-224`), while callers free it (`ybrowser-js-web.c:2596, 2609`).
* Two submits that roll back at once both decrement `live_count`: a slot is used twice, and a worker
  is never joined. `idle_count` also counts workers that were signalled and do not run yet, against
  `default.c:7-11`. A callback node that cannot be allocated drops `done()`.

Sessions and relays:

* yetty closes an upstream channel while a request is on its way to the bridge: the bridge opens a new
  one for it, and the daemon, which has forgotten the channel, never closes that (`daemon.c:2299`,
  `tools/ymux/main.c:2202`, against `daemon.c:588-591`).
* The controller is compared once per pump, so control that goes from A to B and back is not noticed
  (`daemon.c:675-700`). `AppIsReleased` leaves out a channel whose answer was refused meanwhile.
* A new attach on a live connection does not release the old relays (`daemon.c:1056-1066`, against
  `934-938`); beyond 16 channels of a pane, figure channels are not tracked (`daemon.c:536`); a full
  table in the bridge or a failed open drops bytes (`tools/ymux/main.c:2223-2231`). The application
  behind each of these waits for ever. A refused attach leaves the bridge idle.
* A program closes its channel and ends; the next one in the pane opens a channel, which has the same
  id (`connection.c:776-778`), and sends a request before yetty has answered the bridge's CLOSE. The
  daemon tracks and relays it (`daemon.c:548-587`), the bridge finds the entry that is still closing
  (`tools/ymux/main.c:2209-2212`), the write fails (`channel.c:40`) and the bytes are dropped
  (`2248-2252`). No fault is needed. The program waits for ever, and the daemon keeps a channel that
  has no upstream, against "a FRESH dynamic channel ... opened once per pane channel" (`2197-2201`).
* In the same situation, an answer to the first program that yetty sent before it saw the CLOSE is
  relayed by id alone (`tools/ymux/main.c:2129-2140`, `daemon.c:2263-2277`) and reaches the second
  program, against "nor misroutes a late response into a reused slot" (`daemon.c:592-594`).
* The token that `session.c:9-13` and `263-266` describe decides nothing.

Overlay input:

* A key the host sends to a focused figure right after a click on the chrome goes to the pane, past
  raw keys still queued (`tools/ymux/main.c:2001-2024` against `2769-2771`): `RawFollowsHit` speaks of
  raw keys only.
* `pending_keys` and `pending_pointers` are handled out of order when the ordered queue could not
  grow (`2742-2744`, `1906-1908`); a failed call drops a press that was accepted (`2847-2850` against
  `1808-1813`); a late CHROME_RELEASE drops a newer claim of the focus; keys between the exit key and
  its release are swallowed. `daemon.c:2015-2018` promises a clean second attempt, but the overflow
  that leads there has already closed the connection (`799-806`).

RPC:

* A call that fails after its request was written (a round-trip that times out, a flush that fails) is
  still applied and answered, and its reply is taken for the next call's (`rpc.c:807`, `1353-1361`).
  From then on `completed_total` runs one ahead, errors reach the sink under the wrong name, and the
  count no longer says that a call is applied, against `rpc.h:399-403`. `abandoned` in the model.
* A reply of length zero, which the host sends for every failed dispatch, is only logged and never
  reaches the error sink (`rpc.c:1222-1226`), against `rpc.h:365` and `rpc-connection-server.c:108-111`;
  `session_destroy` frees pending calls without telling the sink.
* A body within eight bytes of 64 MiB passes the client's check, and with its header, or with the
  beginning of the next frame in the same message, overruns the host's buffer: the channel is closed
  (`rpc-connection-server.c:183`), against its `RPC_CHANNEL_FRAME_MAX` "Match the ordinary RPC path".
* Calls pending on a channel the host has closed stay pending, and round-trips stay refused: a session
  installs no event callback. Nor does it learn that its slot has been given to another channel after
  the release (`connection.c:175-189`, `channel.h:90-93`).

VNC:

* `libuv_tcp_close` never detaches a connection from `conns[]` (`libuv-event-loop/default.c:1461-1485`)
  against "slots hold live connections only" (`1133-1135`): after 16 evictions the server refuses
  every viewer, and stopping it calls `on_disconnect` on freed contexts. `slots` in the model.
* Acknowledgement timeouts are checked when a frame is produced (`vnc-server.c:2010`): a dead viewer
  of a quiet screen is never closed, against `vnc-server.c:1535-1537`.
* A failed map loses what the readback found dirty, and a full-frame request with it: the previous
  texture is already the new one, the sink is not called (against `tile-diff.h`'s "exactly once") and
  no render is requested. `failed` in the model; the properties leave such behaviours out.
* A tile whose encoding fails has been counted in the frame header: the viewer waits for it until the
  timeout.
* In the H.264 path, not modelled: a frame skipped by rate control is not asked for again, a new
  viewer gets no key frame, and `force_h264_idr` does nothing. With merged rectangles the client never
  enters the state that reads a rectangle header. `yguiapp/app.c:352` skips a render of a busy target
  without telling it.

### Not modelled

PROJECT.json lists the parts and reasons: later modules of the plan; numerical, GPU and layout code;
parsers and decoders; generated and vendored code. Within the modelled parts: fixed channels and
envelope framing of ywire, failures of the transport that end a connection, 32-bit wrap-around of
channel ids, the end of a pane's PTY; what section 3 names as left out of each module.
