------------------------- MODULE YwireChannelProofs -------------------------
(***************************************************************************)
(* Theorems about YwireChannel, for every number of slots, channels and    *)
(* bytes and every window, chunk size and high-water mark.                 *)
(*                                                                         *)
(* First the types, that ids are unique, and that a run of the scheduler   *)
(* is bounded and its rounds fair.                                         *)
(*                                                                         *)
(* Then what the two ends of a channel owe each other: a seal never        *)
(* overtakes the data it follows, no end is left half dead, and a          *)
(* connection implements the byte streams of YwireStream.  That part       *)
(* concerns one channel id, whatever else is on the wires: an id is seen   *)
(* through a view (View), the wires through predicates on the messages of  *)
(* the id, and every action is a few elementary steps of the view.         *)
(*                                                                         *)
(* Last the flow-control windows of a channel, as long as a grant reaches  *)
(* the transport (~ShipMayFail: read() drops the error of a grant it could *)
(* not hand over, and that credit is gone): no credit is lost or invented, *)
(* and deferring grants never starves a sender.  The wire holds the grants *)
(* under way, so that part starts with what Append and Tail do to their    *)
(* sum.                                                                    *)
(***************************************************************************)
EXTENDS YwireChannel, TLAPS, SequenceTheorems, WellFoundedInduction

-----------------------------------------------------------------------------
(* Type correctness.  TypeOK alone is not inductive: what is sent on a      *)
(* channel is typed because a slot in use has a proper id, and a new id is   *)
(* proper because the allocation offset stays even.                          *)

(* A slot that is in use carries a dynamic channel id. *)
TrackedChannel == {c \in Channel : c.in_use => c.id \in Id}

(* Every id allocation steps by two. *)
EvenOffset(e) == \E k \in Nat : next_dynamic_offset[e] = 2 * k

TypeInv ==
  /\ TypeOK
  /\ channels \in [Endpoint -> [Slot -> TrackedChannel]]
  /\ \A e \in Endpoint : EvenOffset(e)

(* The slot arithmetic of the scheduler loop wraps at most once. *)
LEMMA WrapOnce ==
  ASSUME NEW n \in Nat \ {0}, NEW a \in 0 .. (n - 1), NEW i \in 0 .. (n - 1)
  PROVE  (a + i) % n = IF a + i < n THEN a + i ELSE a + i - n
<1>1. CASE a + i < n
  BY <1>1
<1>2. CASE a + i >= n
  BY <1>2
<1> QED
  BY <1>1, <1>2

(* There are two endpoints, each the peer of the other. *)
LEMMA PeerEndpoint ==
  ASSUME NEW e \in Endpoint
  PROVE  Peer(e) \in Endpoint /\ Peer(e) # e /\ Peer(Peer(e)) = e
  BY DEF Endpoint, Peer

(* Channel ids are numbers. *)
LEMMA IdNat == ASSUME ConstantsAssumption PROVE Id \subseteq Nat
  BY DEF ConstantsAssumption, Id, OwnId, DYNAMIC_BASE, Parity, Endpoint

(* Well-typed control messages. *)
LEMMA ControlType ==
  ASSUME NEW kind \in MsgKind, NEW id \in Id, NEW window \in Nat
  PROVE  <<Control(kind, id, window)>> \in Seq(Message)
<1>1. <<>> \in Seq(Nat)
  BY EmptySeq
<1> QED
  BY <1>1 DEF Control, Message

(* Shipping nothing is well typed. *)
LEMMA EmptyType == <<>> \in Seq(Message)
  BY EmptySeq

(* What one scheduler step may send of a channel. *)
LEMMA ChunkBound ==
  ASSUME NEW c \in Channel
  PROVE  /\ Chunk(c) \in Int
         /\ Chunk(c) <= CHUNK_MAX
         /\ Chunk(c) <= c.send_window
         /\ Chunk(c) <= Pending(c)
  BY ConstantsAssumption DEF ConstantsAssumption, Chunk, Smaller, Pending, Channel

(* The DATA message of a channel in use is well typed. *)
LEMMA DataType ==
  ASSUME NEW c \in TrackedChannel, c.in_use, NEW n \in Nat
  PROVE  <<Data(c.id, NextBytes(c, n))>> \in Seq(Message)
<1>1. \A k \in 1 .. n : c.outbuf_off + k \in Nat
  BY DEF TrackedChannel, Channel
<1>2. NextBytes(c, n) \in Seq(Nat)
  BY <1>1 DEF NextBytes
<1> QED
  BY <1>2 DEF Data, Message, MsgKind, TrackedChannel

(* A freed slot is well typed. *)
LEMMA FreeChannelType == FreeChannel \in TrackedChannel
<1>1. <<>> \in Seq(Nat)
  BY EmptySeq
<1> QED
  BY <1>1 DEF FreeChannel, TrackedChannel, Channel

(* A freshly opened or accepted channel is well typed. *)
LEMMA DynamicChannelType ==
  ASSUME NEW id \in Id, NEW sink \in Sinks, NEW sw \in Nat, NEW rw \in Nat
  PROVE  DynamicChannel(id, sink, sw, rw) \in TrackedChannel
<1>1. <<>> \in Seq(Nat)
  BY EmptySeq
<1> QED
  BY <1>1, ConstantsAssumption
  DEF ConstantsAssumption, DynamicChannel, FreeChannel, TrackedChannel, Channel

(* Releasing a slot keeps it well typed. *)
LEMMA ReleaseType ==
  ASSUME NEW c \in TrackedChannel
  PROVE  MaybeRelease(c) \in TrackedChannel
  BY FreeChannelType DEF MaybeRelease

(* Granting credit keeps a channel well typed, and in use. *)
LEMMA GrantCreditType ==
  ASSUME NEW c \in TrackedChannel, NEW n \in Nat
  PROVE  GrantCredit(c, n) \in TrackedChannel /\ GrantCredit(c, n).in_use = c.in_use
<1>1. \A k \in Nat : [c EXCEPT !.recv_consumed = k] \in TrackedChannel
  BY DEF TrackedChannel, Channel
<1>2. 0 \in Nat /\ c.recv_consumed + n \in Nat /\ c \in Channel
  BY DEF TrackedChannel, Channel
<1>3. \/ GrantCredit(c, n) = c
      \/ GrantCredit(c, n) = [c EXCEPT !.recv_consumed = 0]
      \/ GrantCredit(c, n) = [c EXCEPT !.recv_consumed = c.recv_consumed + n]
  BY DEF GrantCredit
<1> QED
  BY <1>1, <1>2, <1>3 DEF Channel

(* The messages of a grant are well typed. *)
LEMMA GrantMessagesType ==
  ASSUME NEW c \in TrackedChannel, c.in_use, NEW n \in Nat
  PROVE  GrantMessages(c, n) \in Seq(Message)
<1>1. c.id \in Id /\ c.recv_consumed + n \in Nat
  BY DEF TrackedChannel, Channel
<1> QED
  BY <1>1, ControlType, EmptyType DEF GrantMessages, MsgKind

(* Dropping the pending bytes keeps a channel well typed. *)
LEMMA DropPendingType ==
  ASSUME NEW c \in TrackedChannel
  PROVE  DropPending(c) \in TrackedChannel
  BY DEF DropPending, TrackedChannel, Channel

(* Storing a well-typed channel keeps the channel tables well typed. *)
LEMMA SetChannelType ==
  ASSUME channels \in [Endpoint -> [Slot -> TrackedChannel]],
         NEW e \in Endpoint, NEW s \in Slot, NEW c \in TrackedChannel,
         SetChannel(e, s, c)
  PROVE  channels' \in [Endpoint -> [Slot -> TrackedChannel]]
  BY DEF SetChannel

(* Shipping well-typed messages keeps the wires well typed. *)
LEMMA ShipType ==
  ASSUME wire \in [Endpoint -> Seq(Message)],
         NEW e \in Endpoint, NEW msgs \in Seq(Message), Ship(e, msgs)
  PROVE  wire' \in [Endpoint -> Seq(Message)]
<1>1. wire[e] \o msgs \in Seq(Message)
  BY ConcatProperties
<1> QED
  BY <1>1 DEF Ship

(* Taking one message off and replying keeps the wires well typed. *)
LEMMA TakeAndShipType ==
  ASSUME wire \in [Endpoint -> Seq(Message)],
         NEW e \in Endpoint, NEW msgs \in Seq(Message),
         Inbound(e) # <<>>, TakeAndShip(e, msgs)
  PROVE  wire' \in [Endpoint -> Seq(Message)]
<1>1. wire[e] \o msgs \in Seq(Message)
  BY ConcatProperties
<1>2. Tail(wire[Peer(e)]) \in Seq(Message)
  BY HeadTailProperties, PeerEndpoint DEF Inbound
<1>3. wire' = [wire EXCEPT ![Peer(e)] = Tail(wire[Peer(e)]), ![e] = wire[e] \o msgs]
  BY PeerEndpoint DEF TakeAndShip
<1> QED
  BY <1>1, <1>2, <1>3

PumpType == [on : BOOLEAN, i : Slot, queued : Nat, progress : BOOLEAN, served : [Slot -> Nat]]

(* The idle scheduler loop is well typed. *)
LEMMA IdlePumpType == IdlePump \in PumpType
  BY ConstantsAssumption DEF IdlePump, PumpType, Slot, ConstantsAssumption

(* Starting the scheduler loop keeps it well typed. *)
LEMMA StartPumpType ==
  ASSUME pump \in [Endpoint -> PumpType], NEW e \in Endpoint, StartPump(e)
  PROVE  pump' \in [Endpoint -> PumpType]
<1>1. [IdlePump EXCEPT !.on = TRUE] \in PumpType
  BY IdlePumpType DEF PumpType
<1> QED
  BY <1>1 DEF StartPump

(* The scheduler loop only looks at slots of the table. *)
LEMMA PumpSlotType ==
  ASSUME TypeOK, NEW e \in Endpoint
  PROVE  PumpSlot(e) \in Slot
<1>1. NSlots \in Nat \ {0} /\ outbound_cursor[e] \in 0 .. (NSlots - 1)
                          /\ pump[e].i \in 0 .. (NSlots - 1)
  BY ConstantsAssumption DEF ConstantsAssumption, TypeOK, Slot
<1>2. PumpSlot(e) = IF outbound_cursor[e] + pump[e].i < NSlots
                      THEN outbound_cursor[e] + pump[e].i
                      ELSE outbound_cursor[e] + pump[e].i - NSlots
  BY <1>1, WrapOnce DEF PumpSlot
<1> QED
  BY <1>1, <1>2 DEF Slot

(* A step of the scheduler loop keeps it and the cursor well typed. *)
LEMMA PumpAdvanceType ==
  ASSUME TypeOK, NEW e \in Endpoint, NEW n \in Nat, PumpAdvance(e, n)
  PROVE  pump' \in [Endpoint -> PumpType] /\ outbound_cursor' \in [Endpoint -> Slot]
<1> DEFINE served == [pump[e].served EXCEPT ![PumpSlot(e)] = IF n > 0 THEN @ + 1 ELSE @]
           queued == pump[e].queued + n
           progress == pump[e].progress \/ n > 0
<1>1. pump[e] \in PumpType /\ outbound_cursor[e] \in Slot
  BY DEF TypeOK, PumpType
<1>2. served \in [Slot -> Nat]
  BY <1>1, PumpSlotType DEF PumpType
<1>3. queued \in Nat /\ progress \in BOOLEAN
  BY <1>1 DEF PumpType
<1>4. pump[e].i # NSlots - 1 => pump[e].i + 1 \in Slot
  BY SMTT(40), <1>1, ConstantsAssumption DEF PumpType, Slot, ConstantsAssumption
<1>5. (outbound_cursor[e] + 1) % NSlots \in Slot
  BY <1>1, ConstantsAssumption DEF Slot, ConstantsAssumption
<1>6. 0 \in Slot
  BY ConstantsAssumption DEF Slot, ConstantsAssumption
<1> HIDE DEF served, queued, progress
<1>7. \E p \in PumpType : pump' = [pump EXCEPT ![e] = p]
  <2>1. CASE pump[e].i # NSlots - 1
    <3>1. pump' = [pump EXCEPT ![e] = [on |-> TRUE, i |-> pump[e].i + 1, queued |-> queued,
                                       progress |-> progress, served |-> served]]
      BY <2>1 DEF PumpAdvance, served, queued, progress
    <3> QED
      BY <2>1, <3>1, <1>2, <1>3, <1>4 DEF PumpType
  <2>2. CASE pump[e].i = NSlots - 1 /\ GoesOn(progress, queued)
    <3>1. pump' = [pump EXCEPT ![e] = [on |-> TRUE, i |-> 0, queued |-> queued,
                                       progress |-> FALSE, served |-> served]]
      BY <2>2 DEF PumpAdvance, served, queued, progress
    <3> QED
      BY <3>1, <1>2, <1>3, <1>6 DEF PumpType
  <2>3. CASE pump[e].i = NSlots - 1 /\ ~GoesOn(progress, queued)
    <3>1. pump' = [pump EXCEPT ![e] = IdlePump]
      BY <2>3 DEF PumpAdvance, served, queued, progress
    <3> QED
      BY <3>1, IdlePumpType
  <2> QED
    BY <2>1, <2>2, <2>3
<1>8. outbound_cursor' \in [Endpoint -> Slot]
  BY <1>5, <1>1 DEF PumpAdvance, TypeOK
<1> QED
  BY ZenonT(40), <1>7, <1>8 DEF TypeOK, PumpType

(* Telling an event keeps the history of events well typed. *)
LEMMA TellType ==
  ASSUME told \in [Endpoint -> [Id -> Seq({"REMOTE_EOF", "CLOSED"})]],
         NEW e \in Endpoint, NEW id \in Id,
         NEW event \in {"REMOTE_EOF", "CLOSED"}, Tell(e, id, event)
  PROVE  told' \in [Endpoint -> [Id -> Seq({"REMOTE_EOF", "CLOSED"})]]
<1>1. Append(told[e][id], event) \in Seq({"REMOTE_EOF", "CLOSED"})
  OBVIOUS
<1> QED
  BY <1>1 DEF Tell

(* Delivering bytes keeps the history of bytes well typed. *)
LEMMA DeliverType ==
  ASSUME delivered \in [Endpoint -> [Id -> Seq(Nat)]],
         NEW e \in Endpoint, NEW id \in Id, NEW bytes \in Seq(Nat),
         delivered' = [delivered EXCEPT ![e][id] = @ \o bytes]
  PROVE  delivered' \in [Endpoint -> [Id -> Seq(Nat)]]
<1>1. delivered[e][id] \o bytes \in Seq(Nat)
  BY ConcatProperties
<1> QED
  BY <1>1

(* The initial state satisfies the type invariant. *)
LEMMA InitType == Init => TypeInv
<1> SUFFICES ASSUME Init PROVE TypeInv
  OBVIOUS
<1>1. channels \in [Endpoint -> [Slot -> TrackedChannel]]
  BY FreeChannelType DEF Init
<1>2. outbound_cursor \in [Endpoint -> Slot]
  BY ConstantsAssumption DEF Init, Slot, ConstantsAssumption
<1>3. pump \in [Endpoint -> PumpType]
  BY IdlePumpType DEF Init
<1>4. wire \in [Endpoint -> Seq(Message)]
  BY EmptySeq DEF Init
<1>5. delivered \in [Endpoint -> [Id -> Seq(Nat)]]
  BY EmptySeq DEF Init
<1>6. told \in [Endpoint -> [Id -> Seq({"REMOTE_EOF", "CLOSED"})]]
  BY EmptySeq DEF Init
<1>7. \A e \in Endpoint : EvenOffset(e)
  BY DEF Init, EvenOffset
<1>8. channels \in [Endpoint -> [Slot -> Channel]]
  BY <1>1 DEF TrackedChannel
<1>9. /\ next_dynamic_offset \in [Endpoint -> Nat]
      /\ accepted \in [Endpoint -> [Id -> Nat]]
      /\ closers \in [Endpoint -> SUBSET Id]
  BY DEF Init
<1> QED
  BY <1>1, <1>2, <1>3, <1>4, <1>5, <1>6, <1>7, <1>8, <1>9 DEF TypeInv, TypeOK, PumpType

(* What it means that a lookup finds a slot. *)
LEMMA LookupFacts ==
  ASSUME NEW e \in Endpoint, NEW id, NEW s \in Lookup(e, id)
  PROVE  s \in Slot /\ channels[e][s].in_use /\ channels[e][s].id = id
  BY DEF Lookup, InUse

(* The allocation arithmetic of open_channel. *)
LEMMA NewIdType ==
  ASSUME TypeInv, NEW e \in Endpoint, next_dynamic_offset[e] < 2 * MaxOpens[e]
  PROVE  DYNAMIC_BASE + next_dynamic_offset[e] + Parity(e) \in OwnId(e) \cap Id
<1>1. PICK k \in Nat : next_dynamic_offset[e] = 2 * k
  BY DEF TypeInv, EvenOffset
<1>2. k \in 0 .. (MaxOpens[e] - 1)
  BY <1>1, ConstantsAssumption DEF ConstantsAssumption
<1>3. DYNAMIC_BASE + next_dynamic_offset[e] + Parity(e) = DYNAMIC_BASE + 2 * k + Parity(e)
  BY <1>1
<1> QED
  BY <1>2, <1>3 DEF OwnId, Id, Endpoint

(* open_channel preserves the type invariant. *)
LEMMA OpenType ==
  ASSUME TypeInv, NEW e \in Endpoint, Open(e)
  PROVE  TypeInv'
<1> DEFINE id == DYNAMIC_BASE + next_dynamic_offset[e] + Parity(e)
<1>1. id \in Id
  BY NewIdType DEF Open
<1> HIDE DEF id
<1>2. PICK s \in Slot, window \in InitialWindows, sink \in Sinks :
        /\ SetChannel(e, s, DynamicChannel(id, sink, WINDOW_DEFAULT, OrDefault(window)))
        /\ Ship(e, <<Control("OPEN", id, window)>>)
  BY DEF Open, id
<1>3. window \in Nat /\ OrDefault(window) \in Nat /\ WINDOW_DEFAULT \in Nat
  BY ConstantsAssumption DEF ConstantsAssumption, OrDefault
<1>4. channels' \in [Endpoint -> [Slot -> TrackedChannel]]
  BY <1>1, <1>2, <1>3, DynamicChannelType, SetChannelType DEF TypeInv
<1>5. wire' \in [Endpoint -> Seq(Message)]
  BY <1>1, <1>2, <1>3, ControlType, ShipType DEF TypeInv, TypeOK, MsgKind
<1>6. next_dynamic_offset' \in [Endpoint -> Nat] /\ \A f \in Endpoint : EvenOffset(f)'
  <2>1. next_dynamic_offset' = [next_dynamic_offset EXCEPT ![e] = next_dynamic_offset[e] + 2]
    BY DEF Open, NextOffset
  <2>2. next_dynamic_offset' \in [Endpoint -> Nat]
    BY <2>1 DEF TypeInv, TypeOK
  <2>3. ASSUME NEW f \in Endpoint PROVE EvenOffset(f)'
    <3>1. PICK k \in Nat : next_dynamic_offset[f] = 2 * k
      BY DEF TypeInv, EvenOffset
    <3>2. next_dynamic_offset'[f] = 2 * k \/ next_dynamic_offset'[f] = 2 * (k + 1)
      BY <2>1, <3>1 DEF TypeInv, TypeOK
    <3>3. k + 1 \in Nat
      OBVIOUS
    <3> QED
      BY <3>2, <3>3 DEF EvenOffset
  <2> QED
    BY <2>2, <2>3
<1>7. channels' \in [Endpoint -> [Slot -> Channel]]
  BY <1>4 DEF TrackedChannel
<1> QED
  BY <1>4, <1>5, <1>6, <1>7 DEF TypeInv, TypeOK, Open

(* What is left to show for an action that allocates no id. *)
LEMMA TypeInvParts ==
  ASSUME TypeInv, UNCHANGED next_dynamic_offset,
         channels' \in [Endpoint -> [Slot -> TrackedChannel]],
         outbound_cursor' \in [Endpoint -> Slot],
         pump' \in [Endpoint -> PumpType],
         wire' \in [Endpoint -> Seq(Message)],
         accepted' \in [Endpoint -> [Id -> Nat]],
         delivered' \in [Endpoint -> [Id -> Seq(Nat)]],
         told' \in [Endpoint -> [Id -> Seq({"REMOTE_EOF", "CLOSED"})]],
         closers' \in [Endpoint -> SUBSET Id]
  PROVE  TypeInv'
<1>1. channels' \in [Endpoint -> [Slot -> Channel]]
  BY DEF TrackedChannel
<1>2. \A e \in Endpoint : EvenOffset(e)'
  BY DEF TypeInv, EvenOffset
<1> QED
  BY <1>1, <1>2 DEF TypeInv, TypeOK, PumpType

(* The parts of the type invariant, to cite. *)
LEMMA TypeInvUse ==
  ASSUME TypeInv
  PROVE  /\ channels \in [Endpoint -> [Slot -> TrackedChannel]]
         /\ outbound_cursor \in [Endpoint -> Slot]
         /\ pump \in [Endpoint -> PumpType]
         /\ wire \in [Endpoint -> Seq(Message)]
         /\ accepted \in [Endpoint -> [Id -> Nat]]
         /\ delivered \in [Endpoint -> [Id -> Seq(Nat)]]
         /\ told \in [Endpoint -> [Id -> Seq({"REMOTE_EOF", "CLOSED"})]]
         /\ closers \in [Endpoint -> SUBSET Id]
  BY DEF TypeInv, TypeOK, PumpType

(* Taking n bytes off a buffer leaves two well-typed parts. *)
LEMMA SplitType ==
  ASSUME NEW bytes \in Seq(Nat), NEW n \in 1 .. Len(bytes)
  PROVE  /\ n \in Nat
         /\ SubSeq(bytes, 1, n) \in Seq(Nat)
         /\ SubSeq(bytes, n + 1, Len(bytes)) \in Seq(Nat)
<1>1. n \in Nat /\ n + 1 \in Int /\ Len(bytes) \in Nat
  BY LenProperties
<1>2. \A k \in 1 .. n : bytes[k] \in Nat
  BY <1>1, ElementOfSeq
<1>3. \A k \in (n + 1) .. Len(bytes) : bytes[k] \in Nat
  BY <1>1, ElementOfSeq
<1> QED
  BY <1>1, <1>2, <1>3, SubSeqProperties

(* The consumer's calls preserve the type invariant. *)
LEMMA ConsumerType ==
  ASSUME TypeInv, NEW e \in Endpoint, NEW s \in Slot, Consumer(e, s)
  PROVE  TypeInv'
<1> DEFINE c == channels[e][s]
<1>0. c \in TrackedChannel
  BY TypeInvUse
<1>1. CASE Write(e, s)
  <2>1. PICK n \in 1 .. MaxBytes[e] :
          /\ SetChannel(e, s, [c EXCEPT !.written = @ + n])
          /\ accepted' = [accepted EXCEPT ![e][c.id] = @ + n]
    BY <1>1 DEF Write
  <2>2. c.in_use /\ c.id \in Id /\ n \in Nat
    BY <1>0, <1>1, ConstantsAssumption DEF Write, TrackedChannel, ConstantsAssumption
  <2>3. [c EXCEPT !.written = @ + n] \in TrackedChannel
    <3>1. PICK w \in Nat : w = c.written + n
      BY <1>0, <2>2 DEF TrackedChannel, Channel
    <3>2. [c EXCEPT !.written = w] \in TrackedChannel
      BY <1>0 DEF TrackedChannel, Channel
    <3> QED
      BY <3>1, <3>2
  <2>4. channels' \in [Endpoint -> [Slot -> TrackedChannel]]
    BY <2>1, <2>3, SetChannelType, TypeInvUse
  <2>5. accepted' \in [Endpoint -> [Id -> Nat]]
    BY <2>1, <2>2, TypeInvUse
  <2> QED
    BY <1>1, <2>4, <2>5, TypeInvUse, TypeInvParts DEF Write
<1>2. CASE Flush(e, s)
  <2>1. [c EXCEPT !.flush_mark = c.written] \in TrackedChannel
    BY <1>0 DEF TrackedChannel, Channel
  <2>2. channels' \in [Endpoint -> [Slot -> TrackedChannel]]
    BY <1>2, <2>1, SetChannelType, TypeInvUse DEF Flush
  <2>3. pump' \in [Endpoint -> PumpType]
    BY <1>2, StartPumpType, TypeInvUse DEF Flush
  <2> QED
    BY <1>2, <2>2, <2>3, TypeInvUse, TypeInvParts DEF Flush
<1>3. CASE Read(e, s)
  <2>1. PICK n \in 1 .. Len(c.inbuf), ok \in BOOLEAN :
          LET taken == [c EXCEPT !.inbuf = SubSeq(c.inbuf, n + 1, Len(c.inbuf))]
          IN  /\ SetChannel(e, s, MaybeRelease(GrantCredit(taken, n)))
              /\ Ship(e, IF ok THEN GrantMessages(taken, n) ELSE <<>>)
              /\ delivered' = [delivered EXCEPT ![e][c.id] = @ \o SubSeq(c.inbuf, 1, n)]
    BY <1>3, ZenonT(20) DEF Read
  <2> DEFINE taken == [c EXCEPT !.inbuf = SubSeq(c.inbuf, n + 1, Len(c.inbuf))]
  <2>2. c.in_use /\ c.id \in Id /\ c.inbuf \in Seq(Nat)
    BY <1>0, <1>3 DEF Read, TrackedChannel, Channel
  <2>3. n \in Nat
    BY <2>2, SplitType
  <2>4. SubSeq(c.inbuf, n + 1, Len(c.inbuf)) \in Seq(Nat)
    BY <2>2, SplitType
  <2>5. SubSeq(c.inbuf, 1, n) \in Seq(Nat)
    BY <2>2, SplitType
  <2>6. taken \in TrackedChannel /\ taken.in_use
    BY <1>0, <2>2, <2>4 DEF TrackedChannel, Channel
  <2> HIDE DEF taken
  <2>7. MaybeRelease(GrantCredit(taken, n)) \in TrackedChannel
    BY <2>3, <2>6, GrantCreditType, ReleaseType
  <2>8. (IF ok THEN GrantMessages(taken, n) ELSE <<>>) \in Seq(Message)
    BY <2>3, <2>6, GrantMessagesType, EmptyType
  <2>9. channels' \in [Endpoint -> [Slot -> TrackedChannel]]
    BY <2>1, <2>7, SetChannelType, TypeInvUse DEF taken
  <2>10. wire' \in [Endpoint -> Seq(Message)]
    BY <2>1, <2>8, ShipType, TypeInvUse DEF taken
  <2>11. delivered' \in [Endpoint -> [Id -> Seq(Nat)]]
    BY <2>1, <2>2, <2>5, DeliverType, TypeInvUse
  <2> QED
    BY <1>3, <2>9, <2>10, <2>11, TypeInvUse, TypeInvParts DEF Read
<1>4. CASE SendEof(e, s)
  <2>1. [c EXCEPT !.flush_mark = c.written, !.eof_requested = TRUE] \in TrackedChannel
    BY <1>0 DEF TrackedChannel, Channel
  <2>2. channels' \in [Endpoint -> [Slot -> TrackedChannel]]
    BY <1>4, <2>1, SetChannelType, TypeInvUse DEF SendEof
  <2>3. pump' \in [Endpoint -> PumpType]
    BY <1>4, StartPumpType, TypeInvUse DEF SendEof
  <2> QED
    BY <1>4, <2>2, <2>3, TypeInvUse, TypeInvParts DEF SendEof
<1>5. CASE Close(e, s)
  <2>1. DropPending(c) \in TrackedChannel
    BY <1>0, DropPendingType
  <2>2. channels' \in [Endpoint -> [Slot -> TrackedChannel]]
    BY <1>5, <2>1, SetChannelType, TypeInvUse DEF Close
  <2>3. pump' \in [Endpoint -> PumpType]
    BY <1>5, StartPumpType, TypeInvUse DEF Close
  <2>4. c.id \in Id
    BY <1>0, <1>5 DEF Close, TrackedChannel
  <2>5. closers' \in [Endpoint -> SUBSET Id]
    BY <1>5, <2>4, TypeInvUse DEF Close
  <2> QED
    BY <1>5, <2>2, <2>3, <2>5, TypeInvUse, TypeInvParts DEF Close
<1> QED
  BY <1>1, <1>2, <1>3, <1>4, <1>5 DEF Consumer

(* A step of the scheduler loop preserves the type invariant. *)
LEMMA EmitType ==
  ASSUME TypeInv, NEW e \in Endpoint, Emit(e)
  PROVE  TypeInv'
<1> DEFINE s == PumpSlot(e)
           c == channels[e][s]
           n == Chunk(c)
<1>0. s \in Slot /\ c \in TrackedChannel /\ c \in Channel
  BY PumpSlotType, TypeInvUse DEF TypeInv, TrackedChannel
<1>1. CASE EmitData(e)
  <2>1. n \in Nat /\ n <= c.send_window /\ c.in_use
    BY <1>0, <1>1, ChunkBound DEF EmitData
  <2> HIDE DEF n
  <2>2. [c EXCEPT !.outbuf_off = @ + n, !.send_window = @ - n] \in TrackedChannel
    <3>0. c.outbuf_off \in Nat /\ c.send_window \in Nat
      BY <1>0 DEF TrackedChannel, Channel
    <3>1. PICK o \in Nat, w \in Nat : o = c.outbuf_off + n /\ w = c.send_window - n
      BY <2>1, <3>0
    <3>2. [c EXCEPT !.outbuf_off = o, !.send_window = w] \in TrackedChannel
      BY <1>0 DEF TrackedChannel, Channel
    <3> QED
      BY <3>1, <3>2
  <2>3. channels' \in [Endpoint -> [Slot -> TrackedChannel]]
    BY <1>0, <1>1, <2>2, SetChannelType, TypeInvUse DEF EmitData, n
  <2>4. <<Data(c.id, NextBytes(c, n))>> \in Seq(Message)
    BY <1>0, <2>1, DataType
  <2>5. wire' \in [Endpoint -> Seq(Message)]
    BY <1>1, <2>4, ShipType, TypeInvUse DEF EmitData, n
  <2>6. pump' \in [Endpoint -> PumpType] /\ outbound_cursor' \in [Endpoint -> Slot]
    BY <1>1, <2>1, PumpAdvanceType DEF EmitData, n, TypeInv
  <2> QED
    BY <1>1, <2>3, <2>5, <2>6, TypeInvUse, TypeInvParts DEF EmitData
<1>2. CASE EmitSeals(e)
  <2>1. c.id \in Id
    BY <1>0, <1>2 DEF EmitSeals, TrackedChannel
  <2>2. [c EXCEPT !.eof_sent = c.eof_requested, !.close_sent = c.close_requested]
          \in TrackedChannel
    BY <1>0 DEF TrackedChannel, Channel
  <2>3. channels' \in [Endpoint -> [Slot -> TrackedChannel]]
    BY <1>0, <1>2, <2>2, ReleaseType, SetChannelType, TypeInvUse DEF EmitSeals
  <2> DEFINE eof == IF c.eof_requested /\ ~c.eof_sent
                      THEN <<Control("EOF", c.id, 0)>> ELSE <<>>
             close == IF c.close_requested /\ ~c.close_sent
                        THEN <<Control("CLOSE", c.id, 0)>> ELSE <<>>
  <2>4. eof \in Seq(Message) /\ close \in Seq(Message)
    BY <2>1, ControlType, EmptyType DEF MsgKind
  <2>5. eof \o close \in Seq(Message)
    BY <2>4, ConcatProperties
  <2>6. Ship(e, eof \o close)
    BY <1>2 DEF EmitSeals
  <2>7. wire' \in [Endpoint -> Seq(Message)]
    BY <2>5, <2>6, ShipType, TypeInvUse
  <2>8. pump' \in [Endpoint -> PumpType] /\ outbound_cursor' \in [Endpoint -> Slot]
    BY <1>2, PumpAdvanceType DEF EmitSeals, TypeInv
  <2> QED
    BY <1>2, <2>3, <2>7, <2>8, TypeInvUse, TypeInvParts DEF EmitSeals
<1>3. CASE EmitNothing(e)
  <2>1. pump' \in [Endpoint -> PumpType] /\ outbound_cursor' \in [Endpoint -> Slot]
    BY <1>3, PumpAdvanceType DEF EmitNothing, TypeInv
  <2> QED
    BY <1>3, <2>1, TypeInvUse, TypeInvParts DEF EmitNothing
<1> QED
  BY <1>1, <1>2, <1>3 DEF Emit

(* A writable event preserves the type invariant. *)
LEMMA PumpWritableType ==
  ASSUME TypeInv, NEW e \in Endpoint, PumpWritable(e)
  PROVE  TypeInv'
<1>1. pump' \in [Endpoint -> PumpType]
  BY StartPumpType, TypeInvUse DEF PumpWritable
<1> QED
  BY <1>1, TypeInvUse, TypeInvParts DEF PumpWritable

(* The demux of a message preserves the type invariant. *)
LEMMA RecvType ==
  ASSUME TypeInv, NEW e \in Endpoint, Recv(e)
  PROVE  TypeInv'
<1> DEFINE m == Head(Inbound(e))
<1>0. Inbound(e) # <<>> /\ m \in Message
  <2>1. Inbound(e) # <<>>
    BY Zenon DEF Recv, RecvOpen, RecvData, RecvEof, RecvClose, RecvWindowAdjust, RecvUnknown,
           Arriving
  <2>2. Inbound(e) \in Seq(Message)
    BY PeerEndpoint, TypeInvUse DEF Inbound
  <2> QED
    BY <2>1, <2>2, HeadTailProperties
<1>a. m.id \in Id /\ m.window \in Nat /\ m.data \in Seq(Nat) /\ Len(m.data) \in Nat
  <2>1. m.id \in Id /\ m.window \in Nat /\ m.data \in Seq(Nat)
    BY <1>0 DEF Message
  <2> QED
    BY <2>1, LenProperties
<1>b. <<>> \in Seq(Message) /\ <<Control("CLOSE", m.id, 0)>> \in Seq(Message)
  BY <1>a, EmptyType, ControlType DEF MsgKind
<1>c. \A s \in Lookup(e, m.id) :
        s \in Slot /\ channels[e][s] \in TrackedChannel /\ channels[e][s].in_use
                  /\ channels[e][s].id = m.id
  BY LookupFacts, TypeInvUse
<1> HIDE DEF m
<1>1. CASE RecvOpen(e)
  <2>1. \/ \E s \in Slot, sink \in Sinks :
             SetChannel(e, s, DynamicChannel(m.id, sink, OrDefault(m.window), WINDOW_DEFAULT))
        \/ UNCHANGED channels
    BY <1>1 DEF RecvOpen, m
  <2>2. OrDefault(m.window) \in Nat /\ WINDOW_DEFAULT \in Nat
    BY <1>a, ConstantsAssumption DEF OrDefault, ConstantsAssumption
  <2>3. channels' \in [Endpoint -> [Slot -> TrackedChannel]]
    BY <1>a, <2>1, <2>2, DynamicChannelType, SetChannelType, TypeInvUse
  <2>4. \E msgs \in Seq(Message) : TakeAndShip(e, msgs)
    BY <1>1, <1>b DEF RecvOpen, m
  <2>5. wire' \in [Endpoint -> Seq(Message)]
    BY <1>0, <2>4, TakeAndShipType, TypeInvUse
  <2> QED
    BY <1>1, <2>3, <2>5, TypeInvUse, TypeInvParts DEF RecvOpen
<1>2. CASE RecvData(e)
  <2>1. PICK s \in Lookup(e, m.id) :
          LET c == channels[e][s]
          IN  \/ TakeAndShip(e, <<>>) /\ UNCHANGED <<channels, delivered>>
              \/ /\ SetChannel(e, s, [c EXCEPT !.inbuf = @ \o m.data])
                 /\ TakeAndShip(e, <<>>)
                 /\ UNCHANGED delivered
              \/ /\ SetChannel(e, s, GrantCredit(c, Len(m.data)))
                 /\ TakeAndShip(e, GrantMessages(c, Len(m.data)))
                 /\ delivered' = [delivered EXCEPT ![e][m.id] = @ \o m.data]
    BY <1>2, Zenon DEF RecvData, m
  <2> DEFINE c == channels[e][s]
  <2>2. s \in Slot /\ c \in TrackedChannel /\ c.in_use
    BY <1>c
  <2>3. [c EXCEPT !.inbuf = @ \o m.data] \in TrackedChannel
    <3>1. c.inbuf \in Seq(Nat)
      BY <2>2 DEF TrackedChannel, Channel
    <3>2. PICK b \in Seq(Nat) : b = c.inbuf \o m.data
      BY <1>a, <3>1, ConcatProperties
    <3>3. [c EXCEPT !.inbuf = b] \in TrackedChannel
      BY <2>2 DEF TrackedChannel, Channel
    <3> QED
      BY <3>2, <3>3
  <2>4. GrantCredit(c, Len(m.data)) \in TrackedChannel
    BY <1>a, <2>2, GrantCreditType
  <2>5. GrantMessages(c, Len(m.data)) \in Seq(Message)
    BY <1>a, <2>2, GrantMessagesType
  <2>6. channels' \in [Endpoint -> [Slot -> TrackedChannel]]
    BY <2>1, <2>2, <2>3, <2>4, SetChannelType, TypeInvUse
  <2>7. wire' \in [Endpoint -> Seq(Message)]
    BY <1>0, <1>b, <2>1, <2>5, TakeAndShipType, TypeInvUse
  <2>8. delivered' \in [Endpoint -> [Id -> Seq(Nat)]]
    BY <1>a, <2>1, DeliverType, TypeInvUse
  <2> QED
    BY <1>2, <2>6, <2>7, <2>8, TypeInvUse, TypeInvParts DEF RecvData
<1>3. CASE RecvEof(e)
  <2>1. PICK s \in Lookup(e, m.id) :
          SetChannel(e, s, [channels[e][s] EXCEPT !.remote_eof = TRUE])
    BY <1>3 DEF RecvEof, m
  <2>2. s \in Slot /\ [channels[e][s] EXCEPT !.remote_eof = TRUE] \in TrackedChannel
    BY ZenonT(40), <1>c DEF TrackedChannel, Channel
  <2>3. channels' \in [Endpoint -> [Slot -> TrackedChannel]]
    BY <2>1, <2>2, SetChannelType, TypeInvUse
  <2>4. wire' \in [Endpoint -> Seq(Message)]
    BY <1>0, <1>3, <1>b, TakeAndShipType, TypeInvUse DEF RecvEof
  <2>5. told' \in [Endpoint -> [Id -> Seq({"REMOTE_EOF", "CLOSED"})]]
    BY <1>3, <1>a, TellType, TypeInvUse DEF RecvEof, m
  <2> QED
    BY <1>3, <2>3, <2>4, <2>5, TypeInvUse, TypeInvParts DEF RecvEof
<1>4. CASE RecvClose(e)
  <2>1. PICK s \in Lookup(e, m.id) :
          LET c == [channels[e][s] EXCEPT !.close_rcvd = TRUE]
          IN  /\ SetChannel(e, s, MaybeRelease(
                    IF c.close_sent THEN c ELSE [DropPending(c) EXCEPT !.close_sent = TRUE]))
              /\ TakeAndShip(e, CloseReply(c))
    BY <1>4 DEF RecvClose, m
  <2> DEFINE c == [channels[e][s] EXCEPT !.close_rcvd = TRUE]
  <2>2. s \in Slot /\ c \in TrackedChannel /\ c.id = m.id
    BY ZenonT(40), <1>c DEF TrackedChannel, Channel
  <2> HIDE DEF c
  <2>3. [DropPending(c) EXCEPT !.close_sent = TRUE] \in TrackedChannel
    BY <2>2, DropPendingType DEF TrackedChannel, Channel
  <2>4. channels' \in [Endpoint -> [Slot -> TrackedChannel]]
    BY <2>1, <2>2, <2>3, ReleaseType, SetChannelType, TypeInvUse DEF c
  <2>5. CloseReply(c) \in Seq(Message)
    BY <1>b, <2>2 DEF CloseReply
  <2>6. wire' \in [Endpoint -> Seq(Message)]
    BY <1>0, <2>1, <2>5, TakeAndShipType, TypeInvUse DEF c
  <2>7. told' \in [Endpoint -> [Id -> Seq({"REMOTE_EOF", "CLOSED"})]]
    BY <1>4, <1>a, TellType, TypeInvUse DEF RecvClose, m
  <2> QED
    BY <1>4, <2>4, <2>6, <2>7, TypeInvUse, TypeInvParts DEF RecvClose
<1>5. CASE RecvWindowAdjust(e)
  <2>1. PICK s \in Lookup(e, m.id) :
          SetChannel(e, s, [channels[e][s] EXCEPT !.send_window = @ + m.window])
    BY <1>5 DEF RecvWindowAdjust, m
  <2>2. [channels[e][s] EXCEPT !.send_window = @ + m.window] \in TrackedChannel
    <3>1. PICK w \in Nat : w = channels[e][s].send_window + m.window
      BY SMTT(40), <1>a, <1>c DEF TrackedChannel, Channel
    <3>2. [channels[e][s] EXCEPT !.send_window = w] \in TrackedChannel
      BY ZenonT(40), <1>c DEF TrackedChannel, Channel
    <3> QED
      BY <3>1, <3>2
  <2>3. channels' \in [Endpoint -> [Slot -> TrackedChannel]]
    BY <1>c, <2>1, <2>2, SetChannelType, TypeInvUse
  <2>4. wire' \in [Endpoint -> Seq(Message)]
    BY <1>0, <1>5, <1>b, TakeAndShipType, TypeInvUse DEF RecvWindowAdjust
  <2>5. pump' \in [Endpoint -> PumpType]
    BY <1>5, StartPumpType, TypeInvUse DEF RecvWindowAdjust
  <2> QED
    BY <1>5, <2>3, <2>4, <2>5, TypeInvUse, TypeInvParts DEF RecvWindowAdjust
<1>6. CASE RecvUnknown(e)
  <2>1. wire' \in [Endpoint -> Seq(Message)]
    BY <1>0, <1>6, <1>b, TakeAndShipType, TypeInvUse DEF RecvUnknown
  <2> QED
    BY <1>6, <2>1, TypeInvUse, TypeInvParts DEF RecvUnknown
<1> QED
  BY <1>1, <1>2, <1>3, <1>4, <1>5, <1>6 DEF Recv

(* Every step preserves the type invariant. *)
LEMMA TypeStep == TypeInv /\ [Next]_vars => TypeInv'
<1> SUFFICES ASSUME TypeInv, [Next]_vars PROVE TypeInv'
  OBVIOUS
<1>1. CASE UNCHANGED vars
  BY <1>1, TypeInvUse, TypeInvParts DEF vars
<1>2. ASSUME NEW e \in Endpoint, Open(e) PROVE TypeInv'
  BY <1>2, OpenType
<1>3. ASSUME NEW e \in Endpoint, NEW s \in Slot, Consumer(e, s) PROVE TypeInv'
  BY <1>3, ConsumerType
<1>4. ASSUME NEW e \in Endpoint, PumpWritable(e) PROVE TypeInv'
  BY <1>4, PumpWritableType
<1>5. ASSUME NEW e \in Endpoint, Emit(e) PROVE TypeInv'
  BY <1>5, EmitType
<1>6. ASSUME NEW e \in Endpoint, Recv(e) PROVE TypeInv'
  BY <1>6, RecvType
<1> QED
  BY <1>1, <1>2, <1>3, <1>4, <1>5, <1>6 DEF Next

(* The type invariant holds in every reachable state. *)
LEMMA TypeInvariant == Spec => []TypeInv
  BY InitType, TypeStep, PTL DEF Spec

(* Every state is well typed; what matters in it is that a send window       *)
(* never goes below zero: emit_one never sends more than its credit          *)
(* (connection.c:439-447), whatever the interleaving.                        *)
THEOREM TypeCorrect == Spec => []TypeOK
<1>1. TypeInv => TypeOK
  BY DEF TypeInv
<1> QED
  BY <1>1, TypeInvariant, PTL

-----------------------------------------------------------------------------
(* The scheduler run.  Two facts make its bounds inductive: how many bytes a *)
(* run may have queued at its i-th slot, and that the run visits the slots    *)
(* in rounds of NSlots distinct ones.                                        *)

BoundedSoFar(e) ==
  pump[e].on => pump[e].queued < HIGH_WATER + pump[e].i * CHUNK_MAX

RunInv == \A e \in Endpoint : BoundedSoFar(e)

(* Initially no run has queued anything. *)
LEMMA InitRun == Init => RunInv
  BY DEF Init, RunInv, BoundedSoFar, IdlePump

(* A run begins with nothing queued. *)
LEMMA StartPumpRun ==
  ASSUME TypeInv, RunInv, NEW e \in Endpoint, StartPump(e)
  PROVE  RunInv'
<1>1. pump \in [Endpoint -> PumpType]
  BY TypeInvUse
<1>2. pump'[e].queued = 0 /\ pump'[e].i = 0
  BY <1>1 DEF StartPump, IdlePump
<1>3. \A f \in Endpoint \ {e} : pump'[f] = pump[f]
  BY <1>1 DEF StartPump
<1> QED
  BY <1>2, <1>3, ConstantsAssumption DEF RunInv, BoundedSoFar, ConstantsAssumption

(* Steps that leave the loops alone keep the bound. *)
LEMMA SamePumpRun ==
  ASSUME RunInv, UNCHANGED pump
  PROVE  RunInv'
  BY DEF RunInv, BoundedSoFar

(* Adding one chunk at slot i keeps the run within its bound. *)
LEMMA PumpAdvanceRun ==
  ASSUME TypeInv, RunInv, NEW e \in Endpoint, pump[e].on,
         NEW n \in Nat, n <= CHUNK_MAX, PumpAdvance(e, n)
  PROVE  RunInv'
<1> DEFINE queued == pump[e].queued + n
           progress == pump[e].progress \/ n > 0
           next == pump[e].i + 1
<1>1. pump \in [Endpoint -> PumpType] /\ pump[e].i \in Nat /\ pump[e].queued \in Nat
  BY TypeInvUse DEF PumpType, Slot
<1>2. HIGH_WATER \in Nat /\ CHUNK_MAX \in Nat
  BY ConstantsAssumption DEF ConstantsAssumption
<1>3. queued \in Nat /\ queued < HIGH_WATER + next * CHUNK_MAX
  <2>1. pump[e].queued < HIGH_WATER + pump[e].i * CHUNK_MAX
    BY DEF RunInv, BoundedSoFar
  <2>2. next * CHUNK_MAX = pump[e].i * CHUNK_MAX + CHUNK_MAX
    BY <1>1, <1>2
  <2>3. pump[e].i * CHUNK_MAX \in Nat
    BY <1>1, <1>2
  <2> QED
    BY <1>1, <1>2, <2>1, <2>2, <2>3
<1>4. \A f \in Endpoint \ {e} : pump'[f] = pump[f]
  BY <1>1 DEF PumpAdvance
<1>5. \/ pump'[e].i = next /\ pump'[e].queued = queued
      \/ pump'[e].i = 0 /\ pump'[e].queued = queued /\ GoesOn(progress, queued)
      \/ pump'[e] = IdlePump
  BY <1>1 DEF PumpAdvance
<1>6. BoundedSoFar(e)'
  <2>1. CASE pump'[e].i = next /\ pump'[e].queued = queued
    BY <1>3, <2>1 DEF BoundedSoFar
  <2>2. CASE pump'[e].i = 0 /\ pump'[e].queued = queued /\ GoesOn(progress, queued)
    <3>1. queued < HIGH_WATER /\ 0 * CHUNK_MAX = 0
      BY <1>2, <2>2 DEF GoesOn
    <3> QED
      BY <1>2, <2>2, <3>1 DEF BoundedSoFar
  <2>3. CASE pump'[e] = IdlePump
    BY <2>3 DEF BoundedSoFar, IdlePump
  <2> QED
    BY <1>5, <2>1, <2>2, <2>3
<1> QED
  BY <1>4, <1>6 DEF RunInv, BoundedSoFar

(* A step of the scheduler loop keeps the bound. *)
LEMMA EmitRun ==
  ASSUME TypeInv, RunInv, NEW e \in Endpoint, Emit(e)
  PROVE  RunInv'
<1>1. CASE EmitData(e)
  <2>1. channels[e][PumpSlot(e)] \in Channel
    BY PumpSlotType, TypeInvUse DEF TypeInv, TrackedChannel
  <2>2. PICK n \in Nat : n <= CHUNK_MAX /\ PumpAdvance(e, n) /\ pump[e].on
    BY <1>1, <2>1, ChunkBound DEF EmitData
  <2> QED
    BY <2>2, PumpAdvanceRun
<1>2. CASE EmitSeals(e) \/ EmitNothing(e)
  <2>1. PumpAdvance(e, 0) /\ pump[e].on /\ 0 <= CHUNK_MAX
    BY <1>2, ConstantsAssumption DEF EmitSeals, EmitNothing, ConstantsAssumption
  <2> QED
    BY <2>1, PumpAdvanceRun
<1> QED
  BY <1>1, <1>2 DEF Emit

(* Every step keeps the bound of the runs. *)
LEMMA RunStep == TypeInv /\ RunInv /\ [Next]_vars => RunInv'
<1> SUFFICES ASSUME TypeInv, RunInv, [Next]_vars PROVE RunInv'
  OBVIOUS
<1>1. CASE UNCHANGED vars
  BY <1>1, SamePumpRun DEF vars
<1>2. ASSUME NEW e \in Endpoint, Open(e) PROVE RunInv'
  BY <1>2, SamePumpRun DEF Open
<1>3. ASSUME NEW e \in Endpoint, NEW s \in Slot, Consumer(e, s) PROVE RunInv'
  BY <1>3, SamePumpRun, StartPumpRun, Zenon DEF Consumer, Write, Flush, Read, SendEof, Close
<1>4. ASSUME NEW e \in Endpoint, PumpWritable(e) PROVE RunInv'
  BY <1>4, StartPumpRun DEF PumpWritable
<1>5. ASSUME NEW e \in Endpoint, Emit(e) PROVE RunInv'
  BY <1>5, EmitRun
<1>6. ASSUME NEW e \in Endpoint, Recv(e) PROVE RunInv'
  BY <1>6, SamePumpRun, StartPumpRun, Zenon
  DEF Recv, RecvOpen, RecvData, RecvEof, RecvClose, RecvWindowAdjust, RecvUnknown
<1> QED
  BY <1>1, <1>2, <1>3, <1>4, <1>5, <1>6 DEF Next

(* One scheduler run queues less than HIGH_WATER plus one round of chunks    *)
(* (connection.c:496-513), for any number of slots and any chunk size.        *)
THEOREM RunBounded == Spec => []RunIsBounded
<1>1. TypeInv /\ RunInv => RunIsBounded
  <2> SUFFICES ASSUME TypeInv, RunInv, NEW e \in Endpoint, pump[e].on
               PROVE  pump[e].queued < HIGH_WATER + NSlots * CHUNK_MAX
    BY DEF RunIsBounded
  <2>1. pump[e].queued < HIGH_WATER + pump[e].i * CHUNK_MAX
    BY DEF RunInv, BoundedSoFar
  <2>2. /\ pump[e].i \in Nat /\ pump[e].queued \in Nat /\ pump[e].i <= NSlots
        /\ HIGH_WATER \in Nat /\ CHUNK_MAX \in Nat /\ NSlots \in Nat
    BY TypeInvUse, ConstantsAssumption DEF PumpType, Slot, ConstantsAssumption
  <2>3. pump[e].i * CHUNK_MAX <= NSlots * CHUNK_MAX
    BY <2>2
  <2> QED
    BY <2>1, <2>2, <2>3
<1> QED
  BY <1>1, TypeInvariant, InitRun, RunStep, PTL DEF Spec

-----------------------------------------------------------------------------
(* Fairness of a run.  Within a run, every channel that can still send has   *)
(* been served once in each complete round, and once more if the current     *)
(* round has passed it; no slot has been served more often than that.         *)

(* How many slots the run visits before slot s in a round. *)
Position(e, s) == IF s >= outbound_cursor[e] THEN s - outbound_cursor[e]
                                             ELSE s - outbound_cursor[e] + NSlots
Passed(e, s) == IF Position(e, s) < pump[e].i THEN 1 ELSE 0
CanSend(e, s) == channels[e][s].in_use /\ Chunk(channels[e][s]) > 0

ServedInRounds(e, r) ==
  \A s \in Slot : /\ pump[e].served[s] <= r + Passed(e, s)
                  /\ CanSend(e, s) => pump[e].served[s] = r + Passed(e, s)

FairInv == \A e \in Endpoint : pump[e].on => \E r \in Nat : ServedInRounds(e, r)

(* A round visits each slot at one position, the loop index tells which is next. *)
LEMMA PositionFacts ==
  ASSUME TypeInv, NEW e \in Endpoint, NEW s \in Slot
  PROVE  /\ Position(e, s) \in Int /\ 0 <= Position(e, s) /\ Position(e, s) < NSlots
         /\ Position(e, s) = pump[e].i <=> s = PumpSlot(e)
<1>1. /\ NSlots \in Nat \ {0} /\ outbound_cursor[e] \in 0 .. (NSlots - 1)
      /\ pump[e].i \in 0 .. (NSlots - 1) /\ s \in 0 .. (NSlots - 1)
  BY TypeInvUse, ConstantsAssumption DEF ConstantsAssumption, PumpType, Slot
<1>2. PumpSlot(e) = IF outbound_cursor[e] + pump[e].i < NSlots
                      THEN outbound_cursor[e] + pump[e].i
                      ELSE outbound_cursor[e] + pump[e].i - NSlots
  BY <1>1, WrapOnce DEF PumpSlot
<1> QED
  BY <1>1, <1>2 DEF Position

(* Initially no run is on. *)
LEMMA InitFair == Init => FairInv
  BY DEF Init, FairInv, IdlePump

(* Nothing has been served when a run starts. *)
LEMMA StartPumpFair ==
  ASSUME TypeInv, NEW e \in Endpoint, StartPump(e), UNCHANGED outbound_cursor
  PROVE  \E r \in Nat : ServedInRounds(e, r)'
<1>1. pump'[e] = [IdlePump EXCEPT !.on = TRUE]
  BY TypeInvUse DEF StartPump
<1>2. pump'[e].i = 0 /\ \A s \in Slot : pump'[e].served[s] = 0
  BY <1>1 DEF IdlePump
<1>3. \A s \in Slot : Position(e, s)' >= 0 /\ Position(e, s)' \in Int
  BY PositionFacts, ConstantsAssumption DEF Position, ConstantsAssumption
<1>4. \A s \in Slot : Passed(e, s)' = 0
  BY <1>2, <1>3 DEF Passed
<1> QED
  BY <1>2, <1>4 DEF ServedInRounds

(* A run in progress is not disturbed by the other endpoint. *)
LEMMA SameRunFair ==
  ASSUME NEW e \in Endpoint, NEW r \in Nat, ServedInRounds(e, r),
         channels'[e] = channels[e], pump'[e] = pump[e],
         outbound_cursor'[e] = outbound_cursor[e]
  PROVE  ServedInRounds(e, r)'
  BY DEF ServedInRounds, Passed, Position, CanSend

(* Outside its scheduler loop an endpoint is idle, may start a run and does  *)
(* not move the cursor; it never touches the other endpoint's side.           *)
LEMMA OutsideTheLoop ==
  ASSUME TypeInv, NEW f \in Endpoint,
         \/ Open(f)
         \/ \E s \in Slot : Consumer(f, s)
         \/ PumpWritable(f)
         \/ Recv(f)
  PROVE  /\ ~pump[f].on
         /\ UNCHANGED pump \/ StartPump(f)
         /\ UNCHANGED outbound_cursor
         /\ \A e \in Endpoint \ {f} : channels'[e] = channels[e]
<1>1. channels \in [Endpoint -> [Slot -> TrackedChannel]]
  BY TypeInvUse
<1>2. CASE Open(f)
  BY <1>1, <1>2 DEF Open, Idle, SetChannel
<1>3. CASE \E s \in Slot : Consumer(f, s)
  BY <1>1, <1>3, ZenonT(20) DEF Consumer, Write, Flush, Read, SendEof, Close, Idle, SetChannel
<1>4. CASE PumpWritable(f)
  BY <1>4 DEF PumpWritable, Idle
<1>5. CASE Recv(f)
  <2>1. CASE RecvOpen(f)
    BY <1>1, <2>1 DEF RecvOpen, Arriving, Idle, SetChannel
  <2>2. CASE RecvData(f)
    BY <1>1, <2>2, Zenon DEF RecvData, Arriving, Idle, SetChannel
  <2>3. CASE RecvEof(f) \/ RecvClose(f)
    BY <1>1, <2>3 DEF RecvEof, RecvClose, Arriving, Idle, SetChannel
  <2>4. CASE RecvWindowAdjust(f) \/ RecvUnknown(f)
    BY <1>1, <2>4 DEF RecvWindowAdjust, RecvUnknown, Arriving, Idle, SetChannel
  <2> QED
    BY <1>5, <2>1, <2>2, <2>3, <2>4 DEF Recv
<1> QED
  BY <1>2, <1>3, <1>4, <1>5

(* Whatever happens outside the loop keeps the runs fair. *)
LEMMA OutsideTheLoopFair ==
  ASSUME TypeInv, FairInv, NEW f \in Endpoint,
         \/ Open(f)
         \/ \E s \in Slot : Consumer(f, s)
         \/ PumpWritable(f)
         \/ Recv(f)
  PROVE  FairInv'
<1> SUFFICES ASSUME NEW e \in Endpoint, pump'[e].on
             PROVE  \E r \in Nat : ServedInRounds(e, r)'
  BY DEF FairInv
<1>0. /\ ~pump[f].on
      /\ UNCHANGED pump \/ StartPump(f)
      /\ UNCHANGED outbound_cursor
      /\ \A g \in Endpoint \ {f} : channels'[g] = channels[g]
  BY OutsideTheLoop
<1>1. CASE e = f
  <2>1. StartPump(e)
    BY <1>0, <1>1
  <2> QED
    BY <1>0, <2>1, StartPumpFair
<1>2. CASE e # f
  <2>1. pump'[e] = pump[e] /\ channels'[e] = channels[e]
    BY <1>0, <1>2, TypeInvUse DEF StartPump
  <2>2. PICK r \in Nat : ServedInRounds(e, r)
    BY <2>1 DEF FairInv
  <2> QED
    BY <1>0, <2>1, <2>2, SameRunFair
<1> QED
  BY <1>1, <1>2

(* One step of the loop at slot s, in terms of what the bookkeeping needs:   *)
(* if it sent bytes the slot could send; if not, the slot cannot send now.    *)
LEMMA EmitStep ==
  ASSUME TypeInv, NEW e \in Endpoint, Emit(e)
  PROVE  \E n \in Nat, s \in Slot :
           /\ s = PumpSlot(e)
           /\ pump[e].on
           /\ PumpAdvance(e, n)
           /\ n > 0 => CanSend(e, s)
           /\ n = 0 => ~CanSend(e, s)'
           /\ \A t \in Slot \ {s} : channels'[e][t] = channels[e][t]
           /\ \A f \in Endpoint \ {e} : channels'[f] = channels[f]
<1>s. PICK s \in Slot : s = PumpSlot(e)
  BY PumpSlotType DEF TypeInv
<1> DEFINE c == channels[e][s]
<1>0. /\ s \in Slot /\ c \in TrackedChannel /\ c \in Channel
      /\ channels \in [Endpoint -> [Slot -> TrackedChannel]]
  BY TypeInvUse DEF TrackedChannel
<1>1. CASE EmitData(e)
  <2>1. Chunk(c) \in Nat /\ Chunk(c) > 0 /\ CanSend(e, s)
    BY <1>s, <1>0, <1>1, ChunkBound DEF EmitData, CanSend
  <2>2. PumpAdvance(e, Chunk(c)) /\ pump[e].on
    BY <1>s, <1>1 DEF EmitData
  <2>3. /\ \A t \in Slot \ {s} : channels'[e][t] = channels[e][t]
        /\ \A f \in Endpoint \ {e} : channels'[f] = channels[f]
    BY <1>s, <1>0, <1>1 DEF EmitData, SetChannel
  <2> QED
    BY <1>s, <2>1, <2>2, <2>3
<1>2. CASE EmitSeals(e)
  <2>1. PumpAdvance(e, 0) /\ pump[e].on
    BY <1>s, <1>2 DEF EmitSeals
  <2> DEFINE d == MaybeRelease([c EXCEPT !.eof_sent = c.eof_requested,
                                         !.close_sent = c.close_requested])
  <2>2. SetChannel(e, s, d) /\ Pending(c) = 0
    BY <1>s, <1>2 DEF EmitSeals, Drained
  <2>3. d.in_use => d \in Channel /\ Pending(d) = 0
    BY <1>0, <2>2 DEF MaybeRelease, FreeChannel, Channel, Pending
  <2> HIDE DEF d
  <2>4. channels'[e][s] = d
    BY <1>0, <2>2 DEF SetChannel
  <2>5. ~(CanSend(e, s)')
    <3>1. CanSend(e, s)' <=> d.in_use /\ Chunk(d) > 0
      BY <2>4 DEF CanSend
    <3>2. d.in_use => Chunk(d) <= 0 /\ Chunk(d) \in Int
      BY <2>3, ChunkBound
    <3> QED
      BY <3>1, <3>2
  <2>6. /\ \A t \in Slot \ {s} : channels'[e][t] = channels[e][t]
        /\ \A f \in Endpoint \ {e} : channels'[f] = channels[f]
    BY <1>0, <2>2 DEF SetChannel
  <2> QED
    BY <1>s, <2>1, <2>5, <2>6
<1>3. CASE EmitNothing(e)
  <2>1. PumpAdvance(e, 0) /\ pump[e].on /\ UNCHANGED channels
    BY <1>s, <1>3 DEF EmitNothing
  <2>2. ~c.in_use \/ Pending(c) = 0 \/ c.send_window = 0
    BY <1>s, <1>3 DEF EmitNothing, Drained
  <2>3. ~CanSend(e, s)
    BY <1>0, <2>2, ChunkBound DEF CanSend
  <2>4. ~(CanSend(e, s)')
    BY <2>1, <2>3 DEF CanSend
  <2> QED
    BY <1>s, <2>1, <2>4
<1> QED
  BY <1>1, <1>2, <1>3 DEF Emit

(* A step of the scheduler loop keeps the run fair. *)
LEMMA EmitFair ==
  ASSUME TypeInv, FairInv, NEW e \in Endpoint, Emit(e)
  PROVE  FairInv'
<1>1. PICK n \in Nat, s \in Slot :
           /\ s = PumpSlot(e)
           /\ pump[e].on
           /\ PumpAdvance(e, n)
           /\ n > 0 => CanSend(e, s)
           /\ n = 0 => ~CanSend(e, s)'
           /\ \A t \in Slot \ {s} : channels'[e][t] = channels[e][t]
           /\ \A f \in Endpoint \ {e} : channels'[f] = channels[f]
  BY EmitStep
<1>2. pump \in [Endpoint -> PumpType] /\ outbound_cursor \in [Endpoint -> Slot]
  BY TypeInvUse
<1>3. PICK r \in Nat : ServedInRounds(e, r)
  BY <1>1 DEF FairInv
<1> DEFINE i == pump[e].i
           served == [pump[e].served EXCEPT ![s] = IF n > 0 THEN @ + 1 ELSE @]
           Extra(t) == IF Position(e, t) < i + 1 THEN 1 ELSE 0
<1>4. /\ pump[e].served \in [Slot -> Nat]
      /\ i \in 0 .. (NSlots - 1)
      /\ i \in Int /\ NSlots \in Int
  BY <1>2, ConstantsAssumption DEF PumpType, Slot, ConstantsAssumption
<1>a. \A t \in Slot : /\ Position(e, t) \in Int /\ 0 <= Position(e, t) /\ Position(e, t) < NSlots
                      /\ Position(e, t) = i <=> t = s
  BY <1>1, PositionFacts
(* What holds of the round once slot s has been visited. *)
<1>5. \A t \in Slot : /\ served[t] <= r + Extra(t)
                      /\ CanSend(e, t)' => served[t] = r + Extra(t)
  <2> SUFFICES ASSUME NEW t \in Slot
               PROVE  /\ served[t] <= r + Extra(t)
                      /\ CanSend(e, t)' => served[t] = r + Extra(t)
    OBVIOUS
  <2>1. /\ pump[e].served[t] <= r + Passed(e, t)
        /\ CanSend(e, t) => pump[e].served[t] = r + Passed(e, t)
    BY <1>3 DEF ServedInRounds
  <2>2. CASE t = s
    <3>1. Passed(e, t) = 0 /\ Extra(t) = 1
      BY <1>4, <1>a, <2>2 DEF Passed
    <3>2. CASE n > 0
      <4>1. pump[e].served[t] = r
        BY <1>1, <2>1, <2>2, <3>1, <3>2
      <4> QED
        BY <1>4, <2>2, <3>1, <3>2, <4>1
    <3>3. CASE n = 0
      <4>1. ~CanSend(e, t)'
        BY <1>1, <2>2, <3>3
      <4>2. served[t] = pump[e].served[t]
        BY <1>4, <2>2, <3>3
      <4> QED
        BY <1>4, <2>1, <3>1, <4>1, <4>2
    <3> QED
      BY <3>2, <3>3
  <2>3. CASE t # s
    <3>1. served[t] = pump[e].served[t]
      BY <1>4, <2>3
    <3>2. Extra(t) = Passed(e, t)
      <4>1. Position(e, t) # i
        BY <1>a, <2>3
      <4>2. Position(e, t) < i + 1 <=> Position(e, t) < i
        BY <1>4, <1>a, <4>1
      <4> QED
        BY <4>2 DEF Passed
    <3>3. CanSend(e, t)' <=> CanSend(e, t)
      BY <1>1, <2>3 DEF CanSend
    <3> QED
      BY <2>1, <3>1, <3>2, <3>3
  <2> QED
    BY <2>2, <2>3
<1> SUFFICES ASSUME NEW f \in Endpoint, pump'[f].on
             PROVE  \E q \in Nat : ServedInRounds(f, q)'
  BY DEF FairInv
<1>6. CASE f # e
  <2>1. pump'[f] = pump[f] /\ outbound_cursor'[f] = outbound_cursor[f]
    BY <1>1, <1>2, <1>6 DEF PumpAdvance
  <2>2. channels'[f] = channels[f]
    BY <1>1, <1>6
  <2>3. PICK q \in Nat : ServedInRounds(f, q)
    BY <2>1 DEF FairInv
  <2> QED
    BY <2>1, <2>2, <2>3, SameRunFair
<1>7. CASE f = e
  <2>1. \/ /\ i # NSlots - 1
           /\ pump'[e].i = i + 1
        \/ /\ i = NSlots - 1
           /\ pump'[e].i = 0
    BY <1>1, <1>2, <1>7 DEF PumpAdvance, IdlePump
  <2>2. pump'[e].served = served /\ outbound_cursor'[e] = outbound_cursor[e]
    BY <1>1, <1>2, <1>7 DEF PumpAdvance, IdlePump
  <2>3. \A t \in Slot : Position(e, t)' = Position(e, t)
    BY <2>2 DEF Position
  <2>4. CASE pump'[e].i = i + 1
    <3>1. \A t \in Slot : Passed(e, t)' = Extra(t)
      BY <2>3, <2>4 DEF Passed
    <3>2. ServedInRounds(e, r)'
      BY <1>5, <2>2, <3>1 DEF ServedInRounds
    <3> QED
      BY <1>7, <3>2
  <2>5. CASE i = NSlots - 1 /\ pump'[e].i = 0
    <3>1. \A t \in Slot : Passed(e, t)' = 0 /\ Extra(t) = 1
      <4>1. \A t \in Slot : ~(Position(e, t) < 0) /\ Position(e, t) < NSlots
        BY <1>4, <1>a
      <4>2. i + 1 = NSlots
        BY <1>4, <2>5
      <4> QED
        BY <2>3, <2>5, <4>1, <4>2 DEF Passed
    <3>2. ServedInRounds(e, r + 1)'
      BY <1>5, <2>2, <3>1 DEF ServedInRounds
    <3> QED
      BY <1>7, <3>2
  <2> QED
    BY <2>1, <2>4, <2>5
<1> QED
  BY <1>6, <1>7

(* Every step keeps the runs fair. *)
LEMMA FairStep == TypeInv /\ FairInv /\ [Next]_vars => FairInv'
<1> SUFFICES ASSUME TypeInv, FairInv, [Next]_vars PROVE FairInv'
  OBVIOUS
<1>1. CASE UNCHANGED vars
  BY <1>1, SameRunFair DEF vars, FairInv
<1>2. ASSUME NEW e \in Endpoint, \/ Open(e)
                                 \/ \E s \in Slot : Consumer(e, s)
                                 \/ PumpWritable(e)
                                 \/ Recv(e)
      PROVE  FairInv'
  BY <1>2, OutsideTheLoopFair
<1>3. ASSUME NEW e \in Endpoint, Emit(e) PROVE FairInv'
  BY <1>3, EmitFair
<1> QED
  BY <1>1, <1>2, <1>3 DEF Next

(* No head-of-line blocking within a scheduler run, for any number of slots: *)
(* a channel that could still send has been served as often as any other, up *)
(* to the round in progress (connection.c:498-513).                           *)
THEOREM RoundsAreFair == Spec => []FairRounds
<1>1. TypeInv /\ FairInv => FairRounds
  <2> SUFFICES ASSUME TypeInv, FairInv, NEW e \in Endpoint, NEW s \in Slot, NEW t \in Slot,
                      pump[e].on, CanSend(e, s)
               PROVE  pump[e].served[t] <= pump[e].served[s] + 1
    BY DEF FairRounds, CanSend
  <2>1. PICK r \in Nat : ServedInRounds(e, r)
    BY DEF FairInv
  <2>2. pump[e].served[t] <= r + Passed(e, t) /\ pump[e].served[s] = r + Passed(e, s)
    BY <2>1 DEF ServedInRounds
  <2>3. Passed(e, t) \in {0, 1} /\ Passed(e, s) \in {0, 1}
    BY DEF Passed
  <2>4. pump[e].served[t] \in Nat /\ pump[e].served[s] \in Nat
    BY TypeInvUse DEF PumpType
  <2> QED
    BY <2>2, <2>3, <2>4
<1> QED
  BY <1>1, TypeInvariant, InitFair, FairStep, PTL DEF Spec

-----------------------------------------------------------------------------
(* Ids.  An OPEN carries an id its sender has already allocated, so an       *)
(* endpoint only ever tracks allocated ids, and a fresh id is not among them. *)

Allocated(id, offset) ==
  \A f \in Endpoint : id \in OwnId(f) => id < DYNAMIC_BASE + offset[f]

OpensAllocated ==
  \A e \in Endpoint : \A k \in 1 .. Len(wire[e]) :
    wire[e][k].msg = "OPEN" => Allocated(wire[e][k].id, next_dynamic_offset)

IdInv ==
  /\ UniqueIds
  /\ OpensAllocated

(* Initially no id is in use or on the wire. *)
LEMMA InitIds == Init => IdInv
<1> SUFFICES ASSUME Init PROVE IdInv
  OBVIOUS
<1>1. \A e \in Endpoint : InUse(e) = {}
  BY DEF Init, InUse, FreeChannel
<1>2. \A e \in Endpoint : Len(wire[e]) = 0
  BY DEF Init
<1> QED
  BY <1>1, <1>2 DEF IdInv, UniqueIds, OpensAllocated

(* The two ends draw from disjoint sets of ids: they differ in parity. *)
LEMMA DisjointIds ==
  ASSUME NEW e \in Endpoint, NEW f \in Endpoint, e # f, NEW id \in OwnId(e)
  PROVE  id \notin OwnId(f)
<1>1. Parity(e) \in {0, 1} /\ Parity(f) \in {0, 1} /\ Parity(e) # Parity(f)
  BY DEF Endpoint, Parity
<1>2. PICK k \in 0 .. (MaxOpens[e] - 1) : id = DYNAMIC_BASE + 2 * k + Parity(e)
  BY DEF OwnId
<1>3. ASSUME NEW j \in 0 .. (MaxOpens[f] - 1), id = DYNAMIC_BASE + 2 * j + Parity(f)
      PROVE  FALSE
  <2>1. k \in Int /\ j \in Int
    BY ConstantsAssumption DEF ConstantsAssumption
  <2> QED
    BY <1>1, <1>2, <1>3, <2>1 DEF DYNAMIC_BASE
<1> QED
  BY <1>3 DEF OwnId

NoOpen(msgs) == \A k \in 1 .. Len(msgs) : msgs[k].msg # "OPEN"

(* The slots in use after the step were in use, with the same id, before it. *)
NoNewChannel(e) ==
  \A s \in Slot : channels'[e][s].in_use =>
                  channels[e][s].in_use /\ channels'[e][s].id = channels[e][s].id

(* If no channel is added, ids stay unique. *)
LEMMA NoNewChannelIds ==
  ASSUME UniqueIds, UNCHANGED next_dynamic_offset, \A e \in Endpoint : NoNewChannel(e)
  PROVE  UniqueIds'
  BY DEF UniqueIds, InUse, NoNewChannel

(* Replacing one slot by a channel of the same id, or by a free one. *)
LEMMA SetChannelIds ==
  ASSUME TypeInv, NEW e \in Endpoint, NEW s \in Slot, NEW c, SetChannel(e, s, c),
         c.in_use => channels[e][s].in_use /\ c.id = channels[e][s].id
  PROVE  \A f \in Endpoint : NoNewChannel(f)
  BY TypeInvUse DEF SetChannel, NoNewChannel

(* An unchanged table has no new channel. *)
LEMMA SameChannelsIds ==
  ASSUME UNCHANGED channels
  PROVE  \A f \in Endpoint : NoNewChannel(f)
  BY DEF NoNewChannel

(* Shipping messages that are no OPEN leaves the OPENs on the wires alone. *)
LEMMA ShipIds ==
  ASSUME TypeInv, OpensAllocated, UNCHANGED next_dynamic_offset,
         NEW e \in Endpoint, NEW msgs \in Seq(Message), NoOpen(msgs), Ship(e, msgs)
  PROVE  OpensAllocated'
<1>1. wire \in [Endpoint -> Seq(Message)]
  BY TypeInvUse
<1>2. /\ wire'[e] = wire[e] \o msgs
      /\ \A f \in Endpoint \ {e} : wire'[f] = wire[f]
  BY <1>1 DEF Ship
<1>3. /\ Len(wire'[e]) = Len(wire[e]) + Len(msgs)
      /\ \A k \in 1 .. Len(wire[e]) + Len(msgs) :
           wire'[e][k] = IF k <= Len(wire[e]) THEN wire[e][k] ELSE msgs[k - Len(wire[e])]
  BY <1>1, <1>2, ConcatProperties
<1>4. Len(wire[e]) \in Nat /\ Len(msgs) \in Nat
  BY <1>1, LenProperties
<1>5. ASSUME NEW k \in 1 .. Len(wire'[e]), wire'[e][k].msg = "OPEN"
      PROVE  Allocated(wire'[e][k].id, next_dynamic_offset)
  <2>1. CASE k <= Len(wire[e])
    <3>1. k \in 1 .. Len(wire[e]) /\ wire'[e][k] = wire[e][k]
      BY <1>3, <1>4, <2>1
    <3> QED
      BY <1>5, <3>1 DEF OpensAllocated
  <2>2. CASE k > Len(wire[e])
    <3>1. k - Len(wire[e]) \in 1 .. Len(msgs) /\ ~(k <= Len(wire[e]))
      BY <1>3, <1>4, <2>2
    <3> QED
      BY <1>3, <1>5, <3>1 DEF NoOpen
  <2> QED
    BY <1>3, <1>4, <2>1, <2>2
<1> QED
  BY <1>2, <1>5 DEF OpensAllocated

(* So does taking a message off and replying with no OPEN. *)
LEMMA TakeAndShipIds ==
  ASSUME TypeInv, OpensAllocated, UNCHANGED next_dynamic_offset, NEW e \in Endpoint,
         Inbound(e) # <<>>, NEW msgs \in Seq(Message), NoOpen(msgs), TakeAndShip(e, msgs)
  PROVE  OpensAllocated'
<1>1. wire \in [Endpoint -> Seq(Message)] /\ Peer(e) \in Endpoint /\ Peer(e) # e
      /\ \A f \in Endpoint : f = e \/ f = Peer(e)
  BY TypeInvUse, PeerEndpoint DEF Endpoint, Peer
<1>2. wire'[e] = wire[e] \o msgs /\ wire'[Peer(e)] = Tail(wire[Peer(e)])
  BY <1>1 DEF TakeAndShip
<1>3. /\ Len(wire'[e]) = Len(wire[e]) + Len(msgs)
      /\ \A k \in 1 .. Len(wire[e]) + Len(msgs) :
           wire'[e][k] = IF k <= Len(wire[e]) THEN wire[e][k] ELSE msgs[k - Len(wire[e])]
  BY <1>1, <1>2, ConcatProperties
<1>4. Len(wire[e]) \in Nat /\ Len(msgs) \in Nat /\ Len(wire[Peer(e)]) \in Nat
  BY <1>1, LenProperties
<1>5. ASSUME NEW k \in 1 .. Len(wire'[e]), wire'[e][k].msg = "OPEN"
      PROVE  Allocated(wire'[e][k].id, next_dynamic_offset)
  <2>1. CASE k <= Len(wire[e])
    <3>1. k \in 1 .. Len(wire[e]) /\ wire'[e][k] = wire[e][k]
      BY <1>3, <1>4, <2>1
    <3> QED
      BY <1>5, <3>1 DEF OpensAllocated
  <2>2. CASE k > Len(wire[e])
    <3>1. k - Len(wire[e]) \in 1 .. Len(msgs) /\ ~(k <= Len(wire[e]))
      BY <1>3, <1>4, <2>2
    <3> QED
      BY <1>3, <1>5, <3>1 DEF NoOpen
  <2> QED
    BY <1>3, <1>4, <2>1, <2>2
<1>6. /\ Len(wire'[Peer(e)]) = Len(wire[Peer(e)]) - 1
      /\ \A k \in 1 .. Len(wire'[Peer(e)]) : wire'[Peer(e)][k] = wire[Peer(e)][k + 1]
  BY <1>1, <1>2, HeadTailProperties DEF Inbound
<1>7. \A k \in 1 .. Len(wire'[Peer(e)]) :
        wire'[Peer(e)][k].msg = "OPEN" => Allocated(wire'[Peer(e)][k].id, next_dynamic_offset)
  <2> SUFFICES ASSUME NEW k \in 1 .. Len(wire'[Peer(e)]), wire'[Peer(e)][k].msg = "OPEN"
               PROVE  Allocated(wire'[Peer(e)][k].id, next_dynamic_offset)
    OBVIOUS
  <2>1. k + 1 \in 1 .. Len(wire[Peer(e)])
    BY <1>4, <1>6
  <2>2. wire'[Peer(e)][k] = wire[Peer(e)][k + 1]
    BY <1>6
  <2> QED
    BY <1>1, <2>1, <2>2 DEF OpensAllocated
<1> QED
  BY <1>1, <1>5, <1>7 DEF OpensAllocated

(* None of the messages but the one of open_channel is an OPEN. *)
LEMMA NoOpenMessages ==
  /\ NoOpen(<<>>)
  /\ \A kind \in MsgKind \ {"OPEN"} : \A id, window : NoOpen(<<Control(kind, id, window)>>)
  /\ \A id, bytes : NoOpen(<<Data(id, bytes)>>)
  /\ \A c, n : NoOpen(GrantMessages(c, n))
  BY DEF NoOpen, Control, Data, GrantMessages, MsgKind

(* The consumer's calls preserve the invariant of ids. *)
LEMMA ConsumerIds ==
  ASSUME TypeInv, IdInv, NEW e \in Endpoint, NEW s \in Slot, Consumer(e, s)
  PROVE  IdInv'
<1> DEFINE c == channels[e][s]
<1>0. c \in TrackedChannel /\ UniqueIds /\ OpensAllocated
  BY TypeInvUse DEF IdInv
<1>w. UNCHANGED wire /\ UNCHANGED next_dynamic_offset => OpensAllocated'
  BY <1>0 DEF OpensAllocated, Allocated
<1>1. CASE Write(e, s)
  <2>1. PICK n \in 1 .. MaxBytes[e] : SetChannel(e, s, [c EXCEPT !.written = @ + n])
    BY <1>1 DEF Write
  <2>2. c.in_use /\ [c EXCEPT !.written = @ + n].id = c.id
    BY <1>0, <1>1 DEF Write, TrackedChannel, Channel
  <2>3. \A f \in Endpoint : NoNewChannel(f)
    BY <2>1, <2>2, SetChannelIds
  <2> QED
    BY <1>0, <1>1, <1>w, <2>3, NoNewChannelIds DEF Write, IdInv
<1>2. CASE Flush(e, s)
  <2>1. c.in_use /\ [c EXCEPT !.flush_mark = c.written].id = c.id
    BY <1>0, <1>2 DEF Flush, TrackedChannel, Channel
  <2>2. \A f \in Endpoint : NoNewChannel(f)
    BY <1>2, <2>1, SetChannelIds DEF Flush
  <2> QED
    BY <1>0, <1>2, <1>w, <2>2, NoNewChannelIds DEF Flush, IdInv
<1>3. CASE Read(e, s)
  <2>1. PICK n \in 1 .. Len(c.inbuf), ok \in BOOLEAN :
          LET taken == [c EXCEPT !.inbuf = SubSeq(c.inbuf, n + 1, Len(c.inbuf))]
          IN  /\ SetChannel(e, s, MaybeRelease(GrantCredit(taken, n)))
              /\ Ship(e, IF ok THEN GrantMessages(taken, n) ELSE <<>>)
    BY <1>3 DEF Read
  <2> DEFINE taken == [c EXCEPT !.inbuf = SubSeq(c.inbuf, n + 1, Len(c.inbuf))]
  <2>2. c.in_use /\ c.inbuf \in Seq(Nat)
    BY <1>0, <1>3 DEF Read, TrackedChannel, Channel
  <2>3. n \in Nat
    BY <2>2, SplitType
  <2>4. SubSeq(c.inbuf, n + 1, Len(c.inbuf)) \in Seq(Nat)
    BY <2>2, SplitType
  <2>5. taken \in TrackedChannel /\ taken.in_use /\ taken.id = c.id
    BY <1>0, <2>2, <2>4 DEF TrackedChannel, Channel
  <2> HIDE DEF taken
  <2>6. GrantCredit(taken, n).id = c.id
    BY <2>5 DEF GrantCredit, TrackedChannel, Channel
  <2>7. MaybeRelease(GrantCredit(taken, n)).in_use
          => MaybeRelease(GrantCredit(taken, n)).id = c.id
    BY <2>6 DEF MaybeRelease, FreeChannel
  <2>8. \A f \in Endpoint : NoNewChannel(f)
    BY <2>1, <2>2, <2>7, SetChannelIds DEF taken
  <2> DEFINE msgs == IF ok THEN GrantMessages(taken, n) ELSE <<>>
  <2>9. msgs \in Seq(Message) /\ NoOpen(msgs)
    BY <2>3, <2>5, GrantMessagesType, EmptyType, NoOpenMessages
  <2>10. Ship(e, msgs)
    BY <2>1 DEF taken
  <2>11. OpensAllocated'
    BY <1>0, <1>3, <2>9, <2>10, ShipIds DEF Read
  <2> QED
    BY <1>0, <1>3, <2>8, <2>11, NoNewChannelIds DEF Read, IdInv
<1>4. CASE SendEof(e, s)
  <2>1. c.in_use /\ [c EXCEPT !.flush_mark = c.written, !.eof_requested = TRUE].id = c.id
    BY <1>0, <1>4 DEF SendEof, TrackedChannel, Channel
  <2>2. \A f \in Endpoint : NoNewChannel(f)
    BY <1>4, <2>1, SetChannelIds DEF SendEof
  <2> QED
    BY <1>0, <1>4, <1>w, <2>2, NoNewChannelIds DEF SendEof, IdInv
<1>5. CASE Close(e, s)
  <2>1. c.in_use /\ DropPending(c).id = c.id
    BY <1>0, <1>5 DEF Close, DropPending, TrackedChannel, Channel
  <2>2. \A f \in Endpoint : NoNewChannel(f)
    BY <1>5, <2>1, SetChannelIds DEF Close
  <2> QED
    BY <1>0, <1>5, <1>w, <2>2, NoNewChannelIds DEF Close, IdInv
<1> QED
  BY <1>1, <1>2, <1>3, <1>4, <1>5 DEF Consumer

(* A step of the scheduler loop preserves the invariant of ids. *)
LEMMA EmitIds ==
  ASSUME TypeInv, IdInv, NEW e \in Endpoint, Emit(e)
  PROVE  IdInv'
<1>s. PICK s \in Slot : s = PumpSlot(e)
  BY PumpSlotType DEF TypeInv
<1> DEFINE c == channels[e][s]
<1>0. c \in TrackedChannel /\ c \in Channel /\ UniqueIds /\ OpensAllocated
  BY TypeInvUse DEF IdInv, TrackedChannel
<1>1. CASE EmitData(e)
  <2> DEFINE n == Chunk(c)
             d == [c EXCEPT !.outbuf_off = @ + n, !.send_window = @ - n]
  <2>1. n \in Nat /\ c.in_use
    BY <1>s, <1>0, <1>1, ChunkBound DEF EmitData
  <2> HIDE DEF n
  <2>2. d.id = c.id
    BY <1>0 DEF Channel
  <2>3. SetChannel(e, s, d)
    BY <1>s, <1>1 DEF EmitData, n
  <2> HIDE DEF d
  <2>4. \A f \in Endpoint : NoNewChannel(f)
    BY <2>1, <2>2, <2>3, SetChannelIds
  <2>5. <<Data(c.id, NextBytes(c, n))>> \in Seq(Message)
    BY <1>0, <2>1, DataType
  <2>6. Ship(e, <<Data(c.id, NextBytes(c, n))>>)
    BY <1>s, <1>1 DEF EmitData, n
  <2>7. OpensAllocated'
    BY <1>0, <1>1, <2>5, <2>6, NoOpenMessages, ShipIds DEF EmitData
  <2> QED
    BY <1>0, <1>1, <2>4, <2>7, NoNewChannelIds DEF EmitData, IdInv
<1>2. CASE EmitSeals(e)
  <2> DEFINE d == [c EXCEPT !.eof_sent = c.eof_requested, !.close_sent = c.close_requested]
             eof == IF c.eof_requested /\ ~c.eof_sent
                      THEN <<Control("EOF", c.id, 0)>> ELSE <<>>
             close == IF c.close_requested /\ ~c.close_sent
                        THEN <<Control("CLOSE", c.id, 0)>> ELSE <<>>
  <2>1. c.in_use /\ c.id \in Id
    BY <1>s, <1>0, <1>2 DEF EmitSeals, TrackedChannel
  <2>2. d.id = c.id
    BY <1>0 DEF Channel
  <2>3. MaybeRelease(d).in_use => MaybeRelease(d).id = c.id
    BY <2>2 DEF MaybeRelease, FreeChannel
  <2>4. SetChannel(e, s, MaybeRelease(d)) /\ Ship(e, eof \o close)
    BY <1>s, <1>2 DEF EmitSeals
  <2>5. \A f \in Endpoint : NoNewChannel(f)
    BY <2>1, <2>3, <2>4, SetChannelIds
  <2>6. eof \in Seq(Message) /\ close \in Seq(Message)
    BY <2>1, ControlType, EmptyType DEF MsgKind
  <2>7. NoOpen(eof) /\ NoOpen(close)
    BY NoOpenMessages DEF MsgKind
  <2> HIDE DEF eof, close
  <2>8. eof \o close \in Seq(Message) /\ NoOpen(eof \o close)
    <3>1. /\ eof \o close \in Seq(Message)
          /\ Len(eof \o close) = Len(eof) + Len(close)
          /\ \A k \in 1 .. Len(eof) + Len(close) :
               (eof \o close)[k] = IF k <= Len(eof) THEN eof[k] ELSE close[k - Len(eof)]
          /\ Len(eof) \in Nat /\ Len(close) \in Nat
      BY <2>6, ConcatProperties, LenProperties
    <3>2. ASSUME NEW k \in 1 .. Len(eof) + Len(close)
          PROVE  (eof \o close)[k].msg # "OPEN"
      <4>1. CASE k <= Len(eof)
        BY <2>7, <3>1, <4>1 DEF NoOpen
      <4>2. CASE ~(k <= Len(eof))
        <5>1. k - Len(eof) \in 1 .. Len(close)
          BY <3>1, <4>2
        <5> QED
          BY <2>7, <3>1, <4>2, <5>1 DEF NoOpen
      <4> QED
        BY <4>1, <4>2
    <3> QED
      BY <3>1, <3>2 DEF NoOpen
  <2>9. OpensAllocated'
    BY <1>0, <1>2, <2>4, <2>8, ShipIds DEF EmitSeals
  <2> QED
    BY <1>0, <1>2, <2>5, <2>9, NoNewChannelIds DEF EmitSeals, IdInv
<1>3. CASE EmitNothing(e)
  <2>1. UNCHANGED <<channels, wire, next_dynamic_offset>>
    BY <1>3 DEF EmitNothing
  <2> QED
    BY <1>0, <2>1, SameChannelsIds, NoNewChannelIds DEF IdInv, OpensAllocated, Allocated
<1> QED
  BY <1>1, <1>2, <1>3 DEF Emit

(* open_channel uses a fresh id. *)
LEMMA OpenIds ==
  ASSUME TypeInv, IdInv, NEW e \in Endpoint, Open(e)
  PROVE  IdInv'
<1> DEFINE id == DYNAMIC_BASE + next_dynamic_offset[e] + Parity(e)
<1>1. id \in OwnId(e) /\ id \in Id
  BY NewIdType DEF Open
<1>2. PICK s \in Slot, window \in InitialWindows, sink \in Sinks :
        /\ SetChannel(e, s, DynamicChannel(id, sink, WINDOW_DEFAULT, OrDefault(window)))
        /\ Ship(e, <<Control("OPEN", id, window)>>)
  BY DEF Open
<1>3. /\ channels \in [Endpoint -> [Slot -> TrackedChannel]]
      /\ wire \in [Endpoint -> Seq(Message)]
      /\ next_dynamic_offset \in [Endpoint -> Nat]
      /\ UniqueIds /\ OpensAllocated
  BY TypeInvUse DEF TypeInv, TypeOK, IdInv
<1>4. next_dynamic_offset' = [next_dynamic_offset EXCEPT ![e] = next_dynamic_offset[e] + 2]
  BY DEF Open, NextOffset
(* The new id is above all ids its parity has used, and it is used now. *)
<1>5. ~Allocated(id, next_dynamic_offset)
  BY <1>1, <1>3 DEF Allocated, Parity, DYNAMIC_BASE
<1>6. \A i \in Id : Allocated(i, next_dynamic_offset) => Allocated(i, next_dynamic_offset')
  <2> SUFFICES ASSUME NEW i \in Id, Allocated(i, next_dynamic_offset), NEW f \in Endpoint, i \in OwnId(f)
               PROVE  i < DYNAMIC_BASE + next_dynamic_offset'[f]
    BY DEF Allocated
  <2>1. i < DYNAMIC_BASE + next_dynamic_offset[f] /\ i \in Nat
    BY IdNat, ConstantsAssumption DEF Allocated
  <2>2. next_dynamic_offset'[f] >= next_dynamic_offset[f]
    BY <1>3, <1>4
  <2> QED
    BY <1>3, <1>4, <2>1, <2>2 DEF DYNAMIC_BASE
<1>7. Allocated(id, next_dynamic_offset')
  <2> SUFFICES ASSUME NEW f \in Endpoint, id \in OwnId(f)
               PROVE  id < DYNAMIC_BASE + next_dynamic_offset'[f]
    BY DEF Allocated
  <2>1. f = e
    BY <1>1, DisjointIds
  <2> QED
    BY <1>3, <1>4, <2>1 DEF Parity, DYNAMIC_BASE
<1> HIDE DEF id
<1>8. UniqueIds'
  <2> DEFINE c == DynamicChannel(id, sink, WINDOW_DEFAULT, OrDefault(window))
  <2>1. c.in_use /\ c.id = id
    BY DEF DynamicChannel, FreeChannel
  <2> HIDE DEF c
  <2>2. /\ channels'[e][s] = c
        /\ \A t \in Slot \ {s} : channels'[e][t] = channels[e][t]
        /\ \A f \in Endpoint \ {e} : channels'[f] = channels[f]
    BY <1>2, <1>3 DEF SetChannel, c
  <2>3. \A f \in Endpoint : \A t \in InUse(f) :
          channels[f][t].id \in Id /\ Allocated(channels[f][t].id, next_dynamic_offset)
    BY <1>3 DEF UniqueIds, Allocated, InUse, TrackedChannel
  <2>4. \A t \in InUse(e) : channels[e][t].id # id
    BY <1>5, <2>3
  <2>5. \A f \in Endpoint : \A t \in Slot :
          channels'[f][t].in_use =>
             \/ f = e /\ t = s /\ channels'[f][t].id = id
             \/ t \in InUse(f) /\ channels'[f][t] = channels[f][t] /\ (f = e => t # s)
    BY <2>1, <2>2 DEF InUse
  <2>6. \A f \in Endpoint : \A t, u \in Slot :
          (channels'[f][t].in_use /\ channels'[f][u].in_use
             /\ channels'[f][t].id = channels'[f][u].id) => t = u
    <3> SUFFICES ASSUME NEW f \in Endpoint, NEW t \in Slot, NEW u \in Slot,
                        channels'[f][t].in_use, channels'[f][u].in_use,
                        channels'[f][t].id = channels'[f][u].id
                 PROVE  t = u
      OBVIOUS
    <3>1. CASE f = e /\ (t = s \/ u = s)
      BY <2>4, <2>5, <3>1
    <3>2. CASE ~(f = e /\ (t = s \/ u = s))
      <4>1. t \in InUse(f) /\ u \in InUse(f) /\ channels[f][t].id = channels[f][u].id
        BY <2>5, <3>2
      <4> QED
        BY <1>3, <4>1 DEF UniqueIds
    <3> QED
      BY <3>1, <3>2
  <2>7. \A f \in Endpoint : \A t \in Slot :
          channels'[f][t].in_use => Allocated(channels'[f][t].id, next_dynamic_offset')
    BY <1>6, <1>7, <2>3, <2>5
  <2> QED
    BY <2>6, <2>7 DEF UniqueIds, InUse, Allocated
<1>9. OpensAllocated'
  <2> DEFINE msgs == <<Control("OPEN", id, window)>>
  <2>1. /\ wire'[e] = wire[e] \o msgs
        /\ \A f \in Endpoint \ {e} : wire'[f] = wire[f]
    BY <1>2, <1>3 DEF Ship
  <2>2. msgs \in Seq(Message) /\ Len(msgs) = 1 /\ msgs[1].id = id
    <3>1. window \in Nat
      BY ConstantsAssumption DEF ConstantsAssumption
    <3> QED
      BY <1>1, <3>1, ControlType DEF MsgKind, Control, id
  <2> HIDE DEF msgs
  <2>3. /\ Len(wire'[e]) = Len(wire[e]) + 1
        /\ \A k \in 1 .. Len(wire[e]) + 1 :
             wire'[e][k] = IF k <= Len(wire[e]) THEN wire[e][k] ELSE msgs[k - Len(wire[e])]
        /\ Len(wire[e]) \in Nat
    <3>1. Len(wire[e]) \in Nat /\ wire[e] \in Seq(Message)
      BY <1>3, LenProperties
    <3>2. /\ Len(wire[e] \o msgs) = Len(wire[e]) + Len(msgs)
          /\ \A k \in 1 .. Len(wire[e]) + Len(msgs) :
               (wire[e] \o msgs)[k] = IF k <= Len(wire[e]) THEN wire[e][k]
                                                           ELSE msgs[k - Len(wire[e])]
      BY <2>2, <3>1, ConcatProperties
    <3> QED
      BY <2>1, <2>2, <3>1, <3>2
  <2>4. \A f \in Endpoint : \A k \in 1 .. Len(wire[f]) :
          wire[f][k].msg = "OPEN" => Allocated(wire[f][k].id, next_dynamic_offset')
    <3>1. \A f \in Endpoint : \A k \in 1 .. Len(wire[f]) : wire[f][k].id \in Id
      <4> SUFFICES ASSUME NEW f \in Endpoint, NEW k \in 1 .. Len(wire[f])
                   PROVE  wire[f][k].id \in Id
        OBVIOUS
      <4>1. wire[f][k] \in Message
        BY <1>3, ElementOfSeq
      <4> QED
        BY <4>1 DEF Message
    <3> QED
      BY <1>3, <1>6, <3>1 DEF OpensAllocated
  <2>5. ASSUME NEW k \in 1 .. Len(wire'[e]), wire'[e][k].msg = "OPEN"
        PROVE  Allocated(wire'[e][k].id, next_dynamic_offset')
    <3>1. CASE k <= Len(wire[e])
      <4>1. k \in 1 .. Len(wire[e]) /\ wire'[e][k] = wire[e][k]
        BY <2>3, <3>1
      <4> QED
        BY <2>4, <2>5, <4>1
    <3>2. CASE ~(k <= Len(wire[e]))
      <4>1. k - Len(wire[e]) = 1 /\ wire'[e][k] = msgs[1]
        BY <2>3, <3>2
      <4> QED
        BY <1>7, <2>2, <4>1
    <3> QED
      BY <3>1, <3>2
  <2> QED
    BY <2>1, <2>4, <2>5 DEF OpensAllocated
<1> QED
  BY <1>8, <1>9 DEF IdInv

(* Accepting an OPEN adds an allocated id that was not tracked. *)
LEMMA RecvOpenIds ==
  ASSUME TypeInv, IdInv, NEW e \in Endpoint, RecvOpen(e)
  PROVE  UniqueIds' /\ \E msgs \in Seq(Message) : NoOpen(msgs) /\ TakeAndShip(e, msgs)
<1> DEFINE m == Head(Inbound(e))
<1>1. /\ Inbound(e) # <<>> /\ m.msg = "OPEN" /\ UNCHANGED next_dynamic_offset
      /\ channels \in [Endpoint -> [Slot -> TrackedChannel]]
      /\ UniqueIds /\ OpensAllocated
      /\ Inbound(e) \in Seq(Message)
  BY TypeInvUse, PeerEndpoint DEF RecvOpen, Arriving, IdInv, Inbound
<1>2. m.id \in Id /\ Allocated(m.id, next_dynamic_offset)
  <2>1. m \in Message
    BY <1>1, HeadTailProperties
  <2>2. Len(Inbound(e)) \in Nat /\ Len(Inbound(e)) # 0
    BY <1>1, EmptySeq
  <2>3. 1 \in 1 .. Len(wire[Peer(e)]) /\ m = wire[Peer(e)][1]
    BY <1>1, <2>2 DEF Inbound
  <2> QED
    BY <1>1, <2>1, <2>3, PeerEndpoint DEF OpensAllocated, Message
<1> HIDE DEF m
<1>3. CASE UNCHANGED channels /\ TakeAndShip(e, <<Control("CLOSE", m.id, 0)>>)
  <2>1. UniqueIds'
    BY <1>1, <1>3, SameChannelsIds, NoNewChannelIds
  <2> QED
    BY <1>2, <1>3, <2>1, ControlType, NoOpenMessages DEF MsgKind
<1>4. CASE /\ Lookup(e, m.id) = {}
           /\ \E s \in Slot, sink \in Sinks :
                /\ IsFirstFree(e, s)
                /\ SetChannel(e, s, DynamicChannel(m.id, sink, OrDefault(m.window),
                                                   WINDOW_DEFAULT))
           /\ TakeAndShip(e, <<>>)
  <2>1. PICK s \in Slot, sink \in Sinks :
               SetChannel(e, s, DynamicChannel(m.id, sink, OrDefault(m.window), WINDOW_DEFAULT))
    BY <1>4
  <2> DEFINE c == DynamicChannel(m.id, sink, OrDefault(m.window), WINDOW_DEFAULT)
  <2>2. c.in_use /\ c.id = m.id
    BY DEF DynamicChannel, FreeChannel
  <2> HIDE DEF c
  <2>3. /\ channels'[e][s] = c
        /\ \A t \in Slot \ {s} : channels'[e][t] = channels[e][t]
        /\ \A f \in Endpoint \ {e} : channels'[f] = channels[f]
    BY <1>1, <2>1 DEF SetChannel, c
  <2>4. \A t \in InUse(e) : channels[e][t].id # m.id
    BY <1>4 DEF Lookup
  <2>5. \A f \in Endpoint : \A t \in Slot :
          channels'[f][t].in_use =>
             \/ f = e /\ t = s /\ channels'[f][t].id = m.id
             \/ t \in InUse(f) /\ channels'[f][t] = channels[f][t] /\ (f = e => t # s)
    BY <2>2, <2>3 DEF InUse
  <2>6. ASSUME NEW f \in Endpoint, NEW t \in Slot, NEW u \in Slot,
               channels'[f][t].in_use, channels'[f][u].in_use,
               channels'[f][t].id = channels'[f][u].id
        PROVE  t = u
    <3>1. CASE f = e /\ (t = s \/ u = s)
      BY <2>4, <2>5, <2>6, <3>1
    <3>2. CASE ~(f = e /\ (t = s \/ u = s))
      <4>1. t \in InUse(f) /\ u \in InUse(f) /\ channels[f][t].id = channels[f][u].id
        BY <2>5, <2>6, <3>2
      <4> QED
        BY <1>1, <4>1 DEF UniqueIds
    <3> QED
      BY <3>1, <3>2
  <2>7. ASSUME NEW f \in Endpoint, NEW t \in Slot, channels'[f][t].in_use
        PROVE  Allocated(channels'[f][t].id, next_dynamic_offset)
    <3>1. CASE channels'[f][t].id = m.id
      BY <1>2, <3>1
    <3>2. CASE t \in InUse(f) /\ channels'[f][t] = channels[f][t]
      BY <1>1, <3>2 DEF UniqueIds, Allocated
    <3> QED
      BY <2>5, <2>7, <3>1, <3>2
  <2>8. UniqueIds'
    BY <1>1, <2>6, <2>7 DEF UniqueIds, InUse, Allocated
  <2> QED
    BY <1>4, <2>8, EmptyType, NoOpenMessages
<1> QED
  BY <1>3, <1>4 DEF RecvOpen, m

(* The demux of a message preserves the invariant of ids. *)
LEMMA RecvIds ==
  ASSUME TypeInv, IdInv, NEW e \in Endpoint, Recv(e)
  PROVE  IdInv'
<1> DEFINE m == Head(Inbound(e))
<1>0. Inbound(e) # <<>> /\ m \in Message /\ UniqueIds /\ OpensAllocated
      /\ UNCHANGED next_dynamic_offset
  <2>1. Inbound(e) # <<>> /\ UNCHANGED next_dynamic_offset
    BY Zenon DEF Recv, RecvOpen, RecvData, RecvEof, RecvClose, RecvWindowAdjust, RecvUnknown,
           Arriving
  <2>2. Inbound(e) \in Seq(Message)
    BY PeerEndpoint, TypeInvUse DEF Inbound
  <2> QED
    BY <2>1, <2>2, HeadTailProperties DEF IdInv
<1>a. m.id \in Id /\ m.data \in Seq(Nat) /\ Len(m.data) \in Nat
  <2>1. m.id \in Id /\ m.data \in Seq(Nat)
    BY <1>0 DEF Message
  <2> QED
    BY <2>1, LenProperties
<1>c. \A s \in Lookup(e, m.id) :
        /\ s \in Slot /\ channels[e][s] \in TrackedChannel /\ channels[e][s] \in Channel
        /\ channels[e][s].in_use /\ channels[e][s].id = m.id
  BY LookupFacts, TypeInvUse DEF TrackedChannel
<1> HIDE DEF m
(* Every message but OPEN changes at most a channel that is tracked already. *)
<1>d. SUFFICES /\ UniqueIds'
               /\ \E msgs \in Seq(Message) : NoOpen(msgs) /\ TakeAndShip(e, msgs)
  BY <1>0, TakeAndShipIds DEF IdInv
<1>e. (\A f \in Endpoint : NoNewChannel(f)) => UniqueIds'
  BY <1>0, NoNewChannelIds
<1>f. TakeAndShip(e, <<>>) => \E msgs \in Seq(Message) : NoOpen(msgs) /\ TakeAndShip(e, msgs)
  BY EmptyType, NoOpenMessages, Zenon
<1>1. CASE RecvOpen(e)
  BY <1>1, RecvOpenIds
<1>2. CASE RecvData(e)
  <2>1. PICK s \in Lookup(e, m.id) :
          LET c == channels[e][s]
          IN  \/ TakeAndShip(e, <<>>) /\ UNCHANGED channels
              \/ /\ SetChannel(e, s, [c EXCEPT !.inbuf = @ \o m.data])
                 /\ TakeAndShip(e, <<>>)
              \/ /\ SetChannel(e, s, GrantCredit(c, Len(m.data)))
                 /\ TakeAndShip(e, GrantMessages(c, Len(m.data)))
    BY <1>2, Zenon DEF RecvData, m
  <2> DEFINE c == channels[e][s]
  <2>2. s \in Slot /\ c \in TrackedChannel /\ c \in Channel /\ c.in_use
    BY <1>c
  <2>3. [c EXCEPT !.inbuf = @ \o m.data].id = c.id
    BY <2>2 DEF Channel
  <2>4. GrantCredit(c, Len(m.data)).id = c.id
    BY <2>2 DEF GrantCredit, Channel
  <2>5. \A f \in Endpoint : NoNewChannel(f)
    BY <2>1, <2>2, <2>3, <2>4, SetChannelIds, SameChannelsIds
  <2>6. GrantMessages(c, Len(m.data)) \in Seq(Message)
    BY <1>a, <2>2, GrantMessagesType
  <2> QED
    BY <1>e, <1>f, <2>1, <2>5, <2>6, NoOpenMessages
<1>3. CASE RecvEof(e)
  <2>1. PICK s \in Lookup(e, m.id) :
          SetChannel(e, s, [channels[e][s] EXCEPT !.remote_eof = TRUE])
    BY <1>3 DEF RecvEof, m
  <2>2. [channels[e][s] EXCEPT !.remote_eof = TRUE].id = channels[e][s].id
    BY <1>c DEF Channel
  <2>3. \A f \in Endpoint : NoNewChannel(f)
    BY <1>c, <2>1, <2>2, SetChannelIds
  <2> QED
    BY <1>3, <1>e, <1>f, <2>3 DEF RecvEof
<1>4. CASE RecvClose(e)
  <2>1. PICK s \in Lookup(e, m.id) :
          LET c == [channels[e][s] EXCEPT !.close_rcvd = TRUE]
          IN  /\ SetChannel(e, s, MaybeRelease(
                    IF c.close_sent THEN c ELSE [DropPending(c) EXCEPT !.close_sent = TRUE]))
              /\ TakeAndShip(e, CloseReply(c))
    BY <1>4 DEF RecvClose, m
  <2> DEFINE c == [channels[e][s] EXCEPT !.close_rcvd = TRUE]
             d == IF c.close_sent THEN c ELSE [DropPending(c) EXCEPT !.close_sent = TRUE]
  <2>2. c.id = m.id /\ d.id = m.id
    BY <1>c DEF Channel, DropPending
  <2> HIDE DEF c, d
  <2>3. MaybeRelease(d).in_use => MaybeRelease(d).id = m.id
    BY <2>2 DEF MaybeRelease, FreeChannel
  <2>4. SetChannel(e, s, MaybeRelease(d)) /\ TakeAndShip(e, CloseReply(c))
    BY <2>1 DEF c, d
  <2>5. \A f \in Endpoint : NoNewChannel(f)
    BY <1>c, <2>3, <2>4, SetChannelIds
  <2>6. CloseReply(c) \in Seq(Message) /\ NoOpen(CloseReply(c))
    BY <1>a, <2>2, EmptyType, ControlType, NoOpenMessages DEF CloseReply, MsgKind
  <2> QED
    BY <1>e, <2>4, <2>5, <2>6
<1>5. CASE RecvWindowAdjust(e)
  <2>1. PICK s \in Lookup(e, m.id) :
          SetChannel(e, s, [channels[e][s] EXCEPT !.send_window = @ + m.window])
    BY <1>5 DEF RecvWindowAdjust, m
  <2>2. [channels[e][s] EXCEPT !.send_window = @ + m.window].id = channels[e][s].id
    BY <1>c DEF Channel
  <2>3. \A f \in Endpoint : NoNewChannel(f)
    BY <1>c, <2>1, <2>2, SetChannelIds
  <2> QED
    BY <1>5, <1>e, <1>f, <2>3 DEF RecvWindowAdjust
<1>6. CASE RecvUnknown(e)
  BY <1>6, <1>e, <1>f, SameChannelsIds DEF RecvUnknown
<1> QED
  BY <1>1, <1>2, <1>3, <1>4, <1>5, <1>6 DEF Recv

(* Every step preserves the invariant of ids. *)
LEMMA IdStep == TypeInv /\ IdInv /\ [Next]_vars => IdInv'
<1> SUFFICES ASSUME TypeInv, IdInv, [Next]_vars PROVE IdInv'
  OBVIOUS
<1>1. CASE UNCHANGED vars
  BY <1>1, SameChannelsIds, NoNewChannelIds DEF vars, IdInv, OpensAllocated, Allocated
<1>2. ASSUME NEW e \in Endpoint, Open(e) PROVE IdInv'
  BY <1>2, OpenIds
<1>3. ASSUME NEW e \in Endpoint, NEW s \in Slot, Consumer(e, s) PROVE IdInv'
  BY <1>3, ConsumerIds
<1>4. ASSUME NEW e \in Endpoint, PumpWritable(e) PROVE IdInv'
  BY <1>4, SameChannelsIds, NoNewChannelIds
  DEF PumpWritable, IdInv, OpensAllocated, Allocated
<1>5. ASSUME NEW e \in Endpoint, Emit(e) PROVE IdInv'
  BY <1>5, EmitIds
<1>6. ASSUME NEW e \in Endpoint, Recv(e) PROVE IdInv'
  BY <1>6, RecvIds
<1> QED
  BY <1>1, <1>2, <1>3, <1>4, <1>5, <1>6 DEF Next

(* An id names one channel of an endpoint and is never one that its parity's *)
(* owner has still to allocate (connection.c:774-776, 312-319), for any        *)
(* number of slots, opens and refusals.                                       *)
THEOREM IdsAreUnique == Spec => []UniqueIds
<1>1. IdInv => UniqueIds
  BY DEF IdInv
<1> QED
  BY <1>1, TypeInvariant, InitIds, IdStep, PTL DEF Spec

-----------------------------------------------------------------------------
(* The messages of one channel on a wire.                                   *)

Has(w, kind, id) == \E k \in 1 .. Len(w) : w[k].msg = kind /\ w[k].id = id
Quiet(w, id) == \A kind \in MsgKind : ~Has(w, kind, id)

(* OPEN comes first, and EOF and CLOSE come once and after all DATA. *)
Tidy(w, id) ==
  \A i, j \in 1 .. Len(w) :
    (i < j /\ w[i].id = id /\ w[j].id = id) =>
      /\ w[j].msg # "OPEN"
      /\ w[i].msg \in {"EOF", "CLOSE"} => w[j].msg # "DATA" /\ w[j].msg # w[i].msg

(* Message m takes the stream of channel id from byte x to byte y. *)
Carries(m, id, x, y) ==
  IF m.msg = "DATA" /\ m.id = id THEN y > x /\ m.data = [j \in 1 .. (y - x) |-> x + j]
                                 ELSE y = x

(* The DATA of channel id on wire w carries bytes a+1 to b, in order. f[k]  *)
(* is the last byte sent before message k.                                  *)
Chain(w, id, a, b) ==
  \E f \in [1 .. (Len(w) + 1) -> Nat] :
    /\ f[1] = a /\ f[Len(w) + 1] = b
    /\ \A k \in 1 .. (Len(w) + 1) : f[k] <= b
    /\ \A k \in 1 .. Len(w) : Carries(w[k], id, f[k], f[k + 1])
    /\ \A k \in 1 .. Len(w) :
         (\A j \in k .. Len(w) : ~(w[j].msg = "DATA" /\ w[j].id = id)) => f[k] = b

(* A wire with the same messages of channel id. *)
SameFor(w, w2, id) ==
  /\ \A kind \in MsgKind : Has(w2, kind, id) <=> Has(w, kind, id)
  /\ Tidy(w, id) => Tidy(w2, id)
  /\ \A a, b \in Nat : Chain(w, id, a, b) => Chain(w2, id, a, b)

(* Appending one message: what is on the wire then. *)
LEMMA AppendHas ==
  ASSUME NEW w \in Seq(Message), NEW m \in Message, NEW kind, NEW id
  PROVE  /\ Append(w, m) \in Seq(Message)
         /\ Has(Append(w, m), kind, id) <=> Has(w, kind, id) \/ (m.msg = kind /\ m.id = id)
<1>1. /\ Append(w, m) \in Seq(Message)
      /\ Len(Append(w, m)) = Len(w) + 1 /\ Len(w) \in Nat
      /\ Append(w, m)[Len(w) + 1] = m
      /\ \A k \in 1 .. Len(w) : Append(w, m)[k] = w[k]
  BY AppendProperties, LenProperties
<1> DEFINE w2 == Append(w, m)
<1> HIDE DEF w2
<1>2. Has(w2, kind, id) => Has(w, kind, id) \/ (m.msg = kind /\ m.id = id)
  <2> SUFFICES ASSUME NEW k \in 1 .. Len(w2), w2[k].msg = kind, w2[k].id = id
               PROVE  Has(w, kind, id) \/ (m.msg = kind /\ m.id = id)
    BY DEF Has
  <2>1. k \in 1 .. Len(w) \/ k = Len(w) + 1
    BY <1>1 DEF w2
  <2> QED
    BY <1>1, <2>1 DEF Has, w2
<1>3. Has(w, kind, id) => Has(w2, kind, id)
  <2>1. \A k \in 1 .. Len(w) : k \in 1 .. Len(w2) /\ w2[k] = w[k]
    BY <1>1 DEF w2
  <2> QED
    BY <2>1 DEF Has
<1>4. (m.msg = kind /\ m.id = id) => Has(w2, kind, id)
  <2>1. Len(w) + 1 \in 1 .. Len(w2) /\ w2[Len(w) + 1] = m
    BY <1>1 DEF w2
  <2> QED
    BY <2>1 DEF Has
<1> QED
  BY <1>1, <1>2, <1>3, <1>4 DEF w2

(* Appending keeps a wire tidy when nothing is sent behind a seal. *)
LEMMA AppendTidy ==
  ASSUME NEW w \in Seq(Message), NEW m \in Message, NEW id, Tidy(w, id),
         m.id = id =>
           /\ m.msg = "OPEN" => Quiet(w, id)
           /\ m.msg = "DATA" => ~Has(w, "EOF", id) /\ ~Has(w, "CLOSE", id)
           /\ m.msg \in {"EOF", "CLOSE"} => ~Has(w, m.msg, id)
  PROVE  Tidy(Append(w, m), id)
<1>1. /\ Len(Append(w, m)) = Len(w) + 1 /\ Len(w) \in Nat
      /\ Append(w, m)[Len(w) + 1] = m
      /\ \A k \in 1 .. Len(w) : Append(w, m)[k] = w[k]
  BY AppendProperties, LenProperties
<1> DEFINE w2 == Append(w, m)
<1> HIDE DEF w2
<1> SUFFICES ASSUME NEW i \in 1 .. Len(w2), NEW j \in 1 .. Len(w2),
                    i < j, w2[i].id = id, w2[j].id = id
             PROVE  /\ w2[j].msg # "OPEN"
                    /\ w2[i].msg \in {"EOF", "CLOSE"} =>
                         w2[j].msg # "DATA" /\ w2[j].msg # w2[i].msg
  BY DEF Tidy, w2
<1>2. i \in 1 .. Len(w) /\ w2[i] = w[i]
  BY <1>1 DEF w2
<1>3. CASE j \in 1 .. Len(w)
  BY <1>1, <1>2, <1>3 DEF Tidy, w2
<1>4. CASE j = Len(w) + 1
  <2>1. w2[j] = m
    BY <1>1, <1>4 DEF w2
  <2>2. Has(w, w[i].msg, id) /\ w[i].msg \in MsgKind
    <3>1. w[i] \in Message
      BY <1>2, ElementOfSeq
    <3> QED
      BY <1>2, <3>1 DEF Has, Message
  <2> QED
    BY <1>2, <2>1, <2>2 DEF Quiet
<1> QED
  BY <1>1, <1>3, <1>4 DEF w2

(* Appending extends the bytes on the wire by what the message carries. *)
LEMMA AppendChain ==
  ASSUME NEW w \in Seq(Message), NEW m \in Message, NEW id, NEW a \in Nat,
         NEW b \in Nat, NEW b2 \in Nat, Chain(w, id, a, b), Carries(m, id, b, b2)
  PROVE  Chain(Append(w, m), id, a, b2)
<1>1. /\ Len(Append(w, m)) = Len(w) + 1 /\ Len(w) \in Nat
      /\ Append(w, m)[Len(w) + 1] = m
      /\ \A k \in 1 .. Len(w) : Append(w, m)[k] = w[k]
  BY AppendProperties, LenProperties
<1>2. b <= b2
  BY DEF Carries
<1> DEFINE n == Len(w)
           w2 == Append(w, m)
<1> HIDE DEF w2
<1>3. PICK f \in [1 .. (n + 1) -> Nat] :
        /\ f[1] = a /\ f[n + 1] = b
        /\ \A k \in 1 .. (n + 1) : f[k] <= b
        /\ \A k \in 1 .. n : Carries(w[k], id, f[k], f[k + 1])
        /\ \A k \in 1 .. n :
             (\A j \in k .. n : ~(w[j].msg = "DATA" /\ w[j].id = id)) => f[k] = b
  BY DEF Chain
<1> DEFINE g == [k \in 1 .. (n + 2) |-> IF k <= n + 1 THEN f[k] ELSE b2]
<1>4. /\ g \in [1 .. (Len(w2) + 1) -> Nat]
      /\ g[n + 2] = b2 /\ \A k \in 1 .. (n + 1) : g[k] = f[k]
      /\ n + 2 = Len(w2) + 1 /\ n \in Nat
  BY <1>1 DEF w2
<1> HIDE DEF g, n
<1>5. g[1] = a /\ g[Len(w2) + 1] = b2
  BY <1>3, <1>4
<1>6. \A k \in 1 .. (Len(w2) + 1) : g[k] <= b2
  <2> SUFFICES ASSUME NEW k \in 1 .. (n + 2) PROVE g[k] <= b2
    BY <1>4
  <2>1. CASE k \in 1 .. (n + 1)
    BY SMTT(40), <1>2, <1>3, <1>4, <2>1
  <2>2. CASE k = n + 2
    BY <1>4, <2>2
  <2> QED
    BY <1>4, <2>1, <2>2
<1>7. \A k \in 1 .. Len(w2) : Carries(w2[k], id, g[k], g[k + 1])
  <2> SUFFICES ASSUME NEW k \in 1 .. (n + 1) PROVE Carries(w2[k], id, g[k], g[k + 1])
    BY <1>4
  <2>1. CASE k \in 1 .. n
    <3>1. w2[k] = w[k] /\ g[k] = f[k] /\ g[k + 1] = f[k + 1]
      BY <1>1, <1>4, <2>1 DEF w2, n
    <3> QED
      BY <1>3, <2>1, <3>1
  <2>2. CASE k = n + 1
    <3>1. w2[k] = m /\ g[k] = b /\ g[k + 1] = b2
      BY <1>1, <1>3, <1>4, <2>2 DEF w2, n
    <3> QED
      BY <3>1
  <2> QED
    BY <1>4, <2>1, <2>2
<1>8. ASSUME NEW k \in 1 .. Len(w2),
             \A j \in k .. Len(w2) : ~(w2[j].msg = "DATA" /\ w2[j].id = id)
      PROVE  g[k] = b2
  <2>1. k \in 1 .. (n + 1) /\ n + 1 \in k .. Len(w2)
    BY <1>4
  <2>2. b2 = b
    BY <1>1, <1>8, <2>1 DEF Carries, w2, n
  <2>3. CASE k = n + 1
    BY <1>3, <1>4, <2>2, <2>3
  <2>4. CASE k \in 1 .. n
    <3>1. \A j \in k .. n : j \in k .. Len(w2) /\ w2[j] = w[j]
      BY <1>1, <1>4, <2>4 DEF w2, n
    <3>2. \A j \in k .. n : ~(w[j].msg = "DATA" /\ w[j].id = id)
      BY <1>8, <3>1
    <3>3. f[k] = b
      BY <1>3, <2>4, <3>2
    <3> QED
      BY <1>4, <2>1, <2>2, <3>3
  <2> QED
    BY <1>4, <2>1, <2>3, <2>4
<1> QED
  BY <1>4, <1>5, <1>6, <1>7, <1>8 DEF Chain, w2

(* The messages of a wire are those of its head and its tail. *)
LEMMA HeadTailFacts ==
  ASSUME NEW w \in Seq(Message), w # <<>>
  PROVE  /\ Head(w) \in Message /\ Tail(w) \in Seq(Message)
         /\ Len(w) \in Nat /\ Len(w) >= 1 /\ Len(Tail(w)) = Len(w) - 1
         /\ w[1] = Head(w)
         /\ \A k \in 1 .. Len(Tail(w)) : Tail(w)[k] = w[k + 1]
<1>1. Len(w) \in Nat /\ Len(w) # 0
  BY EmptySeq, LenProperties
<1> QED
  BY <1>1, HeadTailProperties

(* Taking one message off: what is left on the wire. *)
LEMMA TailHas ==
  ASSUME NEW w \in Seq(Message), w # <<>>, NEW kind, NEW id
  PROVE  Has(w, kind, id) <=>
           Has(Tail(w), kind, id) \/ (Head(w).msg = kind /\ Head(w).id = id)
<1> DEFINE t == Tail(w)
           n == Len(w)
<1>1. /\ n \in Nat /\ n >= 1 /\ Len(t) = n - 1 /\ w[1] = Head(w)
      /\ \A k \in 1 .. Len(t) : t[k] = w[k + 1]
  BY HeadTailFacts
<1> HIDE DEF t, n
<1>2. Has(t, kind, id) => Has(w, kind, id)
  <2>1. \A k \in 1 .. Len(t) : k + 1 \in 1 .. n /\ t[k] = w[k + 1]
    BY <1>1
  <2> QED
    BY <2>1 DEF Has, n
<1>3. (Head(w).msg = kind /\ Head(w).id = id) => Has(w, kind, id)
  <2>1. 1 \in 1 .. n /\ w[1] = Head(w)
    BY <1>1
  <2> QED
    BY <2>1 DEF Has, n
<1>4. ASSUME NEW k \in 1 .. n, w[k].msg = kind, w[k].id = id
      PROVE  Has(t, kind, id) \/ (Head(w).msg = kind /\ Head(w).id = id)
  <2>1. CASE k = 1
    BY <1>1, <1>4, <2>1
  <2>2. CASE k # 1
    <3>1. k - 1 \in 1 .. Len(t) /\ t[k - 1] = w[k]
      BY <1>1, <2>2
    <3> QED
      BY <1>4, <3>1 DEF Has
  <2> QED
    BY <2>1, <2>2
<1> QED
  BY <1>2, <1>3, <1>4 DEF Has, t, n

(* The rest of a tidy wire is tidy, and what its first message rules out. *)
LEMMA TailTidy ==
  ASSUME NEW w \in Seq(Message), w # <<>>, NEW id, Tidy(w, id)
  PROVE  /\ Tidy(Tail(w), id)
         /\ Head(w).id = id =>
              /\ ~Has(Tail(w), "OPEN", id)
              /\ Head(w).msg \in {"EOF", "CLOSE"} =>
                   ~Has(Tail(w), "DATA", id) /\ ~Has(Tail(w), Head(w).msg, id)
<1> DEFINE t == Tail(w)
           n == Len(w)
<1>1. /\ n \in Nat /\ n >= 1 /\ Len(t) = n - 1 /\ w[1] = Head(w)
      /\ \A k \in 1 .. Len(t) : t[k] = w[k + 1]
  BY HeadTailFacts
<1>2. \A k \in 1 .. Len(t) : k + 1 \in 1 .. n /\ 1 < k + 1 /\ t[k] = w[k + 1] /\ 1 \in 1 .. n
  BY <1>1
<1>3. Tidy(t, id)
  <2> SUFFICES ASSUME NEW i \in 1 .. Len(t), NEW j \in 1 .. Len(t),
                      i < j, t[i].id = id, t[j].id = id
               PROVE  /\ t[j].msg # "OPEN"
                      /\ t[i].msg \in {"EOF", "CLOSE"} =>
                           t[j].msg # "DATA" /\ t[j].msg # t[i].msg
    BY DEF Tidy
  <2>1. i + 1 < j + 1
    BY <1>1
  <2> HIDE DEF t, n
  <2> QED
    BY <1>2, <2>1 DEF Tidy, n
<1> HIDE DEF t, n
<1>4. ASSUME Head(w).id = id, NEW k \in 1 .. Len(t), t[k].id = id
      PROVE  /\ t[k].msg # "OPEN"
             /\ Head(w).msg \in {"EOF", "CLOSE"} =>
                  t[k].msg # "DATA" /\ t[k].msg # Head(w).msg
  BY <1>1, <1>2, <1>4 DEF Tidy, n
<1> QED
  BY <1>3, <1>4 DEF Has, t

(* Taking a message off takes the bytes it carries. *)
LEMMA TailChain ==
  ASSUME NEW w \in Seq(Message), w # <<>>, NEW id, NEW a \in Nat, NEW b \in Nat,
         Chain(w, id, a, b)
  PROVE  \E a2 \in Nat : a2 <= b /\ Carries(Head(w), id, a, a2) /\ Chain(Tail(w), id, a2, b)
<1> DEFINE t == Tail(w)
           n == Len(w)
<1>1. /\ n \in Nat /\ n >= 1 /\ Len(t) = n - 1 /\ w[1] = Head(w)
      /\ \A k \in 1 .. Len(t) : t[k] = w[k + 1]
  BY HeadTailFacts
<1> HIDE DEF t
<1>2. PICK f \in [1 .. (n + 1) -> Nat] :
        /\ f[1] = a /\ f[n + 1] = b
        /\ \A k \in 1 .. (n + 1) : f[k] <= b
        /\ \A k \in 1 .. n : Carries(w[k], id, f[k], f[k + 1])
        /\ \A k \in 1 .. n :
             (\A j \in k .. n : ~(w[j].msg = "DATA" /\ w[j].id = id)) => f[k] = b
  BY DEF Chain
<1> HIDE DEF n
<1> DEFINE g == [k \in 1 .. n |-> f[k + 1]]
<1>3. /\ 2 \in 1 .. (n + 1) /\ f[2] \in Nat /\ f[2] <= b
      /\ 1 \in 1 .. n /\ Carries(Head(w), id, a, f[2])
  BY <1>1, <1>2
<1>4. /\ g \in [1 .. (Len(t) + 1) -> Nat]
      /\ \A k \in 1 .. n : g[k] = f[k + 1] /\ k + 1 \in 1 .. (n + 1)
      /\ Len(t) + 1 = n
  BY <1>1
<1> HIDE DEF g
<1>5. g[1] = f[2] /\ g[Len(t) + 1] = b
  BY <1>1, <1>2, <1>4
<1>6. \A k \in 1 .. (Len(t) + 1) : g[k] <= b
  BY <1>2, <1>4
<1>7. \A k \in 1 .. Len(t) : Carries(t[k], id, g[k], g[k + 1])
  <2> SUFFICES ASSUME NEW k \in 1 .. Len(t) PROVE Carries(t[k], id, g[k], g[k + 1])
    OBVIOUS
  <2>1. k + 1 \in 1 .. n /\ g[k] = f[k + 1] /\ g[k + 1] = f[(k + 1) + 1] /\ t[k] = w[k + 1]
    BY <1>1, <1>4
  <2> QED
    BY <1>2, <2>1
<1>8. ASSUME NEW k \in 1 .. Len(t),
             \A j \in k .. Len(t) : ~(t[j].msg = "DATA" /\ t[j].id = id)
      PROVE  g[k] = b
  <2>1. k + 1 \in 1 .. n /\ g[k] = f[k + 1]
    BY <1>1, <1>4
  <2>2. ASSUME NEW j \in (k + 1) .. n PROVE ~(w[j].msg = "DATA" /\ w[j].id = id)
    <3>1. j - 1 \in k .. Len(t) /\ j - 1 \in 1 .. Len(t) /\ t[j - 1] = w[j]
      BY <1>1
    <3> QED
      BY <1>8, <3>1
  <2> QED
    BY <1>2, <2>1, <2>2
<1>9. Chain(t, id, f[2], b)
  BY <1>3, <1>4, <1>5, <1>6, <1>7, <1>8 DEF Chain
<1> QED
  BY <1>3, <1>9 DEF t

(* With no DATA on the wire, nothing is on its way. *)
LEMMA ChainEnds ==
  ASSUME NEW w \in Seq(Message), NEW id, NEW a \in Nat, NEW b \in Nat, Chain(w, id, a, b)
  PROVE  a <= b /\ (~Has(w, "DATA", id) => a = b)
<1>1. Len(w) \in Nat
  BY LenProperties
<1> DEFINE n == Len(w)
<1>2. PICK f \in [1 .. (n + 1) -> Nat] :
        /\ f[1] = a /\ f[n + 1] = b
        /\ \A k \in 1 .. (n + 1) : f[k] <= b
        /\ \A k \in 1 .. n :
             (\A j \in k .. n : ~(w[j].msg = "DATA" /\ w[j].id = id)) => f[k] = b
  BY DEF Chain
<1>3. a <= b
  BY <1>1, <1>2
<1>4. CASE n = 0
  BY <1>2, <1>3, <1>4
<1>5. CASE n # 0
  <2>1. 1 \in 1 .. n
    BY <1>1, <1>5
  <2> QED
    BY <1>2, <1>3, <2>1 DEF Has
<1> QED
  BY <1>4, <1>5

(* Nothing is on its way on an empty wire. *)
LEMMA EmptyChain ==
  ASSUME NEW id
  PROVE  /\ Chain(<<>>, id, 0, 0) /\ Tidy(<<>>, id) /\ Quiet(<<>>, id)
         /\ \A kind : ~Has(<<>>, kind, id)
<1>1. <<>> \in Seq(Message) /\ Len(<<>>) = 0
  BY EmptySeq
<1> DEFINE f == [k \in 1 .. 1 |-> 0]
<1>2. f \in [1 .. (0 + 1) -> Nat] /\ f[1] = 0
  OBVIOUS
<1> HIDE DEF f
<1>3. Chain(<<>>, id, 0, 0)
  BY <1>1, <1>2 DEF Chain
<1> QED
  BY <1>1, <1>3 DEF Tidy, Quiet, Has

(* A message of another channel does not show. *)
LEMMA AppendSame ==
  ASSUME NEW w \in Seq(Message), NEW m \in Message, NEW id, m.id # id
  PROVE  SameFor(w, Append(w, m), id)
<1>1. \A kind \in MsgKind : Has(Append(w, m), kind, id) <=> Has(w, kind, id)
  BY AppendHas
<1>2. Tidy(w, id) => Tidy(Append(w, m), id)
  BY AppendTidy
<1>3. ASSUME NEW a \in Nat, NEW b \in Nat, Chain(w, id, a, b)
      PROVE  Chain(Append(w, m), id, a, b)
  <2>1. Carries(m, id, b, b)
    BY DEF Carries
  <2> QED
    BY <1>3, <2>1, AppendChain
<1> QED
  BY <1>1, <1>2, <1>3 DEF SameFor

(* Nor does taking one off. *)
LEMMA TailSame ==
  ASSUME NEW w \in Seq(Message), w # <<>>, NEW id, Head(w).id # id
  PROVE  SameFor(w, Tail(w), id)
<1>1. \A kind \in MsgKind : Has(Tail(w), kind, id) <=> Has(w, kind, id)
  BY TailHas
<1>2. Tidy(w, id) => Tidy(Tail(w), id)
  BY TailTidy
<1>3. ASSUME NEW a \in Nat, NEW b \in Nat, Chain(w, id, a, b)
      PROVE  Chain(Tail(w), id, a, b)
  <2>1. PICK a2 \in Nat : Carries(Head(w), id, a, a2) /\ Chain(Tail(w), id, a2, b)
    BY <1>3, TailChain
  <2>2. a2 = a
    BY <2>1 DEF Carries
  <2> QED
    BY <2>1, <2>2
<1> QED
  BY <1>1, <1>2, <1>3 DEF SameFor

-----------------------------------------------------------------------------
(* One channel, seen from both ends.                                        *)

Chan(e, id) ==
  IF Lookup(e, id) = {} THEN FreeChannel
  ELSE channels[e][CHOOSE s \in Lookup(e, id) : TRUE]

View ==
  [chan : [Endpoint -> Channel], wire : [Endpoint -> Seq(Message)],
   accepted : [Endpoint -> Nat], delivered : [Endpoint -> Seq(Nat)],
   told : [Endpoint -> Seq({"REMOTE_EOF", "CLOSED"})],
   closed : [Endpoint -> BOOLEAN], known : BOOLEAN]

(* V is what the two endpoints and the wires hold of channel id now. *)
IsView(V, id) ==
  /\ V \in View
  /\ V.wire = wire
  /\ V.known <=> Allocated(id, next_dynamic_offset)
  /\ \A e \in Endpoint :
       /\ V.chan[e] = Chan(e, id)
       /\ V.accepted[e] = accepted[e][id]
       /\ V.delivered[e] = delivered[e][id]
       /\ V.told[e] = told[e][id]
       /\ V.closed[e] <=> id \in closers[e]

Tracked(V, e) == V.chan[e].in_use
Reached(V, e) == V.delivered[e] \o V.chan[e].inbuf
Heard(V, e, event) == \E k \in 1 .. Len(V.told[e]) : V.told[e][k] = event
SomeoneClosed(V) == \E e \in Endpoint : V.closed[e]

(* Endpoint e has no trace of the channel. *)
Fresh(V, id, e) ==
  /\ V.accepted[e] = 0
  /\ V.delivered[e] = <<>>
  /\ V.told[e] = <<>>
  /\ ~V.closed[e]
  /\ V.chan[e] = FreeChannel
  /\ Quiet(V.wire[e], id)

(* Endpoint e does not track the channel and never will (again). *)
Gone(V, id, e, p) == V.known /\ ~Tracked(V, e) /\ ~Has(V.wire[p], "OPEN", id)

(* Nobody uses an id before it is allocated. *)
KnownInv(V, id, e) == ~V.known => Fresh(V, id, e)

(* While the OPEN of e is on its way, p knows nothing of the channel. *)
OpenInv(V, id, e, p) ==
  Has(V.wire[e], "OPEN", id) =>
    /\ id \in OwnId(e)
    /\ Fresh(V, id, p)
    /\ V.told[e] = <<>>
    /\ Tracked(V, e)
    /\ V.chan[e].close_sent => Has(V.wire[e], "CLOSE", id)

(* What an end that tracks the channel keeps in its slot. *)
EndInv(V, id, e) ==
  LET c == V.chan[e]
  IN  Tracked(V, e) =>
        /\ c.close_rcvd <=> Heard(V, e, "CLOSED")
        /\ c.remote_eof <=> Heard(V, e, "REMOTE_EOF")
        /\ V.closed[e] => c.close_requested
        /\ c.eof_sent => c.eof_requested
        /\ c.close_sent => c.close_requested
        /\ c.close_rcvd => c.close_sent
        /\ c.outbuf_off <= c.flush_mark
        /\ c.flush_mark <= c.written
        /\ c.written = V.accepted[e]
        /\ c.eof_requested => c.flush_mark = c.written
        /\ c.close_requested => c.outbuf_off = c.written
        /\ c.eof_sent => c.outbuf_off = c.written
        /\ c.sink = "push" => c.inbuf = <<>>

(* e is told of an EOF or a CLOSE of p once, and p sends no DATA after it. *)
EofInv(V, id, e, p) ==
  /\ Has(V.wire[p], "EOF", id) =>
       ~Heard(V, e, "REMOTE_EOF") /\ (Tracked(V, p) => V.chan[p].eof_sent)
  /\ Heard(V, e, "REMOTE_EOF") =>
       ~Has(V.wire[p], "DATA", id) /\ (Tracked(V, p) => V.chan[p].eof_sent)

CloseInv(V, id, e, p) ==
  /\ Has(V.wire[p], "CLOSE", id) =>
       ~Heard(V, e, "CLOSED") /\ (Tracked(V, p) => V.chan[p].close_sent)
  /\ Heard(V, e, "CLOSED") =>
       ~Has(V.wire[p], "DATA", id) /\ (Tracked(V, p) => V.chan[p].close_sent)

(* What reached e is a prefix of what p wrote, and what is on the wire goes *)
(* on from there; behind an EOF nothing is missing unless somebody closed.  *)
StreamInv(V, id, e, p) ==
  /\ Reached(V, e) = [k \in 1 .. Len(Reached(V, e)) |-> k]
  /\ \/ Gone(V, id, e, p)
     \/ \E b \in Nat :
          /\ b <= V.accepted[p]
          /\ Chain(V.wire[p], id, Len(Reached(V, e)), b)
          /\ (Tracked(V, p) /\ ~V.chan[p].close_requested) => b = V.chan[p].outbuf_off
          /\ Has(V.wire[p], "EOF", id) => SomeoneClosed(V) \/ b = V.accepted[p]

(* A CLOSE goes back to a consumer's close() or to a refused OPEN. *)
ReasonInv(V, id, e, p) ==
  (Has(V.wire[p], "CLOSE", id) \/ (Tracked(V, p) /\ V.chan[p].close_requested)) =>
    \/ SomeoneClosed(V)
    \/ Gone(V, id, p, e) /\ id \in OwnId(e)
    \/ Gone(V, id, e, p)

(* An end that has not seen the CLOSE still has the other end, or news of it. *)
OrphanInv(V, id, e, p) ==
  (Tracked(V, e) /\ ~V.chan[e].close_rcvd) =>
    \/ Has(V.wire[e], "OPEN", id)
    \/ Has(V.wire[p], "CLOSE", id)
    \/ Tracked(V, p) /\ ~V.chan[p].close_sent

EndsInv(V, id, e, p) ==
  /\ KnownInv(V, id, e)
  /\ OpenInv(V, id, e, p)
  /\ EndInv(V, id, e)
  /\ EofInv(V, id, e, p)
  /\ CloseInv(V, id, e, p)
  /\ Tidy(V.wire[e], id)
  /\ StreamInv(V, id, e, p)
  /\ ReasonInv(V, id, e, p)
  /\ OrphanInv(V, id, e, p)

ViewInv(V, id) == \A e \in Endpoint : EndsInv(V, id, e, Peer(e))

OrderInv == \A id \in Id : \A V \in View : IsView(V, id) => ViewInv(V, id)

(* The invariant of a view is that of its two ends. *)
LEMMA TwoEnds ==
  ASSUME NEW V, NEW id, NEW e \in Endpoint, NEW p, p = Peer(e)
  PROVE  ViewInv(V, id) <=> EndsInv(V, id, e, p) /\ EndsInv(V, id, p, e)
<1>1. Peer(e) \in Endpoint /\ Peer(Peer(e)) = e /\ \A f \in Endpoint : f = e \/ f = Peer(e)
  BY DEF Endpoint, Peer
<1> QED
  BY <1>1 DEF ViewInv

(* Messages of other channels come and go without a trace. *)
LEMMA ForeignStep ==
  ASSUME NEW id, NEW e \in Endpoint, NEW p \in Endpoint, p # e,
         NEW V \in View, NEW V2 \in View, EndsInv(V, id, e, p),
         SameFor(V.wire[e], V2.wire[e], id), SameFor(V.wire[p], V2.wire[p], id),
         V2.chan = V.chan, V2.accepted = V.accepted, V2.delivered = V.delivered,
         V2.told = V.told, V2.closed = V.closed, V.known => V2.known
  PROVE  EndsInv(V2, id, e, p)
<1>1. \A f \in {e, p} : \A kind \in {"OPEN", "DATA", "EOF", "CLOSE"} :
        Has(V2.wire[f], kind, id) <=> Has(V.wire[f], kind, id)
  BY DEF SameFor, MsgKind
<1>2. \A f \in {e, p} : /\ Tracked(V2, f) <=> Tracked(V, f)
                        /\ Reached(V2, f) = Reached(V, f)
                        /\ Fresh(V, id, f) => Fresh(V2, id, f)
                        /\ \A event : Heard(V2, f, event) <=> Heard(V, f, event)
  BY DEF Tracked, Reached, Fresh, Heard, SameFor, Quiet
<1>3. SomeoneClosed(V2) <=> SomeoneClosed(V)
  BY DEF SomeoneClosed
<1>4. (Gone(V, id, e, p) => Gone(V2, id, e, p)) /\ (Gone(V, id, p, e) => Gone(V2, id, p, e))
  BY <1>1, <1>2 DEF Gone
<1>5. KnownInv(V2, id, e) /\ OpenInv(V2, id, e, p)
  BY <1>1, <1>2 DEF EndsInv, KnownInv, OpenInv
<1>6. EndInv(V2, id, e)
  BY <1>2 DEF EndsInv, EndInv
<1>7. EofInv(V2, id, e, p) /\ CloseInv(V2, id, e, p)
  BY <1>1, <1>2 DEF EndsInv, EofInv, CloseInv
<1>8. Tidy(V2.wire[e], id)
  BY DEF EndsInv, SameFor
<1>9. StreamInv(V2, id, e, p)
  <2>1. Len(Reached(V, e)) \in Nat
    BY LenProperties, ConcatProperties DEF Reached, View, Channel
  <2>2. \A b \in Nat : Chain(V.wire[p], id, Len(Reached(V, e)), b)
                         => Chain(V2.wire[p], id, Len(Reached(V2, e)), b)
    BY <1>2, <2>1 DEF SameFor
  <2> QED
    BY <1>1, <1>2, <1>3, <1>4, <2>2 DEF EndsInv, StreamInv
<1>10. ReasonInv(V2, id, e, p) /\ OrphanInv(V2, id, e, p)
  BY <1>1, <1>2, <1>3, <1>4 DEF EndsInv, ReasonInv, OrphanInv
<1> QED
  BY <1>5, <1>6, <1>7, <1>8, <1>9, <1>10 DEF EndsInv

(* What an end that tracks the channel tells of the rest of the view. *)
LEMMA TrackedFacts ==
  ASSUME NEW id, NEW e \in Endpoint, NEW p \in Endpoint, NEW V \in View, Tracked(V, e),
         EndsInv(V, id, e, p), EndsInv(V, id, p, e)
  PROVE  /\ V.known
         /\ ~Has(V.wire[p], "OPEN", id)
         /\ ~Gone(V, id, e, p)
         /\ V.told[e] = <<>> => \A event : ~Heard(V, e, event)
<1>1. ~Fresh(V, id, e)
  BY DEF Fresh, Tracked, FreeChannel
<1>2. V.told[e] = <<>> => Len(V.told[e]) = 0
  BY EmptySeq
<1> QED
  BY <1>1, <1>2 DEF EndsInv, KnownInv, OpenInv, Gone, Heard

(* A step of end e that ships nothing, and may free the slot at last. *)
LEMMA LocalStep ==
  ASSUME NEW id, NEW e \in Endpoint, NEW p \in Endpoint, p # e,
         NEW V \in View, NEW V2 \in View, EndsInv(V, id, e, p), EndsInv(V, id, p, e),
         V2.wire = V.wire, V2.told = V.told, V2.known = V.known,
         V2.chan[p] = V.chan[p], V2.accepted[p] = V.accepted[p],
         V2.delivered[p] = V.delivered[p], V2.closed[p] = V.closed[p],
         V.closed[e] => V2.closed[e],
         Reached(V2, e) = Reached(V, e),
         V2.accepted[e] >= V.accepted[e],
         V2.accepted[e] # V.accepted[e] => ~V.chan[e].eof_sent,
         Tracked(V, e), EndInv(V2, id, e),
         Tracked(V2, e) =>
           /\ V2.chan[e].eof_sent = V.chan[e].eof_sent
           /\ V2.chan[e].close_sent = V.chan[e].close_sent
           /\ V2.chan[e].close_rcvd = V.chan[e].close_rcvd
           /\ V2.chan[e].close_requested =>
                V.chan[e].close_requested \/ SomeoneClosed(V2) \/ Gone(V, id, p, e)
           /\ ~V2.chan[e].close_requested =>
                ~V.chan[e].close_requested /\ V2.chan[e].outbuf_off = V.chan[e].outbuf_off,
         ~Tracked(V2, e) => V.chan[e].close_sent /\ V.chan[e].close_rcvd
  PROVE  EndsInv(V2, id, e, p) /\ EndsInv(V2, id, p, e)
<1>1. /\ V.known /\ ~Has(V.wire[p], "OPEN", id) /\ ~Gone(V, id, e, p)
      /\ V.told[e] = <<>> => \A event : ~Heard(V, e, event)
  BY TrackedFacts
<1>2. /\ \A f \in {e, p} : \A event : Heard(V2, f, event) <=> Heard(V, f, event)
      /\ Reached(V2, p) = Reached(V, p)
      /\ Tracked(V2, p) <=> Tracked(V, p)
      /\ Fresh(V, id, p) => Fresh(V2, id, p)
      /\ SomeoneClosed(V) => SomeoneClosed(V2)
      /\ Gone(V, id, p, e) => Gone(V2, id, p, e)
  <2>1. \A f \in Endpoint : f = e \/ f = p
    BY DEF Endpoint
  <2>2. SomeoneClosed(V) => SomeoneClosed(V2)
    BY <2>1 DEF SomeoneClosed
  <2>3. Tracked(V2, p) <=> Tracked(V, p)
    BY DEF Tracked
  <2> QED
    BY <2>2, <2>3 DEF Reached, Fresh, Heard, Gone
<1>3. KnownInv(V2, id, e) /\ KnownInv(V2, id, p)
  BY <1>1 DEF KnownInv
<1>4. OpenInv(V2, id, e, p) /\ OpenInv(V2, id, p, e)
  <2>1. ASSUME Has(V.wire[e], "OPEN", id) PROVE Tracked(V2, e)
    BY <1>1, <2>1 DEF EndsInv, OpenInv, EndInv
  <2> QED
    BY <1>1, <1>2, <2>1 DEF EndsInv, OpenInv
<1>5. EndInv(V2, id, p)
  BY <1>2 DEF EndsInv, EndInv
<1>6. /\ EofInv(V2, id, e, p) /\ EofInv(V2, id, p, e)
      /\ CloseInv(V2, id, e, p) /\ CloseInv(V2, id, p, e)
  BY <1>2 DEF EndsInv, EofInv, CloseInv
<1>7. Tidy(V2.wire[e], id) /\ Tidy(V2.wire[p], id)
  BY DEF EndsInv
<1>8. StreamInv(V2, id, e, p)
  BY <1>1, <1>2 DEF EndsInv, StreamInv
<1>9. StreamInv(V2, id, p, e)
  <2>1. CASE Gone(V, id, p, e)
    BY <1>2, <2>1 DEF EndsInv, StreamInv
  <2>2. CASE ~Gone(V, id, p, e)
    <3>1. PICK b \in Nat :
            /\ b <= V.accepted[e]
            /\ Chain(V.wire[e], id, Len(Reached(V, p)), b)
            /\ (Tracked(V, e) /\ ~V.chan[e].close_requested) => b = V.chan[e].outbuf_off
            /\ Has(V.wire[e], "EOF", id) => SomeoneClosed(V) \/ b = V.accepted[e]
      BY <2>2 DEF EndsInv, StreamInv
    <3>2. Has(V.wire[e], "EOF", id) => V2.accepted[e] = V.accepted[e]
      BY DEF EndsInv, EofInv
    <3>3. b <= V2.accepted[e]
      BY <3>1 DEF View
    <3> QED
      BY <1>2, <3>1, <3>2, <3>3 DEF EndsInv, StreamInv
  <2> QED
    BY <2>1, <2>2
<1>10. ReasonInv(V2, id, e, p)
  BY <1>1, <1>2 DEF EndsInv, ReasonInv
<1>11. ReasonInv(V2, id, p, e)
  BY <1>1, <1>2 DEF EndsInv, ReasonInv
<1>12. OrphanInv(V2, id, e, p) /\ OrphanInv(V2, id, p, e)
  BY <1>1, <1>2 DEF EndsInv, OrphanInv
<1> QED
  BY <1>3, <1>4, <1>5, <1>6, <1>7, <1>8, <1>9, <1>10, <1>11, <1>12 DEF EndsInv

(* A step of end e that ships one message of a channel it tracks: a grant,  *)
(* DATA of a channel it has not sealed, or a seal it was asked for.         *)
LEMMA ShipStep ==
  ASSUME NEW id, NEW e \in Endpoint, NEW p \in Endpoint, p # e,
         NEW V \in View, NEW V2 \in View, EndsInv(V, id, e, p), EndsInv(V, id, p, e),
         NEW m \in Message, m.id = id, m.msg # "OPEN",
         V2.wire[e] = Append(V.wire[e], m), V2.wire[p] = V.wire[p],
         V2.told = V.told, V2.known = V.known, V2.chan[p] = V.chan[p],
         V2.accepted = V.accepted, V2.delivered = V.delivered, V2.closed = V.closed,
         Tracked(V, e), Tracked(V2, e), EndInv(V2, id, e),
         V2.chan[e].inbuf = V.chan[e].inbuf,
         V2.chan[e].close_requested = V.chan[e].close_requested,
         V2.chan[e].close_rcvd = V.chan[e].close_rcvd,
         IF m.msg = "DATA"
           THEN /\ ~V.chan[e].eof_sent /\ ~V.chan[e].close_requested
                /\ Carries(m, id, V.chan[e].outbuf_off, V2.chan[e].outbuf_off)
           ELSE V2.chan[e].outbuf_off = V.chan[e].outbuf_off,
         IF m.msg = "EOF"
           THEN ~V.chan[e].eof_sent /\ V2.chan[e].eof_sent
           ELSE V2.chan[e].eof_sent = V.chan[e].eof_sent,
         IF m.msg = "CLOSE"
           THEN ~V.chan[e].close_sent /\ V2.chan[e].close_sent /\ V2.chan[e].close_requested
           ELSE V2.chan[e].close_sent = V.chan[e].close_sent
  PROVE  EndsInv(V2, id, e, p) /\ EndsInv(V2, id, p, e)
<1> DEFINE w == V.wire[e]
           w2 == V2.wire[e]
<1>1. /\ V.known /\ ~Has(V.wire[p], "OPEN", id) /\ ~Gone(V, id, e, p)
      /\ V.told[e] = <<>> => \A event : ~Heard(V, e, event)
  BY TrackedFacts
<1>2. w \in Seq(Message) /\ \A kind : Has(w2, kind, id) <=> Has(w, kind, id) \/ m.msg = kind
  BY AppendHas DEF View
<1> HIDE DEF w, w2
<1>3. /\ \A f \in {e, p} : \A event : Heard(V2, f, event) <=> Heard(V, f, event)
      /\ Reached(V2, p) = Reached(V, p) /\ Reached(V2, e) = Reached(V, e)
      /\ Tracked(V2, p) <=> Tracked(V, p)
      /\ Fresh(V, id, p) => Fresh(V2, id, p)
      /\ SomeoneClosed(V) <=> SomeoneClosed(V2)
      /\ Gone(V, id, p, e) => Gone(V2, id, p, e)
  BY <1>2 DEF Reached, Fresh, Heard, Gone, Tracked, SomeoneClosed, w, w2
<1>4. KnownInv(V2, id, e) /\ KnownInv(V2, id, p)
  BY <1>1 DEF KnownInv
<1>5. OpenInv(V2, id, e, p) /\ OpenInv(V2, id, p, e)
  BY <1>1, <1>2, <1>3 DEF EndsInv, OpenInv, w, w2
<1>6. EndInv(V2, id, p)
  BY <1>3 DEF EndsInv, EndInv
<1>7. EofInv(V2, id, e, p) /\ CloseInv(V2, id, e, p)
  BY <1>3 DEF EndsInv, EofInv, CloseInv
<1>8. V.chan[e].close_sent => V.chan[e].close_requested
  BY DEF EndsInv, EndInv
<1>9. EofInv(V2, id, p, e)
  BY <1>2, <1>3 DEF EndsInv, EofInv, w, w2
<1>10. CloseInv(V2, id, p, e)
  BY <1>2, <1>3, <1>8 DEF EndsInv, CloseInv, w, w2
<1>11. Tidy(V2.wire[e], id) /\ Tidy(V2.wire[p], id)
  <2>1. /\ m.msg = "DATA" => ~Has(w, "EOF", id) /\ ~Has(w, "CLOSE", id)
        /\ m.msg \in {"EOF", "CLOSE"} => ~Has(w, m.msg, id)
    BY <1>8 DEF EndsInv, EofInv, CloseInv, w
  <2> QED
    BY <1>2, <2>1, AppendTidy DEF EndsInv, w
<1>12. StreamInv(V2, id, e, p)
  BY <1>1, <1>3 DEF EndsInv, StreamInv
<1>13. StreamInv(V2, id, p, e)
  <2>1. CASE Gone(V, id, p, e)
    BY <1>3, <2>1 DEF EndsInv, StreamInv
  <2>2. CASE ~Gone(V, id, p, e)
    <3>1. PICK b \in Nat :
            /\ b <= V.accepted[e]
            /\ Chain(w, id, Len(Reached(V, p)), b)
            /\ (Tracked(V, e) /\ ~V.chan[e].close_requested) => b = V.chan[e].outbuf_off
            /\ Has(w, "EOF", id) => SomeoneClosed(V) \/ b = V.accepted[e]
      BY <2>2 DEF EndsInv, StreamInv, w
    <3>2. /\ Len(Reached(V, p)) \in Nat
          /\ V2.chan[e].outbuf_off \in Nat
          /\ V2.chan[e].written \in Nat
          /\ V2.chan[e].flush_mark \in Nat
      BY ConcatProperties, LenProperties DEF View, Channel, Reached
    <3>3. CASE m.msg = "DATA"
      <4>1. Carries(m, id, b, V2.chan[e].outbuf_off)
        BY <3>1, <3>3
      <4>2. Chain(w2, id, Len(Reached(V2, p)), V2.chan[e].outbuf_off)
        BY <1>2, <1>3, <3>1, <3>2, <4>1, AppendChain DEF w, w2
      <4>3. V2.chan[e].outbuf_off <= V2.accepted[e]
        BY <3>2 DEF EndInv
      <4>4. ~Has(w2, "EOF", id)
        BY <1>2, <3>3 DEF EndsInv, EofInv, w
      <4> QED
        BY <1>3, <3>2, <4>2, <4>3, <4>4 DEF EndsInv, StreamInv, w2
    <3>4. CASE m.msg # "DATA"
      <4>1. Carries(m, id, b, b)
        BY <3>4 DEF Carries
      <4>2. Chain(w2, id, Len(Reached(V2, p)), b)
        BY <1>2, <1>3, <3>1, <3>2, <4>1, AppendChain DEF w, w2
      <4>3. m.msg = "EOF" => SomeoneClosed(V) \/ b = V.accepted[e]
        <5>1. ASSUME V.chan[e].close_requested PROVE SomeoneClosed(V)
          BY <2>2, <5>1 DEF EndsInv, ReasonInv, Gone
        <5>2. ASSUME m.msg = "EOF" PROVE V2.chan[e].outbuf_off = V2.accepted[e]
          BY <5>2 DEF EndInv
        <5> QED
          BY <3>1, <3>4, <5>1, <5>2
      <4> QED
        BY <1>2, <1>3, <3>1, <3>4, <4>2, <4>3 DEF EndsInv, StreamInv, w2
    <3> QED
      BY <3>3, <3>4
  <2> QED
    BY <2>1, <2>2
<1>14. ReasonInv(V2, id, e, p) /\ ReasonInv(V2, id, p, e)
  BY <1>1, <1>2, <1>3 DEF EndsInv, ReasonInv, w, w2
<1>15. OrphanInv(V2, id, e, p) /\ OrphanInv(V2, id, p, e)
  BY <1>1, <1>2, <1>3 DEF EndsInv, OrphanInv, w, w2
<1> QED
  BY <1>4, <1>5, <1>6, <1>7, <1>9, <1>10, <1>11, <1>12, <1>13, <1>14, <1>15 DEF EndsInv

(* Message m is the next to leave wire v of end p, and t is left behind it. *)
Leaves(V, p, v, m, t) == v = V.wire[p] /\ v # <<>> /\ m = Head(v) /\ t = Tail(v)

(* What that tells of channel id at the other end e, when m is not its OPEN. *)
Left(V, id, e, p, v, m, t) ==
  /\ V.known
  /\ m \in Message /\ t \in Seq(Message) /\ Tidy(t, id)
  /\ ~Has(v, "OPEN", id) /\ ~Has(V.wire[e], "OPEN", id)
  /\ ~Tracked(V, e) => Gone(V, id, e, p)
  /\ Has(v, m.msg, id)
  /\ m.msg \in {"EOF", "CLOSE"} => ~Has(t, "DATA", id) /\ ~Has(t, m.msg, id)
  /\ \A kind : Has(v, kind, id) <=> Has(t, kind, id) \/ m.msg = kind

(* What the arrival of a message other than OPEN at e tells of its channel. *)
LEMMA HeadFacts ==
  ASSUME NEW id, NEW e \in Endpoint, NEW p \in Endpoint, NEW V \in View,
         EndsInv(V, id, e, p), EndsInv(V, id, p, e),
         NEW v, NEW m, NEW t, Leaves(V, p, v, m, t), m.id = id, m.msg # "OPEN"
  PROVE  Left(V, id, e, p, v, m, t)
<1>0. v = V.wire[p] /\ v # <<>> /\ m = Head(v) /\ t = Tail(v)
  BY DEF Leaves
<1>1. v \in Seq(Message) /\ v # <<>> /\ Tidy(v, id)
  BY <1>0 DEF View, EndsInv
<1>2. m \in Message /\ t \in Seq(Message) /\ m.msg \in MsgKind
  BY <1>0, <1>1, HeadTailFacts DEF Message
<1>3. /\ Tidy(t, id) /\ ~Has(t, "OPEN", id)
      /\ m.msg \in {"EOF", "CLOSE"} => ~Has(t, "DATA", id) /\ ~Has(t, m.msg, id)
  BY <1>0, <1>1, <1>2, TailTidy
<1>4. \A kind : Has(v, kind, id) <=> Has(t, kind, id) \/ m.msg = kind
  BY <1>0, <1>1, <1>2, TailHas
<1>5. ~Has(v, "OPEN", id)
  BY <1>3, <1>4
<1>6. ~Quiet(v, id)
  BY <1>2, <1>4 DEF Quiet
<1>7. V.known /\ ~Has(V.wire[e], "OPEN", id)
  BY <1>0, <1>6 DEF EndsInv, KnownInv, OpenInv, Fresh
<1>8. ~Tracked(V, e) => Gone(V, id, e, p)
  BY <1>0, <1>5, <1>7 DEF Gone
<1> QED
  BY <1>2, <1>3, <1>4, <1>5, <1>7, <1>8 DEF Left

(* Telling an event. *)
LEMMA AppendHeard ==
  ASSUME NEW V \in View, NEW V2 \in View, NEW e \in Endpoint, NEW event, NEW new,
         V2.told[e] = Append(V.told[e], new)
  PROVE  Heard(V2, e, event) <=> Heard(V, e, event) \/ event = new
<1> DEFINE a == V.told[e]
           b == V2.told[e]
<1>1. a \in Seq({"REMOTE_EOF", "CLOSED"}) /\ Len(a) \in Nat /\ Len(b) \in Nat
  BY LenProperties DEF View
<1>2. /\ Len(b) = Len(a) + 1 /\ b[Len(a) + 1] = new
      /\ \A k \in 1 .. Len(a) : b[k] = a[k]
  BY <1>1
<1> HIDE DEF a, b
<1>3. ASSUME NEW k \in 1 .. Len(b), b[k] = event
      PROVE  event = new \/ \E j \in 1 .. Len(a) : a[j] = event
  BY <1>1, <1>2, <1>3
<1>4. ASSUME NEW k \in 1 .. Len(a), a[k] = event
      PROVE  \E j \in 1 .. Len(b) : b[j] = event
  BY <1>1, <1>2, <1>4
<1>5. event = new => \E j \in 1 .. Len(b) : b[j] = event
  BY <1>1, <1>2
<1> QED
  BY <1>3, <1>4, <1>5 DEF Heard, a, b

(* e takes a seal, a grant, or a message of a channel it does not track. *)
LEMMA TakeStep ==
  ASSUME NEW id, NEW e \in Endpoint, NEW p \in Endpoint, p # e,
         NEW V \in View, NEW V2 \in View, EndsInv(V, id, e, p), EndsInv(V, id, p, e),
         NEW m, m = Head(V.wire[p]), V.wire[p] # <<>>, m.id = id, m.msg # "OPEN",
         V2.wire[p] = Tail(V.wire[p]), V2.wire[e] = V.wire[e],
         V2.known = V.known, V2.chan[p] = V.chan[p], V2.told[p] = V.told[p],
         V2.accepted = V.accepted, V2.delivered = V.delivered, V2.closed = V.closed,
         Tracked(V2, e) <=> Tracked(V, e),
         EndInv(V2, id, e),
         V2.chan[e].inbuf = V.chan[e].inbuf,
         V2.chan[e].outbuf_off = V.chan[e].outbuf_off,
         V2.chan[e].eof_sent = V.chan[e].eof_sent,
         V2.chan[e].close_sent = V.chan[e].close_sent,
         V2.chan[e].close_requested = V.chan[e].close_requested,
         IF Tracked(V, e) /\ m.msg = "CLOSE"
           THEN V.chan[e].close_sent /\ V2.told[e] = Append(V.told[e], "CLOSED")
         ELSE IF Tracked(V, e) /\ m.msg = "EOF"
           THEN /\ V2.told[e] = Append(V.told[e], "REMOTE_EOF")
                /\ V2.chan[e].close_rcvd = V.chan[e].close_rcvd
           ELSE /\ V2.told[e] = V.told[e]
                /\ V2.chan[e].close_rcvd = V.chan[e].close_rcvd,
         Tracked(V, e) => m.msg # "DATA"
  PROVE  EndsInv(V2, id, e, p) /\ EndsInv(V2, id, p, e)
<1> DEFINE v == V.wire[p]
           v2 == V2.wire[p]
<1>1. /\ V.known
      /\ m \in Message /\ v2 \in Seq(Message) /\ Tidy(v2, id)
      /\ ~Has(v, "OPEN", id) /\ ~Has(V.wire[e], "OPEN", id)
      /\ ~Tracked(V, e) => Gone(V, id, e, p)
      /\ Has(v, m.msg, id)
      /\ m.msg \in {"EOF", "CLOSE"} => ~Has(v2, "DATA", id) /\ ~Has(v2, m.msg, id)
      /\ \A kind : Has(v, kind, id) <=> Has(v2, kind, id) \/ m.msg = kind
  <2>1. Leaves(V, p, v, m, v2)
    BY DEF Leaves
  <2>2. Left(V, id, e, p, v, m, v2)
    BY <2>1, HeadFacts
  <2> QED
    BY <2>2 DEF Left
<1> HIDE DEF v, v2
<1>2. /\ \A event : Heard(V2, p, event) <=> Heard(V, p, event)
      /\ \A event : Heard(V2, e, event) <=>
           \/ Heard(V, e, event)
           \/ Tracked(V, e) /\ m.msg = "CLOSE" /\ event = "CLOSED"
           \/ Tracked(V, e) /\ m.msg = "EOF" /\ event = "REMOTE_EOF"
  <2>1. \A event : Heard(V2, p, event) <=> Heard(V, p, event)
    BY DEF Heard
  <2>2. V2.told[e] = V.told[e] => \A event : Heard(V2, e, event) <=> Heard(V, e, event)
    BY DEF Heard
  <2>3. \A new : V2.told[e] = Append(V.told[e], new) =>
          \A event : Heard(V2, e, event) <=> Heard(V, e, event) \/ event = new
    BY ZenonT(40), AppendHeard
  <2> QED
    BY <2>1, <2>2, <2>3
<1>3. /\ Reached(V2, e) = Reached(V, e) /\ Reached(V2, p) = Reached(V, p)
      /\ Tracked(V2, p) <=> Tracked(V, p)
      /\ SomeoneClosed(V2) <=> SomeoneClosed(V)
      /\ Gone(V2, id, p, e) <=> Gone(V, id, p, e)
      /\ Gone(V, id, e, p) => Gone(V2, id, e, p)
  <2>1. (SomeoneClosed(V2) <=> SomeoneClosed(V)) /\ (Tracked(V2, p) <=> Tracked(V, p))
    BY DEF SomeoneClosed, Tracked
  <2>2. Reached(V2, e) = Reached(V, e) /\ Reached(V2, p) = Reached(V, p)
    BY DEF Reached
  <2> QED
    BY <1>1, <2>1, <2>2 DEF Gone, v, v2
<1>4. KnownInv(V2, id, e) /\ KnownInv(V2, id, p)
  BY <1>1 DEF KnownInv
<1>5. OpenInv(V2, id, e, p) /\ OpenInv(V2, id, p, e)
  BY <1>1 DEF OpenInv, v, v2
<1>6. EndInv(V2, id, p)
  BY <1>2, <1>3 DEF EndsInv, EndInv
<1>7. EofInv(V2, id, e, p)
  BY <1>1, <1>2, <1>3 DEF EndsInv, EofInv, v, v2
<1>8. EofInv(V2, id, p, e)
  BY <1>2, <1>3 DEF EndsInv, EofInv
<1>9. CloseInv(V2, id, e, p)
  BY <1>1, <1>2, <1>3 DEF EndsInv, CloseInv, v, v2
<1>10. CloseInv(V2, id, p, e)
  BY <1>2, <1>3 DEF EndsInv, CloseInv
<1>11. Tidy(V2.wire[e], id) /\ Tidy(V2.wire[p], id)
  BY <1>1 DEF EndsInv, v2
<1>12. StreamInv(V2, id, e, p)
  <2>1. CASE Gone(V, id, e, p)
    BY <1>3, <2>1 DEF EndsInv, StreamInv
  <2>2. CASE ~Gone(V, id, e, p)
    <3>1. PICK b \in Nat :
            /\ b <= V.accepted[p]
            /\ Chain(v, id, Len(Reached(V, e)), b)
            /\ (Tracked(V, p) /\ ~V.chan[p].close_requested) => b = V.chan[p].outbuf_off
            /\ Has(v, "EOF", id) => SomeoneClosed(V) \/ b = V.accepted[p]
      BY <2>2 DEF EndsInv, StreamInv, v
    <3>2. Len(Reached(V, e)) \in Nat /\ v \in Seq(Message)
      BY ConcatProperties, LenProperties DEF View, Channel, Reached, v
    <3>3. PICK a2 \in Nat : Carries(m, id, Len(Reached(V, e)), a2) /\ Chain(v2, id, a2, b)
      BY <3>1, <3>2, TailChain DEF v, v2
    <3>4. a2 = Len(Reached(V, e))
      BY <1>1, <2>2, <3>3 DEF Carries
    <3> QED
      BY <1>1, <1>3, <3>1, <3>3, <3>4 DEF EndsInv, StreamInv, v2
  <2> QED
    BY <2>1, <2>2
<1>13. StreamInv(V2, id, p, e)
  BY <1>3 DEF EndsInv, StreamInv
<1>14. ReasonInv(V2, id, e, p)
  BY <1>1, <1>3 DEF EndsInv, ReasonInv, v, v2
<1>15. ReasonInv(V2, id, p, e)
  BY <1>3 DEF EndsInv, ReasonInv
<1>16. OrphanInv(V2, id, e, p)
  BY <1>1, <1>2, <1>3 DEF EndsInv, OrphanInv, EndInv, v, v2
<1>17. OrphanInv(V2, id, p, e)
  BY <1>1, <1>3 DEF EndsInv, OrphanInv, v, v2
<1> QED
  BY <1>4, <1>5, <1>6, <1>7, <1>8, <1>9, <1>10, <1>11, <1>12, <1>13, <1>14, <1>15,
     <1>16, <1>17 DEF EndsInv

(* Bytes 1 to Len(s) and those that follow make bytes 1 to y. *)
LEMMA Extend ==
  ASSUME NEW s \in Seq(Nat), NEW d \in Seq(Nat), NEW y \in Nat, y > Len(s),
         s = [k \in 1 .. Len(s) |-> k], d = [j \in 1 .. (y - Len(s)) |-> Len(s) + j]
  PROVE  Len(s \o d) = y /\ s \o d = [k \in 1 .. y |-> k]
<1>1. Len(s) \in Nat /\ y - Len(s) \in Nat
  BY LenProperties
<1>2. Len(d) = y - Len(s)
  BY <1>1
<1>3. /\ s \o d \in Seq(Nat) /\ Len(s \o d) = y
      /\ \A k \in 1 .. y : (s \o d)[k] = IF k <= Len(s) THEN s[k] ELSE d[k - Len(s)]
  BY <1>1, <1>2, ConcatProperties
<1>4. \A k \in 1 .. y : (s \o d)[k] = k
  <2> SUFFICES ASSUME NEW k \in 1 .. y PROVE (s \o d)[k] = k
    OBVIOUS
  <2>1. CASE k <= Len(s)
    <3>1. k \in 1 .. Len(s)
      BY <1>1, <2>1
    <3> QED
      BY <1>3, <2>1, <3>1
  <2>2. CASE ~(k <= Len(s))
    <3>1. k - Len(s) \in 1 .. (y - Len(s)) /\ Len(s) + (k - Len(s)) = k
      BY <1>1, <2>2
    <3> QED
      BY <1>3, <2>2, <3>1
  <2> QED
    BY <2>1, <2>2
<1>5. s \o d = [k \in 1 .. Len(s \o d) |-> (s \o d)[k]]
  BY <1>3
<1> QED
  BY <1>3, <1>4, <1>5

(* DATA message m carries the next bytes of the stream: e goes on to byte y, *)
(* and the wire then to byte b.                                              *)
DataFound(V, id, e, p, v, m, t) ==
  /\ ~Heard(V, e, "REMOTE_EOF") /\ ~Heard(V, e, "CLOSED")
  /\ \E y \in Nat, b \in Nat :
       /\ y > Len(Reached(V, e)) /\ y <= b /\ b <= V.accepted[p]
       /\ Reached(V, e) \o m.data = [k \in 1 .. y |-> k]
       /\ Len(Reached(V, e) \o m.data) = y
       /\ Chain(t, id, y, b)
       /\ (Tracked(V, p) /\ ~V.chan[p].close_requested) => b = V.chan[p].outbuf_off
       /\ Has(v, "EOF", id) => SomeoneClosed(V) \/ b = V.accepted[p]

(* What e may rely on when DATA of a channel it tracks arrives. *)
LEMMA DataFacts ==
  ASSUME NEW id, NEW e \in Endpoint, NEW p \in Endpoint, NEW V \in View,
         EndsInv(V, id, e, p), EndsInv(V, id, p, e),
         NEW v, NEW m, NEW t, Leaves(V, p, v, m, t), m.id = id, m.msg = "DATA",
         Tracked(V, e)
  PROVE  DataFound(V, id, e, p, v, m, t)
<1>1. v = V.wire[p] /\ v # <<>> /\ m = Head(v) /\ t = Tail(v) /\ v \in Seq(Message)
  BY DEF Leaves, View
<1>2. Left(V, id, e, p, v, m, t)
  BY HeadFacts
<1>3. ~Heard(V, e, "REMOTE_EOF") /\ ~Heard(V, e, "CLOSED")
  BY <1>1, <1>2 DEF Left, EndsInv, EofInv, CloseInv
<1>4. ~Gone(V, id, e, p)
  BY DEF Gone
<1>5. PICK b \in Nat :
        /\ b <= V.accepted[p]
        /\ Chain(v, id, Len(Reached(V, e)), b)
        /\ (Tracked(V, p) /\ ~V.chan[p].close_requested) => b = V.chan[p].outbuf_off
        /\ Has(v, "EOF", id) => SomeoneClosed(V) \/ b = V.accepted[p]
  BY <1>1, <1>4 DEF EndsInv, StreamInv
<1>6. Reached(V, e) \in Seq(Nat) /\ Len(Reached(V, e)) \in Nat
  BY ConcatProperties, LenProperties DEF View, Channel, Reached
<1>7. PICK y \in Nat : y <= b /\ Carries(m, id, Len(Reached(V, e)), y) /\ Chain(t, id, y, b)
  BY <1>1, <1>5, <1>6, TailChain
<1>8. y > Len(Reached(V, e)) /\ m.data = [j \in 1 .. (y - Len(Reached(V, e))) |->
                                             Len(Reached(V, e)) + j]
  BY <1>7 DEF Carries
<1>9. m.data \in Seq(Nat)
  BY <1>2 DEF Left, Message
<1>10. Reached(V, e) = [k \in 1 .. Len(Reached(V, e)) |-> k]
  BY DEF EndsInv, StreamInv
<1>11. Len(Reached(V, e) \o m.data) = y /\ Reached(V, e) \o m.data = [k \in 1 .. y |-> k]
  BY <1>6, <1>8, <1>9, <1>10, Extend
<1> QED
  BY <1>3, <1>5, <1>7, <1>8, <1>11 DEF DataFound

(* e takes DATA of a channel it tracks. *)
LEMMA TakeDataStep ==
  ASSUME NEW id, NEW e \in Endpoint, NEW p \in Endpoint, p # e,
         NEW V \in View, NEW V2 \in View, EndsInv(V, id, e, p), EndsInv(V, id, p, e),
         NEW m, m = Head(V.wire[p]), V.wire[p] # <<>>, m.id = id, m.msg = "DATA",
         V2.wire[p] = Tail(V.wire[p]), V2.wire[e] = V.wire[e],
         V2.known = V.known, V2.chan[p] = V.chan[p], V2.told = V.told,
         V2.accepted = V.accepted, V2.delivered[p] = V.delivered[p], V2.closed = V.closed,
         Tracked(V, e), Tracked(V2, e), EndInv(V2, id, e),
         Reached(V2, e) = Reached(V, e) \o m.data,
         V2.chan[e].outbuf_off = V.chan[e].outbuf_off,
         V2.chan[e].eof_sent = V.chan[e].eof_sent,
         V2.chan[e].close_sent = V.chan[e].close_sent,
         V2.chan[e].close_rcvd = V.chan[e].close_rcvd,
         V2.chan[e].close_requested = V.chan[e].close_requested
  PROVE  EndsInv(V2, id, e, p) /\ EndsInv(V2, id, p, e)
<1> DEFINE v == V.wire[p]
           v2 == V2.wire[p]
<1>0. Leaves(V, p, v, m, v2)
  BY DEF Leaves
<1>a. Left(V, id, e, p, v, m, v2)
  BY <1>0, HeadFacts
<1>1. /\ V.known /\ Tidy(v2, id)
      /\ ~Has(v, "OPEN", id) /\ ~Has(V.wire[e], "OPEN", id)
      /\ \A kind : Has(v, kind, id) <=> Has(v2, kind, id) \/ m.msg = kind
  BY <1>a DEF Left
<1>2. DataFound(V, id, e, p, v, m, v2)
  BY <1>0, DataFacts
<1> HIDE DEF v, v2
<1>3. /\ \A f \in {e, p} : \A event : Heard(V2, f, event) <=> Heard(V, f, event)
      /\ Reached(V2, p) = Reached(V, p)
      /\ Tracked(V2, p) <=> Tracked(V, p)
      /\ SomeoneClosed(V2) <=> SomeoneClosed(V)
  <2>1. \A f \in {e, p} : \A event : Heard(V2, f, event) <=> Heard(V, f, event)
    BY DEF Heard
  <2>2. SomeoneClosed(V2) <=> SomeoneClosed(V)
    BY DEF SomeoneClosed
  <2>3. Reached(V2, p) = Reached(V, p) /\ (Tracked(V2, p) <=> Tracked(V, p))
    BY DEF Reached, Tracked
  <2> QED
    BY <2>1, <2>2, <2>3
<1>4. KnownInv(V2, id, e) /\ KnownInv(V2, id, p)
  BY <1>1 DEF KnownInv
<1>5. OpenInv(V2, id, e, p) /\ OpenInv(V2, id, p, e)
  BY <1>1 DEF OpenInv, v, v2
<1>6. EndInv(V2, id, p)
  BY <1>3 DEF EndsInv, EndInv
<1>7. EofInv(V2, id, e, p) /\ CloseInv(V2, id, e, p)
  BY <1>1, <1>2, <1>3 DEF DataFound, EndsInv, EofInv, CloseInv, v, v2
<1>8. EofInv(V2, id, p, e) /\ CloseInv(V2, id, p, e)
  BY <1>3 DEF EndsInv, EofInv, CloseInv
<1>9. Tidy(V2.wire[e], id) /\ Tidy(V2.wire[p], id)
  BY <1>1 DEF EndsInv, v2
<1>10. StreamInv(V2, id, e, p)
  <2>1. PICK y \in Nat, b \in Nat :
              /\ y > Len(Reached(V, e)) /\ y <= b /\ b <= V.accepted[p]
              /\ Reached(V, e) \o m.data = [k \in 1 .. y |-> k]
              /\ Len(Reached(V, e) \o m.data) = y
              /\ Chain(v2, id, y, b)
              /\ (Tracked(V, p) /\ ~V.chan[p].close_requested) => b = V.chan[p].outbuf_off
              /\ Has(v, "EOF", id) => SomeoneClosed(V) \/ b = V.accepted[p]
    BY <1>2 DEF DataFound
  <2>2. Has(v2, "EOF", id) => Has(v, "EOF", id)
    BY <1>1
  <2> QED
    BY <1>3, <2>1, <2>2, ZenonT(20) DEF StreamInv, v2
<1>11. StreamInv(V2, id, p, e)
  <2>1. Gone(V, id, p, e) => Gone(V2, id, p, e)
    BY <1>3 DEF Gone
  <2> QED
    BY <1>3, <2>1 DEF EndsInv, StreamInv
<1>12. ReasonInv(V2, id, e, p) /\ ReasonInv(V2, id, p, e)
  BY <1>1, <1>3 DEF EndsInv, ReasonInv, Gone, v, v2
<1>13. OrphanInv(V2, id, e, p) /\ OrphanInv(V2, id, p, e)
  BY <1>1, <1>3 DEF EndsInv, OrphanInv, v, v2
<1> QED
  BY <1>4, <1>5, <1>6, <1>7, <1>8, <1>9, <1>10, <1>11, <1>12, <1>13 DEF EndsInv

(* A slot just opened or accepted. *)
NewSlot(c) ==
  /\ c.in_use /\ c.inbuf = <<>>
  /\ c.written = 0 /\ c.flush_mark = 0 /\ c.outbuf_off = 0
  /\ ~c.eof_requested /\ ~c.eof_sent /\ ~c.close_requested /\ ~c.close_sent
  /\ ~c.close_rcvd /\ ~c.remote_eof

(* An end with no trace of the channel. *)
LEMMA FreshFacts ==
  ASSUME NEW id, NEW e \in Endpoint, NEW V \in View, Fresh(V, id, e)
  PROVE  /\ ~Tracked(V, e) /\ Reached(V, e) = <<>>
         /\ \A event : ~Heard(V, e, event)
         /\ \A kind \in MsgKind : ~Has(V.wire[e], kind, id)
<1>1. ~Tracked(V, e)
  BY DEF Fresh, Tracked, FreeChannel
<1>2. Reached(V, e) = <<>>
  BY EmptySeq, ConcatEmptySeq DEF Fresh, Reached, FreeChannel
<1>3. \A event : ~Heard(V, e, event)
  BY DEF Fresh, Heard
<1> QED
  BY <1>1, <1>2, <1>3 DEF Fresh, Quiet

(* A fresh end gets a new slot. *)
LEMMA NewSlotFacts ==
  ASSUME NEW id, NEW e \in Endpoint, NEW V \in View, NEW V2 \in View, Fresh(V, id, e),
         NewSlot(V2.chan[e]), V2.accepted[e] = V.accepted[e],
         V2.delivered[e] = V.delivered[e], V2.told[e] = V.told[e],
         V2.closed[e] = V.closed[e]
  PROVE  /\ Tracked(V2, e) /\ EndInv(V2, id, e) /\ Reached(V2, e) = <<>>
         /\ \A event : ~Heard(V2, e, event)
<1>1. \A event : ~Heard(V2, e, event)
  BY DEF Fresh, Heard
<1>2. Reached(V2, e) = <<>>
  BY EmptySeq, ConcatEmptySeq DEF Fresh, Reached, NewSlot
<1> QED
  BY <1>1, <1>2 DEF NewSlot, Tracked, EndInv, Fresh

(* open_channel takes a new id and ships its OPEN. *)
LEMMA OpenStep ==
  ASSUME NEW id, NEW e \in Endpoint, NEW p \in Endpoint, p # e,
         NEW V \in View, NEW V2 \in View, EndsInv(V, id, e, p), EndsInv(V, id, p, e),
         NEW m \in Message, m.id = id, m.msg = "OPEN", id \in OwnId(e),
         ~V.known, V2.known, NewSlot(V2.chan[e]), V2.chan[p] = V.chan[p],
         V2.wire[e] = Append(V.wire[e], m), V2.wire[p] = V.wire[p], V2.told = V.told,
         V2.accepted = V.accepted, V2.delivered = V.delivered, V2.closed = V.closed
  PROVE  EndsInv(V2, id, e, p) /\ EndsInv(V2, id, p, e)
<1> DEFINE w == V.wire[e]
           w2 == V2.wire[e]
<1>1. Fresh(V, id, e) /\ Fresh(V, id, p)
  BY DEF EndsInv, KnownInv
<1>2. w \in Seq(Message) /\ \A kind : Has(w2, kind, id) <=> Has(w, kind, id) \/ m.msg = kind
  BY AppendHas DEF View
<1>3. /\ ~Tracked(V, p) /\ Reached(V, p) = <<>> /\ Reached(V, e) = <<>>
      /\ \A event : ~Heard(V, p, event)
      /\ \A kind \in MsgKind : ~Has(V.wire[p], kind, id) /\ ~Has(w, kind, id)
  BY <1>1, FreshFacts
<1>4. /\ Tracked(V2, e) /\ EndInv(V2, id, e) /\ Reached(V2, e) = <<>>
      /\ \A event : ~Heard(V2, e, event)
  BY <1>1, NewSlotFacts
<1>5. ~Tracked(V2, p) /\ Reached(V2, p) = <<>> /\ Fresh(V2, id, p)
  BY <1>1, <1>3 DEF Tracked, Reached, Fresh
<1>6. \A event : ~Heard(V2, p, event)
  BY <1>3 DEF Heard
<1> HIDE DEF w, w2
<1>7. KnownInv(V2, id, e) /\ KnownInv(V2, id, p)
  BY DEF KnownInv
<1>8. OpenInv(V2, id, e, p)
  BY <1>1, <1>4, <1>5 DEF OpenInv, Fresh, NewSlot
<1>9. OpenInv(V2, id, p, e)
  BY <1>3 DEF OpenInv, MsgKind
<1>10. EndInv(V2, id, p)
  BY <1>5 DEF EndInv
<1>11. /\ EofInv(V2, id, e, p) /\ CloseInv(V2, id, e, p)
       /\ EofInv(V2, id, p, e) /\ CloseInv(V2, id, p, e)
  BY <1>2, <1>3, <1>4, <1>6 DEF EofInv, CloseInv, MsgKind, w, w2
<1>12. Tidy(w2, id)
  BY <1>2, <1>3, AppendTidy DEF EndsInv, Quiet, w, w2
<1>13. Tidy(V2.wire[p], id)
  BY DEF EndsInv
<1>14. /\ <<>> = [k \in 1 .. 0 |-> k] /\ Len(<<>>) = 0
  BY EmptySeq
<1>15. StreamInv(V2, id, e, p)
  <2>1. PICK b \in Nat : b <= V.accepted[p] /\ Chain(V.wire[p], id, 0, b)
    BY <1>3, <1>14 DEF EndsInv, StreamInv, Gone
  <2> QED
    BY <1>3, <1>4, <1>5, <1>14, <2>1 DEF StreamInv, MsgKind
<1>16. StreamInv(V2, id, p, e)
  <2>1. PICK b \in Nat : b <= V.accepted[e] /\ Chain(w, id, 0, b)
    BY <1>3, <1>14 DEF EndsInv, StreamInv, Gone, w
  <2>2. b = 0
    BY <1>1, <2>1 DEF Fresh
  <2>3. Carries(m, id, 0, 0)
    BY DEF Carries
  <2>4. Chain(w2, id, 0, 0)
    BY <1>2, <2>1, <2>2, <2>3, AppendChain DEF w, w2
  <2>5. ~Has(w2, "EOF", id)
    BY <1>2, <1>3 DEF MsgKind
  <2> QED
    BY <1>1, <1>5, <1>14, <2>4, <2>5 DEF StreamInv, NewSlot, Fresh, w2
<1>17. ReasonInv(V2, id, e, p) /\ ReasonInv(V2, id, p, e)
  BY <1>2, <1>3, <1>5 DEF ReasonInv, NewSlot, MsgKind, w, w2
<1>18. OrphanInv(V2, id, e, p) /\ OrphanInv(V2, id, p, e)
  BY <1>2, <1>5 DEF OrphanInv, w, w2
<1> QED
  BY <1>4, <1>7, <1>8, <1>9, <1>10, <1>11, <1>12, <1>13, <1>15, <1>16, <1>17, <1>18
  DEF EndsInv, w2

(* What the arrival of an OPEN at e tells of its channel. *)
OpenFound(V, id, e, p, v, t) ==
  /\ V.known
  /\ t \in Seq(Message) /\ Tidy(t, id)
  /\ \A kind : Has(v, kind, id) <=> Has(t, kind, id) \/ kind = "OPEN"
  /\ ~Has(t, "OPEN", id)
  /\ Fresh(V, id, e) /\ Tracked(V, p) /\ id \in OwnId(p) /\ V.told[p] = <<>>
  /\ V.chan[p].close_sent => Has(t, "CLOSE", id)
  /\ \E b \in Nat :
       /\ b <= V.accepted[p]
       /\ Chain(t, id, 0, b)
       /\ ~V.chan[p].close_requested => b = V.chan[p].outbuf_off
       /\ Has(t, "EOF", id) => SomeoneClosed(V) \/ b = V.accepted[p]

LEMMA OpenFacts ==
  ASSUME NEW id, NEW e \in Endpoint, NEW p \in Endpoint, NEW V \in View,
         EndsInv(V, id, e, p), EndsInv(V, id, p, e),
         NEW v, NEW m, NEW t, Leaves(V, p, v, m, t), m.id = id, m.msg = "OPEN"
  PROVE  OpenFound(V, id, e, p, v, t)
<1>1. v = V.wire[p] /\ v # <<>> /\ m = Head(v) /\ t = Tail(v) /\ v \in Seq(Message)
  BY DEF Leaves, View
<1>2. Tidy(v, id)
  BY <1>1 DEF EndsInv
<1>3. t \in Seq(Message) /\ Tidy(t, id) /\ ~Has(t, "OPEN", id)
  BY <1>1, <1>2, HeadTailFacts, TailTidy
<1>4. \A kind : Has(v, kind, id) <=> Has(t, kind, id) \/ kind = "OPEN"
  BY <1>1, TailHas
<1>5. Has(v, "OPEN", id)
  BY <1>4
<1>6. /\ Fresh(V, id, e) /\ Tracked(V, p) /\ id \in OwnId(p) /\ V.told[p] = <<>>
      /\ V.chan[p].close_sent => Has(v, "CLOSE", id)
  BY <1>1, <1>5 DEF EndsInv, OpenInv
<1>7. V.known
  BY <1>1, <1>5 DEF EndsInv, KnownInv, Fresh, Quiet, MsgKind
<1>8. ~Gone(V, id, e, p) /\ Len(Reached(V, e)) = 0
  <2>1. ~Gone(V, id, e, p)
    BY <1>1, <1>5 DEF Gone
  <2>2. Reached(V, e) = <<>>
    BY <1>6, FreshFacts
  <2> QED
    BY <2>1, <2>2, EmptySeq
<1>9. PICK b \in Nat :
        /\ b <= V.accepted[p]
        /\ Chain(v, id, 0, b)
        /\ ~V.chan[p].close_requested => b = V.chan[p].outbuf_off
        /\ Has(v, "EOF", id) => SomeoneClosed(V) \/ b = V.accepted[p]
  BY <1>1, <1>6, <1>8 DEF EndsInv, StreamInv
<1>10. Chain(t, id, 0, b)
  <2>1. PICK a2 \in Nat : Carries(m, id, 0, a2) /\ Chain(t, id, a2, b)
    BY <1>1, <1>9, TailChain
  <2>2. a2 = 0
    BY <2>1 DEF Carries
  <2> QED
    BY <2>1, <2>2
<1> QED
  BY <1>3, <1>4, <1>6, <1>7, <1>9, <1>10 DEF OpenFound

(* The end that was asked accepts the channel. *)
LEMMA AcceptStep ==
  ASSUME NEW id, NEW e \in Endpoint, NEW p \in Endpoint, p # e,
         NEW V \in View, NEW V2 \in View, EndsInv(V, id, e, p), EndsInv(V, id, p, e),
         NEW m, m = Head(V.wire[p]), V.wire[p] # <<>>, m.id = id, m.msg = "OPEN",
         V2.wire[p] = Tail(V.wire[p]), V2.wire[e] = V.wire[e],
         NewSlot(V2.chan[e]), V2.chan[p] = V.chan[p], V2.known = V.known, V2.told = V.told,
         V2.accepted = V.accepted, V2.delivered = V.delivered, V2.closed = V.closed
  PROVE  EndsInv(V2, id, e, p) /\ EndsInv(V2, id, p, e)
<1> DEFINE v == V.wire[p]
           t == V2.wire[p]
<1>1. Leaves(V, p, v, m, t)
  BY DEF Leaves
<1>2. OpenFound(V, id, e, p, v, t)
  BY <1>1, OpenFacts
<1> HIDE DEF v, t
<1>3. /\ V.known /\ Tidy(t, id) /\ ~Has(t, "OPEN", id) /\ Has(v, "OPEN", id)
      /\ \A kind : Has(t, kind, id) => Has(v, kind, id)
      /\ Fresh(V, id, e) /\ Tracked(V, p)
  BY <1>2 DEF OpenFound
<1>4. /\ Tracked(V2, e) /\ EndInv(V2, id, e) /\ Reached(V2, e) = <<>>
      /\ \A event : ~Heard(V2, e, event)
  BY <1>3, NewSlotFacts
<1>5. /\ Reached(V, e) = <<>>
      /\ \A kind \in MsgKind : ~Has(V.wire[e], kind, id)
  BY <1>3, FreshFacts
<1>6. \A event : ~Heard(V2, p, event) /\ ~Heard(V, p, event)
  <2>1. V.told[p] = <<>> /\ V2.told[p] = <<>>
    BY <1>2 DEF OpenFound
  <2> QED
    BY <2>1, EmptySeq DEF Heard
<1>7. Tracked(V2, p) /\ Reached(V2, p) = Reached(V, p)
  BY <1>3 DEF Tracked, Reached
<1>8. SomeoneClosed(V2) <=> SomeoneClosed(V)
  BY DEF SomeoneClosed
<1>9. KnownInv(V2, id, e) /\ KnownInv(V2, id, p)
  BY <1>3 DEF KnownInv
<1>10. OpenInv(V2, id, e, p) /\ OpenInv(V2, id, p, e)
  BY <1>3, <1>5 DEF OpenInv, MsgKind, t
<1>11. EndInv(V2, id, p)
  <2>1. EndInv(V, id, p)
    BY DEF EndsInv
  <2> QED
    BY <1>3, <1>6, <2>1 DEF EndInv
<1>12. /\ EofInv(V2, id, e, p) /\ CloseInv(V2, id, e, p)
  BY <1>3, <1>4, <1>7 DEF EndsInv, EofInv, CloseInv, v, t
<1>13. /\ EofInv(V2, id, p, e) /\ CloseInv(V2, id, p, e)
  BY <1>5, <1>6 DEF EofInv, CloseInv, MsgKind
<1>14. Tidy(V2.wire[e], id) /\ Tidy(V2.wire[p], id)
  BY <1>3 DEF EndsInv, t
<1>15. StreamInv(V2, id, e, p)
  <2>1. Reached(V2, e) = [k \in 1 .. Len(Reached(V2, e)) |-> k] /\ Len(Reached(V2, e)) = 0
    BY <1>4, EmptySeq
  <2> QED
    BY <1>2, <1>8, <2>1 DEF OpenFound, StreamInv, t
<1>16. StreamInv(V2, id, p, e)
  <2>1. CASE Gone(V, id, p, e)
    BY <1>3, <2>1 DEF Gone
  <2>2. CASE ~Gone(V, id, p, e)
    <3>1. PICK b \in Nat : b <= V.accepted[e] /\ Chain(V.wire[e], id, Len(Reached(V, p)), b)
      BY <2>2 DEF EndsInv, StreamInv
    <3>2. b = 0 /\ V2.accepted[e] = 0 /\ V2.chan[e].outbuf_off = 0
      BY <1>3, <3>1 DEF Fresh, NewSlot
    <3> QED
      BY <1>5, <1>7, <3>1, <3>2 DEF EndsInv, StreamInv, MsgKind
  <2> QED
    BY <2>1, <2>2
<1>17. ReasonInv(V2, id, e, p)
  BY <1>3, <1>7, <1>8 DEF EndsInv, ReasonInv, Gone, v, t
<1>18. ReasonInv(V2, id, p, e)
  BY <1>5 DEF ReasonInv, NewSlot, MsgKind
<1>19. OrphanInv(V2, id, e, p)
  BY <1>2, <1>7 DEF OrphanInv, OpenFound, t
<1>20. OrphanInv(V2, id, p, e)
  BY <1>4 DEF OrphanInv, NewSlot
<1> QED
  BY <1>4, <1>9, <1>10, <1>11, <1>12, <1>13, <1>14, <1>15, <1>16, <1>17, <1>18, <1>19, <1>20
  DEF EndsInv

(* The end that was asked refuses the channel. *)
LEMMA RefuseStep ==
  ASSUME NEW id, NEW e \in Endpoint, NEW p \in Endpoint, p # e,
         NEW V \in View, NEW V2 \in View, EndsInv(V, id, e, p), EndsInv(V, id, p, e),
         NEW m, m = Head(V.wire[p]), V.wire[p] # <<>>, m.id = id, m.msg = "OPEN",
         NEW n \in Message, n.id = id, n.msg = "CLOSE",
         V2.wire[p] = Tail(V.wire[p]), V2.wire[e] = Append(V.wire[e], n),
         V2.chan = V.chan, V2.known = V.known, V2.told = V.told,
         V2.accepted = V.accepted, V2.delivered = V.delivered, V2.closed = V.closed
  PROVE  EndsInv(V2, id, e, p) /\ EndsInv(V2, id, p, e)
<1> DEFINE v == V.wire[p]
           t == V2.wire[p]
           w == V.wire[e]
           w2 == V2.wire[e]
<1>1. Leaves(V, p, v, m, t)
  BY DEF Leaves
<1>2. OpenFound(V, id, e, p, v, t)
  BY <1>1, OpenFacts
<1>a. w \in Seq(Message) /\ \A kind : Has(w2, kind, id) <=> Has(w, kind, id) \/ n.msg = kind
  BY AppendHas DEF View
<1> HIDE DEF v, t, w, w2
<1>3. /\ V.known /\ Tidy(t, id) /\ ~Has(t, "OPEN", id) /\ Has(v, "OPEN", id)
      /\ \A kind : Has(t, kind, id) => Has(v, kind, id)
      /\ Fresh(V, id, e) /\ Tracked(V, p) /\ id \in OwnId(p)
  BY <1>2 DEF OpenFound
<1>4. /\ ~Tracked(V, e) /\ \A event : ~Heard(V, e, event)
      /\ \A kind \in MsgKind : ~Has(w, kind, id)
  BY <1>3, FreshFacts DEF w
<1>5. \A kind \in {"OPEN", "DATA", "EOF"} : ~Has(w2, kind, id)
  BY <1>a, <1>4 DEF MsgKind
<1>6. \A event : ~Heard(V2, p, event) /\ ~Heard(V, p, event) /\ ~Heard(V2, e, event)
  <2>1. V.told[p] = <<>> /\ V2.told[p] = <<>> /\ V2.told[e] = <<>>
    BY <1>2, <1>3 DEF OpenFound, Fresh
  <2> QED
    BY <2>1, EmptySeq DEF Heard
<1>7. Tracked(V2, p) /\ ~Tracked(V2, e)
  BY <1>3, <1>4 DEF Tracked
<1>b. Reached(V2, p) = Reached(V, p) /\ Reached(V2, e) = Reached(V, e)
  BY DEF Reached
<1>8. Gone(V2, id, e, p)
  BY <1>3, <1>7 DEF Gone, t
<1>9. KnownInv(V2, id, e) /\ KnownInv(V2, id, p)
  BY <1>3 DEF KnownInv
<1>10. OpenInv(V2, id, e, p) /\ OpenInv(V2, id, p, e)
  BY <1>3, <1>5 DEF OpenInv, t, w2
<1>11. EndInv(V2, id, p) /\ EndInv(V2, id, e)
  <2>1. EndInv(V, id, p)
    BY DEF EndsInv
  <2> QED
    BY <1>3, <1>6, <1>7, <2>1 DEF EndInv
<1>12. EofInv(V2, id, e, p) /\ CloseInv(V2, id, e, p)
  BY <1>3, <1>6, <1>7 DEF EndsInv, EofInv, CloseInv, v, t
<1>13. EofInv(V2, id, p, e) /\ CloseInv(V2, id, p, e)
  BY <1>5, <1>6, <1>7 DEF EofInv, CloseInv, w2
<1>14. Tidy(w2, id) /\ Tidy(t, id)
  BY <1>a, <1>3, <1>4, AppendTidy DEF EndsInv, MsgKind, w, w2
<1>15. StreamInv(V2, id, e, p)
  BY <1>8, <1>b DEF EndsInv, StreamInv
<1>16. StreamInv(V2, id, p, e)
  <2>1. ~Gone(V, id, p, e)
    BY <1>3 DEF Gone
  <2>2. PICK b \in Nat : b <= V.accepted[e] /\ Chain(w, id, Len(Reached(V, p)), b)
    BY <2>1 DEF EndsInv, StreamInv, w
  <2>3. Carries(n, id, b, b)
    BY DEF Carries
  <2>4. Len(Reached(V, p)) \in Nat
    BY ConcatProperties, LenProperties DEF View, Channel, Reached
  <2>5. Chain(w2, id, Len(Reached(V, p)), b)
    BY <1>a, <2>2, <2>3, <2>4, AppendChain DEF w, w2
  <2> QED
    BY <1>5, <1>7, <1>b, <2>2, <2>5 DEF EndsInv, StreamInv, w2
<1>17. ReasonInv(V2, id, e, p) /\ ReasonInv(V2, id, p, e)
  BY <1>3, <1>8 DEF ReasonInv
<1>18. OrphanInv(V2, id, e, p) /\ OrphanInv(V2, id, p, e)
  BY <1>a, <1>7 DEF OrphanInv, w2
<1> QED
  BY <1>9, <1>10, <1>11, <1>12, <1>13, <1>14, <1>15, <1>16, <1>17, <1>18 DEF EndsInv, t, w2

-----------------------------------------------------------------------------
(* The states of the specification, seen as views.                          *)

(* The slot a channel is looked up in. *)
LEMMA ChanLookup ==
  ASSUME UniqueIds, NEW e \in Endpoint, NEW id, NEW s \in Lookup(e, id)
  PROVE  Lookup(e, id) = {s} /\ Chan(e, id) = channels[e][s]
<1>1. Lookup(e, id) = {s}
  BY DEF UniqueIds, Lookup
<1> QED
  BY <1>1 DEF Chan

(* What Chan returns. *)
LEMMA ChanType ==
  ASSUME TypeInv, UniqueIds, NEW e \in Endpoint, NEW id
  PROVE  /\ Chan(e, id) \in Channel
         /\ Chan(e, id).in_use <=> Lookup(e, id) # {}
<1>1. CASE Lookup(e, id) = {}
  <2>1. Chan(e, id) = FreeChannel /\ ~FreeChannel.in_use
    BY <1>1 DEF Chan, FreeChannel
  <2> QED
    BY <1>1, <2>1, FreeChannelType DEF TrackedChannel
<1>2. CASE Lookup(e, id) # {}
  <2>1. PICK s \in Lookup(e, id) : TRUE
    BY <1>2
  <2>2. Chan(e, id) = channels[e][s]
    BY <2>1, ChanLookup
  <2> QED
    BY <1>2, <2>2, LookupFacts, TypeInvUse DEF TrackedChannel
<1> QED
  BY <1>1, <1>2

(* Every channel has a view in every state. *)
HaveViews == \A id \in Id : \E V \in View : IsView(V, id)

LEMMA ViewExists == TypeInv /\ UniqueIds => HaveViews
<1> SUFFICES ASSUME TypeInv, UniqueIds, NEW id \in Id PROVE \E V \in View : IsView(V, id)
  BY DEF HaveViews
<1> DEFINE V == [chan      |-> [e \in Endpoint |-> Chan(e, id)],
                 wire      |-> wire,
                 accepted  |-> [e \in Endpoint |-> accepted[e][id]],
                 delivered |-> [e \in Endpoint |-> delivered[e][id]],
                 told      |-> [e \in Endpoint |-> told[e][id]],
                 closed    |-> [e \in Endpoint |-> id \in closers[e]],
                 known     |-> Allocated(id, next_dynamic_offset)]
<1>1. V.chan \in [Endpoint -> Channel]
  BY ChanType
<1>2. V.wire \in [Endpoint -> Seq(Message)]
  BY TypeInvUse
<1>3. /\ V.accepted \in [Endpoint -> Nat] /\ V.delivered \in [Endpoint -> Seq(Nat)]
      /\ V.told \in [Endpoint -> Seq({"REMOTE_EOF", "CLOSED"})]
  BY TypeInvUse
<1>4. V.closed \in [Endpoint -> BOOLEAN] /\ V.known \in BOOLEAN
  BY DEF Allocated
<1>5. V \in View
  BY <1>1, <1>2, <1>3, <1>4 DEF View
<1> QED
  BY <1>5 DEF IsView

(* The bytes that reached an end, as the view shows them. *)
LEMMA ReachedFacts ==
  ASSUME TypeInv, UniqueIds, NEW e \in Endpoint, NEW id \in Id, NEW V \in View, IsView(V, id)
  PROVE  Reached(V, e) = Arrived(e, id)
<1>1. delivered[e][id] \in Seq(Nat)
  BY TypeInvUse
<1>2. CASE Lookup(e, id) = {}
  <2>1. V.chan[e].inbuf = <<>>
    BY <1>2 DEF IsView, Chan, FreeChannel
  <2> QED
    BY <1>1, <1>2, <2>1, ConcatEmptySeq DEF IsView, Reached, Arrived
<1>3. CASE Lookup(e, id) # {}
  BY <1>3 DEF IsView, Reached, Arrived, Chan
<1> QED
  BY <1>2, <1>3

(* A channel whose slot is left alone is the same one. *)
LEMMA SameChan ==
  ASSUME UniqueIds, NEW f \in Endpoint, NEW j, Lookup(f, j)' = Lookup(f, j),
         \A t \in Lookup(f, j) : channels'[f][t] = channels[f][t]
  PROVE  Chan(f, j)' = Chan(f, j)
<1>1. CASE Lookup(f, j) = {}
  BY <1>1 DEF Chan
<1>2. CASE Lookup(f, j) # {}
  <2>1. PICK t \in Lookup(f, j) : TRUE
    BY <1>2
  <2>2. Lookup(f, j) = {t} /\ Chan(f, j) = channels[f][t]
    BY <2>1, ChanLookup
  <2>3. Lookup(f, j)' = {t}
    BY <2>2
  <2>4. Chan(f, j)' = channels'[f][t]
    BY <2>3 DEF Chan
  <2> QED
    BY <2>1, <2>2, <2>4
<1> QED
  BY <1>1, <1>2

(* Changing or freeing the slot of a channel changes that channel only. *)
LEMMA SetChan ==
  ASSUME TypeInv, UniqueIds, NEW e \in Endpoint, NEW id, NEW s \in Lookup(e, id), NEW c,
         SetChannel(e, s, c), c = FreeChannel \/ (c.in_use /\ c.id = id)
  PROVE  /\ Chan(e, id)' = c
         /\ \A f \in Endpoint : \A j : (f # e \/ j # id) => Chan(f, j)' = Chan(f, j)
<1>1. /\ s \in Slot /\ channels[e][s].in_use /\ channels[e][s].id = id
      /\ Lookup(e, id) = {s}
      /\ channels \in [Endpoint -> [Slot -> TrackedChannel]]
  BY LookupFacts, ChanLookup, TypeInvUse
<1>2. /\ channels'[e][s] = c
      /\ \A t \in Slot \ {s} : channels'[e][t] = channels[e][t]
      /\ \A f \in Endpoint \ {e} : channels'[f] = channels[f]
  BY <1>1 DEF SetChannel
<1>3. CASE c = FreeChannel
  <2>1. Lookup(e, id)' = {}
    BY <1>1, <1>2, <1>3 DEF Lookup, InUse, FreeChannel
  <2>2. \A f \in Endpoint : \A j : (f # e \/ j # id) =>
          /\ Lookup(f, j)' = Lookup(f, j)
          /\ \A t \in Lookup(f, j) : channels'[f][t] = channels[f][t]
    BY <1>1, <1>2, <1>3 DEF Lookup, InUse, FreeChannel
  <2>3. Chan(e, id)' = c
    BY <1>3, <2>1 DEF Chan
  <2> QED
    BY <2>2, <2>3, SameChan
<1>4. CASE c.in_use /\ c.id = id
  <2>1. Lookup(e, id)' = {s}
    BY <1>1, <1>2, <1>4 DEF Lookup, InUse
  <2>2. \A f \in Endpoint : \A j : (f # e \/ j # id) =>
          /\ Lookup(f, j)' = Lookup(f, j)
          /\ \A t \in Lookup(f, j) : channels'[f][t] = channels[f][t]
    BY <1>1, <1>2, <1>4 DEF Lookup, InUse
  <2>3. Chan(e, id)' = c
    BY <1>2, <2>1 DEF Chan
  <2> QED
    BY <2>2, <2>3, SameChan
<1> QED
  BY <1>3, <1>4

(* Putting a channel in a free slot changes that channel only. *)
LEMMA AddChan ==
  ASSUME TypeInv, UniqueIds, NEW e \in Endpoint, NEW id, NEW s \in FreeSlots(e), NEW c,
         Lookup(e, id) = {}, SetChannel(e, s, c), c.in_use /\ c.id = id
  PROVE  /\ Chan(e, id)' = c
         /\ \A f \in Endpoint : \A j : (f # e \/ j # id) => Chan(f, j)' = Chan(f, j)
<1>1. /\ s \in Slot /\ ~channels[e][s].in_use
      /\ channels \in [Endpoint -> [Slot -> TrackedChannel]]
  BY TypeInvUse DEF FreeSlots, InUse
<1>2. /\ channels'[e][s] = c
      /\ \A t \in Slot \ {s} : channels'[e][t] = channels[e][t]
      /\ \A f \in Endpoint \ {e} : channels'[f] = channels[f]
  BY <1>1 DEF SetChannel
<1>3. Lookup(e, id)' = {s}
  BY <1>1, <1>2 DEF Lookup, InUse
<1>4. \A f \in Endpoint : \A j : (f # e \/ j # id) =>
        /\ Lookup(f, j)' = Lookup(f, j)
        /\ \A t \in Lookup(f, j) : channels'[f][t] = channels[f][t]
  BY <1>1, <1>2 DEF Lookup, InUse
<1>5. Chan(e, id)' = c
  BY <1>2, <1>3 DEF Chan
<1> QED
  BY <1>4, <1>5, SameChan

-----------------------------------------------------------------------------
(* An action concerns one channel.                                          *)

(* At most two messages, all of channel id. *)
Ours(msgs, id) ==
  \/ msgs = <<>>
  \/ \E m \in Message : m.id = id /\ msgs = <<m>>
  \/ \E m, n \in Message : m.id = id /\ n.id = id /\ msgs = <<m>> \o <<n>>

(* Nothing changes for the other channels. *)
OnlyChannel(id) ==
  \A j \in Id \ {id} :
    /\ Allocated(j, next_dynamic_offset) => Allocated(j, next_dynamic_offset')
    /\ \A f \in Endpoint :
         /\ Chan(f, j)' = Chan(f, j)
         /\ SameFor(wire[f], wire'[f], j)
         /\ accepted'[f][j] = accepted[f][j]
         /\ delivered'[f][j] = delivered[f][j]
         /\ told'[f][j] = told[f][j]
         /\ j \in closers'[f] <=> j \in closers[f]

(* Two messages are appended one after the other. *)
LEMMA AppendTwo ==
  ASSUME NEW w \in Seq(Message), NEW m \in Message, NEW n \in Message
  PROVE  /\ w \o <<>> = w
         /\ w \o <<m>> = Append(w, m)
         /\ w \o (<<m>> \o <<n>>) = Append(Append(w, m), n)
<1>1. w \o <<>> = w
  BY ConcatEmptySeq
<1>2. \A u \in Seq(Message), k \in Message : u \o <<k>> = Append(u, k)
  BY AppendIsConcat
<1>3. <<m>> \in Seq(Message) /\ <<n>> \in Seq(Message)
  OBVIOUS
<1>4. w \o (<<m>> \o <<n>>) = (w \o <<m>>) \o <<n>>
  BY <1>3, ConcatAssociative
<1>5. Append(w, m) \in Seq(Message)
  OBVIOUS
<1> QED
  BY <1>1, <1>2, <1>4, <1>5

(* Messages of one channel do not show to another. *)
LEMMA OursSame ==
  ASSUME NEW w \in Seq(Message), NEW msgs, NEW id, NEW j, j # id, Ours(msgs, id)
  PROVE  SameFor(w, w \o msgs, j)
<1>1. CASE msgs = <<>>
  BY <1>1, ConcatEmptySeq DEF SameFor
<1>2. ASSUME NEW m \in Message, m.id = id, msgs = <<m>>
      PROVE  SameFor(w, w \o msgs, j)
  BY <1>2, AppendTwo, AppendSame
<1>3. ASSUME NEW m \in Message, NEW n \in Message, m.id = id, n.id = id,
             msgs = <<m>> \o <<n>>
      PROVE  SameFor(w, w \o msgs, j)
  <2>1. Append(w, m) \in Seq(Message)
    OBVIOUS
  <2>2. SameFor(w, Append(w, m), j)
    BY <1>3, AppendSame
  <2>3. SameFor(Append(w, m), Append(Append(w, m), n), j)
    BY <1>3, <2>1, AppendSame
  <2>4. w \o msgs = Append(Append(w, m), n)
    BY <1>3, AppendTwo
  <2> QED
    BY <2>2, <2>3, <2>4 DEF SameFor
<1> QED
  BY <1>1, <1>2, <1>3 DEF Ours

(* Shipping messages of one channel. *)
LEMMA ShipSame ==
  ASSUME TypeInv, NEW e \in Endpoint, NEW msgs, NEW id, Ours(msgs, id), Ship(e, msgs)
  PROVE  \A j \in Id \ {id} : \A f \in Endpoint : SameFor(wire[f], wire'[f], j)
<1>1. \A f \in Endpoint : wire[f] \in Seq(Message)
  BY TypeInvUse
<1>2. wire'[e] = wire[e] \o msgs /\ \A f \in Endpoint \ {e} : wire'[f] = wire[f]
  BY TypeInvUse DEF Ship
<1>3. \A j \in Id \ {id} : SameFor(wire[e], wire'[e], j)
  BY <1>1, <1>2, OursSame
<1>4. \A f \in Endpoint \ {e}, j \in Id : SameFor(wire[f], wire'[f], j)
  BY <1>2 DEF SameFor
<1> QED
  BY <1>3, <1>4

(* Taking a message of one channel and answering with messages of it. *)
LEMMA TakeSame ==
  ASSUME TypeInv, NEW e \in Endpoint, NEW msgs, NEW id, Ours(msgs, id),
         Inbound(e) # <<>>, Head(Inbound(e)).id = id, TakeAndShip(e, msgs)
  PROVE  /\ \A j \in Id \ {id} : \A f \in Endpoint : SameFor(wire[f], wire'[f], j)
         /\ wire'[e] = wire[e] \o msgs
         /\ wire'[Peer(e)] = Tail(wire[Peer(e)])
<1>1. \A f \in Endpoint : wire[f] \in Seq(Message)
  BY TypeInvUse
<1>2. wire'[e] = wire[e] \o msgs /\ wire'[Peer(e)] = Tail(wire[Peer(e)])
  BY TypeInvUse, PeerEndpoint DEF TakeAndShip
<1>3. \A j \in Id \ {id} : SameFor(wire[e], wire'[e], j)
  BY <1>1, <1>2, OursSame
<1>4. \A j \in Id \ {id} : SameFor(wire[Peer(e)], wire'[Peer(e)], j)
  BY <1>1, <1>2, TailSame, PeerEndpoint DEF Inbound
<1>5. \A f \in Endpoint : f = e \/ f = Peer(e)
  BY DEF Endpoint, Peer
<1> QED
  BY <1>2, <1>3, <1>4, <1>5

(* What remains to show of an action that concerns one channel. *)
LEMMA OneChannel ==
  ASSUME TypeInv, UniqueIds, OrderInv, NEW id \in Id, NEW e \in Endpoint, NEW p,
         p = Peer(e), OnlyChannel(id),
         \A V, V2 \in View :
           IsView(V, id) /\ EndsInv(V, id, e, p) /\ EndsInv(V, id, p, e) /\ IsView(V2, id)'
             => EndsInv(V2, id, e, p) /\ EndsInv(V2, id, p, e)
  PROVE  OrderInv'
<1> SUFFICES ASSUME NEW j \in Id, NEW V2 \in View, IsView(V2, j)'
             PROVE  ViewInv(V2, j)
  BY DEF OrderInv
<1>1. PICK V \in View : IsView(V, j)
  BY ViewExists DEF HaveViews
<1>2. ViewInv(V, j)
  BY <1>1 DEF OrderInv
<1>3. CASE j = id
  BY <1>1, <1>2, <1>3, TwoEnds
<1>4. CASE j # id
  <2> SUFFICES ASSUME NEW f \in Endpoint PROVE EndsInv(V2, j, f, Peer(f))
    BY DEF ViewInv
  <2>1. Peer(f) \in Endpoint /\ Peer(f) # f
    BY PeerEndpoint
  <2>2. EndsInv(V, j, f, Peer(f))
    BY <1>2 DEF ViewInv
  <2>3. \A g \in Endpoint : SameFor(V.wire[g], V2.wire[g], j)
    BY <1>1, <1>4 DEF IsView, OnlyChannel
  <2>4. \A g \in Endpoint :
          /\ V2.chan[g] = V.chan[g] /\ V2.accepted[g] = V.accepted[g]
          /\ V2.delivered[g] = V.delivered[g] /\ V2.told[g] = V.told[g]
          /\ V2.closed[g] = V.closed[g]
    <3>1. \A g \in Endpoint : V2.closed[g] \in BOOLEAN /\ V.closed[g] \in BOOLEAN
      BY DEF View
    <3> QED
      BY <1>1, <1>4, <3>1 DEF IsView, OnlyChannel
  <2>5. /\ V2.chan = V.chan /\ V2.accepted = V.accepted /\ V2.delivered = V.delivered
        /\ V2.told = V.told /\ V2.closed = V.closed
    BY <2>4 DEF View
  <2>6. V.known => V2.known
    BY <1>1, <1>4 DEF IsView, OnlyChannel
  <2> QED
    BY <2>1, <2>2, <2>3, <2>5, <2>6, ForeignStep
<1> QED
  BY <1>3, <1>4

-----------------------------------------------------------------------------
(* The actions.                                                             *)

(* The slot a consumer calls on, or the demux finds, is that of one channel. *)
LEMMA SlotFacts ==
  ASSUME TypeInv, UniqueIds, NEW e \in Endpoint, NEW s \in Slot, channels[e][s].in_use
  PROVE  /\ channels[e][s].id \in Id /\ channels[e][s] \in Channel
         /\ s \in Lookup(e, channels[e][s].id)
         /\ Chan(e, channels[e][s].id) = channels[e][s]
<1>1. channels[e][s].id \in Id /\ channels[e][s] \in Channel
  BY TypeInvUse DEF TrackedChannel
<1>2. s \in Lookup(e, channels[e][s].id)
  BY DEF Lookup, InUse
<1> QED
  BY <1>1, <1>2, ChanLookup

(* History h of endpoint e and channel id may change, all others are kept. *)
OthersKeep(h, h2, e, id) == h2 = h \/ \E x : h2 = [h EXCEPT ![e][id] = x]

MayClose(e, id) ==
  closers' = closers \/ closers' = [closers EXCEPT ![e] = @ \union {id}]

LEMMA KeepsOthers ==
  ASSUME NEW h, NEW h2, NEW e, NEW id, NEW x, h2 = h \/ h2 = [h EXCEPT ![e][id] = x]
  PROVE  OthersKeep(h, h2, e, id)
  BY DEF OthersKeep

(* Endpoint e leaves channel id, which it tracks in slot s, as c, and touches *)
(* nothing of another channel and nothing of the other end but its wire.    *)
OwnStep(e, id, s, c) ==
  /\ s \in Lookup(e, id)
  /\ SetChannel(e, s, c)
  /\ c = FreeChannel \/ (c.in_use /\ c.id = id)
  /\ UNCHANGED next_dynamic_offset
  /\ OthersKeep(told, told', e, id)
  /\ OthersKeep(accepted, accepted', e, id)
  /\ OthersKeep(delivered, delivered', e, id)
  /\ MayClose(e, id)
  /\ \A j \in Id \ {id} : \A f \in Endpoint : SameFor(wire[f], wire'[f], j)

(* A consumer call or a scheduler step changes what the end itself holds of *)
(* the channel.                                                             *)
LEMMA OwnEnd ==
  ASSUME TypeInv, UniqueIds, NEW e \in Endpoint, NEW id \in Id, NEW s, NEW c,
         OwnStep(e, id, s, c)
  PROVE  /\ OnlyChannel(id)
         /\ Chan(e, id)' = c
         /\ \A f \in Endpoint \ {e} :
              /\ Chan(f, id)' = Chan(f, id) /\ accepted'[f] = accepted[f]
              /\ delivered'[f] = delivered[f] /\ closers'[f] = closers[f]
              /\ told'[f] = told[f]
<1>0. /\ s \in Lookup(e, id) /\ SetChannel(e, s, c)
      /\ c = FreeChannel \/ (c.in_use /\ c.id = id)
  BY DEF OwnStep
<1>1. /\ Chan(e, id)' = c
      /\ \A f \in Endpoint : \A j : (f # e \/ j # id) => Chan(f, j)' = Chan(f, j)
  BY <1>0, SetChan
<1>a. /\ accepted \in [Endpoint -> [Id -> Nat]]
      /\ delivered \in [Endpoint -> [Id -> Seq(Nat)]]
      /\ closers \in [Endpoint -> SUBSET Id]
      /\ told \in [Endpoint -> [Id -> Seq({"REMOTE_EOF", "CLOSED"})]]
  BY TypeInvUse
<1>2. /\ \A f \in Endpoint \ {e} : accepted'[f] = accepted[f]
      /\ \A j \in Id \ {id} : accepted'[e][j] = accepted[e][j]
  <2>1. CASE accepted' = accepted
    BY <2>1
  <2>2. ASSUME NEW x, accepted' = [accepted EXCEPT ![e][id] = x]
        PROVE  /\ \A f \in Endpoint \ {e} : accepted'[f] = accepted[f]
               /\ \A j \in Id \ {id} : accepted'[e][j] = accepted[e][j]
    BY <1>a, <2>2
  <2> QED
    BY <2>1, <2>2 DEF OthersKeep, OwnStep
<1>b. /\ \A f \in Endpoint \ {e} : delivered'[f] = delivered[f]
      /\ \A j \in Id \ {id} : delivered'[e][j] = delivered[e][j]
  <2>1. CASE delivered' = delivered
    BY <2>1
  <2>2. ASSUME NEW x, delivered' = [delivered EXCEPT ![e][id] = x]
        PROVE  /\ \A f \in Endpoint \ {e} : delivered'[f] = delivered[f]
               /\ \A j \in Id \ {id} : delivered'[e][j] = delivered[e][j]
    BY <1>a, <2>2
  <2> QED
    BY <2>1, <2>2 DEF OthersKeep, OwnStep
<1>c. /\ \A f \in Endpoint \ {e} : closers'[f] = closers[f]
      /\ \A j \in Id \ {id} : j \in closers'[e] <=> j \in closers[e]
  BY <1>a DEF MayClose, OwnStep
<1>d. /\ \A f \in Endpoint \ {e} : told'[f] = told[f]
      /\ \A j \in Id \ {id} : told'[e][j] = told[e][j]
  <2>1. CASE told' = told
    BY <2>1
  <2>2. ASSUME NEW x, told' = [told EXCEPT ![e][id] = x]
        PROVE  /\ \A f \in Endpoint \ {e} : told'[f] = told[f]
               /\ \A j \in Id \ {id} : told'[e][j] = told[e][j]
    BY <1>a, <2>2
  <2> QED
    BY <2>1, <2>2 DEF OthersKeep, OwnStep
<1>3. \A j \in Id \ {id} : \A f \in Endpoint :
        /\ accepted'[f][j] = accepted[f][j] /\ delivered'[f][j] = delivered[f][j]
        /\ j \in closers'[f] <=> j \in closers[f]
        /\ told'[f][j] = told[f][j]
  BY <1>2, <1>b, <1>c, <1>d
<1>4. OnlyChannel(id)
  BY <1>1, <1>3 DEF OnlyChannel, OwnStep
<1> QED
  BY <1>1, <1>2, <1>b, <1>c, <1>d, <1>4

(* What a step looks like in the view of its channel. *)
LEMMA ViewStep ==
  ASSUME NEW id \in Id, NEW e \in Endpoint, NEW V \in View, NEW V2 \in View,
         IsView(V, id), IsView(V2, id)', TypeInv, TypeInv'
  PROVE  /\ V.chan[e] = Chan(e, id) /\ V2.chan[e] = Chan(e, id)'
         /\ V.wire[e] = wire[e] /\ V2.wire[e] = wire'[e]
         /\ V.accepted[e] = accepted[e][id] /\ V2.accepted[e] = accepted'[e][id]
         /\ V.delivered[e] = delivered[e][id] /\ V2.delivered[e] = delivered'[e][id]
         /\ V.told[e] = told[e][id] /\ V2.told[e] = told'[e][id]
         /\ (V.closed[e] <=> id \in closers[e]) /\ (V2.closed[e] <=> id \in closers'[e])
         /\ (V.closed[e] = V2.closed[e]) <=> (id \in closers[e] <=> id \in closers'[e])
         /\ next_dynamic_offset' = next_dynamic_offset => V2.known = V.known
         /\ wire' = wire => V2.wire = V.wire
         /\ told' = told => V2.told = V.told
         /\ accepted' = accepted => V2.accepted = V.accepted
         /\ delivered' = delivered => V2.delivered = V.delivered
         /\ closers' = closers => V2.closed = V.closed
<1>1. \A f \in Endpoint : V.closed[f] \in BOOLEAN /\ V2.closed[f] \in BOOLEAN
  BY DEF View
<1>2. V.known \in BOOLEAN /\ V2.known \in BOOLEAN
  BY DEF View
<1>3. next_dynamic_offset' = next_dynamic_offset => V2.known = V.known
  BY <1>2 DEF IsView
<1>4. told' = told => V2.told = V.told
  BY DEF IsView, View
<1>5. accepted' = accepted => V2.accepted = V.accepted
  BY DEF IsView, View
<1>6. delivered' = delivered => V2.delivered = V.delivered
  BY DEF IsView, View
<1>7. closers' = closers => V2.closed = V.closed
  <2> SUFFICES ASSUME closers' = closers PROVE V2.closed = V.closed
    OBVIOUS
  <2>1. \A f \in Endpoint : V2.closed[f] = V.closed[f]
    BY <1>1 DEF IsView
  <2> QED
    BY <2>1 DEF View
<1> QED
  BY <1>1, <1>3, <1>4, <1>5, <1>6, <1>7 DEF IsView

(* What a step of endpoint e on its slot s looks like in the views of that   *)
(* channel.                                                                 *)
LEMMA StepViews ==
  ASSUME TypeInv, TypeInv', UniqueIds, NEW e \in Endpoint, NEW p, p = Peer(e),
         NEW id \in Id, NEW s, NEW c, OwnStep(e, id, s, c),
         NEW V \in View, NEW V2 \in View, IsView(V, id), IsView(V2, id)'
  PROVE  /\ V.chan[e] = channels[e][s] /\ V2.chan[e] = c /\ V2.chan[p] = V.chan[p]
         /\ V2.known = V.known /\ V.wire = wire /\ V2.wire = wire'
         /\ V2.accepted[p] = V.accepted[p] /\ V2.delivered[p] = V.delivered[p]
         /\ V2.told[p] = V.told[p] /\ V2.closed[p] = V.closed[p]
         /\ V.delivered[e] = delivered[e][id] /\ V2.delivered[e] = delivered'[e][id]
         /\ V.told[e] = told[e][id] /\ V2.told[e] = told'[e][id]
         /\ V.accepted[e] = accepted[e][id] /\ V2.accepted[e] = accepted'[e][id]
         /\ (V.closed[e] <=> id \in closers[e]) /\ (V2.closed[e] <=> id \in closers'[e])
         /\ accepted' = accepted => V2.accepted = V.accepted
         /\ delivered' = delivered => V2.delivered = V.delivered
         /\ closers' = closers => V2.closed = V.closed
         /\ told' = told => V2.told = V.told
<1>1. p \in Endpoint /\ p # e
  BY PeerEndpoint
<1>2. Chan(e, id) = channels[e][s]
  BY ChanLookup DEF OwnStep
<1>3. /\ Chan(e, id)' = c
      /\ Chan(p, id)' = Chan(p, id) /\ accepted'[p] = accepted[p]
      /\ delivered'[p] = delivered[p] /\ closers'[p] = closers[p] /\ told'[p] = told[p]
  BY <1>1, OwnEnd
<1>4. /\ V.chan[e] = channels[e][s] /\ V2.chan[e] = c /\ V2.known = V.known
      /\ V.delivered[e] = delivered[e][id] /\ V2.delivered[e] = delivered'[e][id]
      /\ V.told[e] = told[e][id] /\ V2.told[e] = told'[e][id]
  BY <1>2, <1>3, ViewStep DEF OwnStep
<1>5. /\ V2.chan[p] = V.chan[p] /\ V2.accepted[p] = V.accepted[p]
      /\ V2.delivered[p] = V.delivered[p] /\ V2.told[p] = V.told[p]
      /\ V2.closed[p] = V.closed[p]
  BY <1>1, <1>3, ViewStep
<1>6. /\ accepted' = accepted => V2.accepted = V.accepted
      /\ delivered' = delivered => V2.delivered = V.delivered
      /\ closers' = closers => V2.closed = V.closed
      /\ told' = told => V2.told = V.told
  BY ViewStep
<1>8. /\ V.accepted[e] = accepted[e][id] /\ V2.accepted[e] = accepted'[e][id]
      /\ (V.closed[e] <=> id \in closers[e]) /\ (V2.closed[e] <=> id \in closers'[e])
  BY ViewStep
<1>7. V.wire = wire /\ V2.wire = wire'
  BY DEF IsView
<1> QED
  BY <1>4, <1>5, <1>6, <1>7, <1>8

(* What a slot in use holds, apart from what its consumer was told. *)
SlotInv(c, accepts, closed) ==
  /\ closed => c.close_requested
  /\ c.eof_sent => c.eof_requested
  /\ c.close_sent => c.close_requested
  /\ c.close_rcvd => c.close_sent
  /\ c.outbuf_off <= c.flush_mark
  /\ c.flush_mark <= c.written
  /\ c.written = accepts
  /\ c.eof_requested => c.flush_mark = c.written
  /\ c.close_requested => c.outbuf_off = c.written
  /\ c.eof_sent => c.outbuf_off = c.written
  /\ c.sink = "push" => c.inbuf = <<>>

(* The invariant of one end, split into its slot and what was told. *)
LEMMA EndParts ==
  ASSUME NEW V, NEW id, NEW e
  PROVE  EndInv(V, id, e) <=>
           (Tracked(V, e) =>
              /\ V.chan[e].close_rcvd <=> Heard(V, e, "CLOSED")
              /\ V.chan[e].remote_eof <=> Heard(V, e, "REMOTE_EOF")
              /\ SlotInv(V.chan[e], V.accepted[e], V.closed[e]))
  BY DEF EndInv, SlotInv

(* The invariant of one end after a step that tells its consumer nothing. *)
LEMMA SlotEnd ==
  ASSUME NEW V, NEW V1, NEW id, NEW e, EndInv(V, id, e), Tracked(V, e),
         V1.told[e] = V.told[e], V1.chan[e].close_rcvd = V.chan[e].close_rcvd,
         V1.chan[e].remote_eof = V.chan[e].remote_eof,
         SlotInv(V1.chan[e], V1.accepted[e], V1.closed[e])
  PROVE  EndInv(V1, id, e)
<1>1. \A event : Heard(V1, e, event) <=> Heard(V, e, event)
  BY DEF Heard
<1>2. /\ V.chan[e].close_rcvd <=> Heard(V, e, "CLOSED")
      /\ V.chan[e].remote_eof <=> Heard(V, e, "REMOTE_EOF")
  BY EndParts
<1> QED
  BY <1>1, <1>2, EndParts

(* What holds of every slot in use. *)
LEMMA SlotHolds ==
  ASSUME TypeInv, UniqueIds, OrderInv, NEW e \in Endpoint, NEW s \in Slot,
         channels[e][s].in_use
  PROVE  SlotInv(channels[e][s], accepted[e][channels[e][s].id],
                 channels[e][s].id \in closers[e])
<1> DEFINE c == channels[e][s]
           id == channels[e][s].id
<1>1. id \in Id /\ Chan(e, id) = c
  BY SlotFacts
<1>2. PICK V \in View : IsView(V, id)
  BY <1>1, ViewExists DEF HaveViews
<1>3. EndInv(V, id, e)
  BY <1>1, <1>2 DEF OrderInv, ViewInv, EndsInv
<1>4. V.chan[e] = c /\ V.accepted[e] = accepted[e][id] /\ (V.closed[e] <=> id \in closers[e])
  BY <1>1, <1>2 DEF IsView
<1>5. SlotInv(V.chan[e], V.accepted[e], V.closed[e])
  BY <1>3, <1>4, EndParts DEF Tracked
<1> QED
  BY <1>4, <1>5 DEF SlotInv

(* A consumer call that ships nothing and keeps the slot. *)
LEMMA LocalAction ==
  ASSUME TypeInv, TypeInv', UniqueIds, OrderInv, NEW e \in Endpoint, NEW s \in Slot,
         NEW old, old = channels[e][s], old.in_use, NEW id, id = old.id,
         NEW c, SetChannel(e, s, c), c.in_use, c.id = id,
         UNCHANGED <<next_dynamic_offset, wire, told, delivered>>,
         NEW n \in Nat, n >= accepted[e][id], n # accepted[e][id] => ~old.eof_sent,
         accepted' = [accepted EXCEPT ![e][id] = n],
         MayClose(e, id),
         SlotInv(c, n, id \in closers'[e]),
         c.inbuf = old.inbuf, c.remote_eof = old.remote_eof, c.eof_sent = old.eof_sent,
         c.close_sent = old.close_sent, c.close_rcvd = old.close_rcvd,
         IF c.close_requested THEN old.close_requested \/ id \in closers'[e]
           ELSE ~old.close_requested /\ c.outbuf_off = old.outbuf_off
  PROVE  OrderInv'
<1> DEFINE p == Peer(e)
<1>1. p \in Endpoint /\ p # e /\ p = Peer(e)
  BY PeerEndpoint
<1> HIDE DEF p
<1>2. id \in Id /\ s \in Lookup(e, id) /\ Chan(e, id) = old
  BY SlotFacts
<1>3. \A j \in Id \ {id} : \A f \in Endpoint : SameFor(wire[f], wire'[f], j)
  BY DEF SameFor
<1>a. /\ OthersKeep(told, told', e, id) /\ OthersKeep(accepted, accepted', e, id)
      /\ OthersKeep(delivered, delivered', e, id)
  BY KeepsOthers
<1>4. OwnStep(e, id, s, c)
  BY <1>2, <1>3, <1>a DEF OwnStep
<1>5. /\ accepted'[e][id] = n
      /\ id \in closers[e] => id \in closers'[e]
  BY <1>2, TypeInvUse DEF MayClose
<1>6. ASSUME NEW V \in View, NEW V2 \in View, IsView(V, id), IsView(V2, id)',
             EndsInv(V, id, e, p), EndsInv(V, id, p, e)
      PROVE  EndsInv(V2, id, e, p) /\ EndsInv(V2, id, p, e)
  <2>1. /\ V.chan[e] = old /\ V2.chan[e] = c
        /\ V.accepted[e] = accepted[e][id] /\ V2.accepted[e] = n
        /\ (V.closed[e] <=> id \in closers[e]) /\ (V2.closed[e] <=> id \in closers'[e])
        /\ V2.delivered = V.delivered
        /\ V2.wire = V.wire /\ V2.told = V.told /\ V2.known = V.known
    BY <1>1, <1>2, <1>4, <1>5, <1>6, StepViews
  <2>2. /\ V2.chan[p] = V.chan[p] /\ V2.accepted[p] = V.accepted[p]
        /\ V2.delivered[p] = V.delivered[p] /\ V2.closed[p] = V.closed[p]
    BY <1>1, <1>2, <1>4, <1>6, StepViews
  <2>3. Reached(V2, e) = Reached(V, e)
    BY <2>1 DEF Reached
  <2>4. Tracked(V, e) /\ Tracked(V2, e)
    BY <2>1 DEF Tracked
  <2>5. EndInv(V2, id, e)
    <3>1. EndInv(V, id, e)
      BY <1>6 DEF EndsInv
    <3>2. SlotInv(V2.chan[e], V2.accepted[e], V2.closed[e])
      BY <2>1 DEF SlotInv
    <3> QED
      BY <2>1, <2>4, <3>1, <3>2, SlotEnd
  <2>6. c.close_requested => old.close_requested \/ SomeoneClosed(V2)
    BY <2>1 DEF SomeoneClosed
  <2>7. V.closed[e] => V2.closed[e]
    BY <1>5, <2>1
  <2> QED
    BY ZenonT(40), <1>1, <1>6, <2>1, <2>2, <2>3, <2>4, <2>5, <2>6, <2>7, LocalStep
<1>7. OnlyChannel(id)
  BY <1>2, <1>4, OwnEnd
<1> QED
  BY <1>1, <1>2, <1>6, <1>7, OneChannel

(* The consumer's calls that only fill or seal the send side. *)
LEMMA SealingOrder ==
  ASSUME TypeInv, TypeInv', UniqueIds, OrderInv, NEW e \in Endpoint, NEW s \in Slot,
         Write(e, s) \/ Flush(e, s) \/ SendEof(e, s) \/ Close(e, s)
  PROVE  OrderInv'
<1> DEFINE old == channels[e][s]
           id == old.id
<1>1. old.in_use
  BY DEF Write, Flush, SendEof, Close
<1>2. /\ SlotInv(old, accepted[e][id], id \in closers[e])
      /\ id \in Id /\ old \in Channel
  BY <1>1, SlotHolds, SlotFacts
<1>3. accepted[e][id] \in Nat /\ closers[e] \subseteq Id
  BY <1>2, TypeInvUse
<1>4. /\ accepted = [accepted EXCEPT ![e][id] = accepted[e][id]]
      /\ accepted[e][id] >= accepted[e][id]
  BY <1>2, <1>3, TypeInvUse
<1> HIDE DEF old, id
<1>n. /\ old.written \in Nat /\ old.flush_mark \in Nat /\ old.outbuf_off \in Nat
      /\ old = channels[e][s] /\ id = old.id
  BY <1>2 DEF Channel, old, id
<1>5. CASE Write(e, s)
  <2>1. PICK k \in 1 .. MaxBytes[e] :
          /\ SetChannel(e, s, [old EXCEPT !.written = @ + k])
          /\ accepted' = [accepted EXCEPT ![e][id] = @ + k]
    BY <1>5 DEF Write, old, id
  <2> DEFINE c == [old EXCEPT !.written = @ + k]
             n == accepted[e][id] + k
  <2>2. k \in Nat /\ k > 0
    BY ConstantsAssumption DEF ConstantsAssumption
  <2>3. /\ c.in_use /\ c.id = id /\ c.inbuf = old.inbuf /\ c.remote_eof = old.remote_eof
        /\ c.eof_requested = old.eof_requested /\ c.eof_sent = old.eof_sent
        /\ c.close_requested = old.close_requested
        /\ c.close_sent = old.close_sent /\ c.close_rcvd = old.close_rcvd
        /\ c.outbuf_off = old.outbuf_off /\ c.flush_mark = old.flush_mark
        /\ c.sink = old.sink /\ c.written = old.written + k
    BY <1>1, <1>2, <1>n DEF Channel
  <2>4. ~old.eof_requested /\ ~old.close_requested
    BY <1>5 DEF Write, old
  <2>5. closers' = closers /\ MayClose(e, id)
    BY <1>5 DEF Write, MayClose
  <2>6. accepted' = [accepted EXCEPT ![e][id] = n]
    BY <2>1
  <2>7. n \in Nat /\ n >= accepted[e][id] /\ ~old.eof_sent
    BY <1>2, <1>3, <2>2, <2>4 DEF SlotInv
  <2>8. SetChannel(e, s, c)
    BY <2>1
  <2> HIDE DEF c
  <2>9. SlotInv(c, n, id \in closers'[e])
    BY <1>2, <1>3, <1>n, <2>2, <2>3, <2>4, <2>5 DEF SlotInv
  <2> HIDE DEF n
  <2>10. UNCHANGED <<next_dynamic_offset, wire, told, delivered>>
    BY <1>5 DEF Write
  <2> QED
    BY <1>1, <1>n, <2>3, <2>4, <2>5, <2>6, <2>7, <2>8, <2>9, <2>10, LocalAction
<1> DEFINE AllDue(c) ==
             /\ c.in_use /\ c.id = id /\ c.inbuf = old.inbuf /\ c.remote_eof = old.remote_eof
             /\ c.eof_sent = old.eof_sent /\ c.eof_requested \in BOOLEAN
             /\ old.eof_requested => c.eof_requested
             /\ c.close_requested = old.close_requested
             /\ c.close_sent = old.close_sent /\ c.close_rcvd = old.close_rcvd
             /\ c.outbuf_off = old.outbuf_off /\ c.flush_mark = old.written
             /\ c.sink = old.sink /\ c.written = old.written
<1>f. ASSUME NEW c, SetChannel(e, s, c), AllDue(c), Flush(e, s) \/ SendEof(e, s)
      PROVE  OrderInv'
  <2>1. /\ UNCHANGED <<next_dynamic_offset, wire, told, delivered, closers, accepted>>
        /\ MayClose(e, id)
    BY <1>f DEF Flush, SendEof, MayClose
  <2>2. SlotInv(c, accepted[e][id], id \in closers'[e])
    BY <1>2, <1>n, <1>f, <2>1 DEF SlotInv
  <2>3. IF c.close_requested THEN old.close_requested \/ id \in closers'[e]
           ELSE ~old.close_requested /\ c.outbuf_off = old.outbuf_off
    BY <1>f
  <2> QED
    BY <1>1, <1>3, <1>4, <1>n, <1>f, <2>1, <2>2, <2>3, LocalAction
<1>6. CASE Flush(e, s)
  <2>1. AllDue([old EXCEPT !.flush_mark = old.written])
    BY <1>1, <1>2, <1>n DEF Channel
  <2>2. SetChannel(e, s, [old EXCEPT !.flush_mark = old.written])
    BY <1>6 DEF Flush, old
  <2> HIDE DEF AllDue
  <2> QED
    BY <1>f, <1>6, <2>1, <2>2
<1>e. CASE SendEof(e, s)
  <2>1. AllDue([old EXCEPT !.flush_mark = old.written, !.eof_requested = TRUE])
    BY <1>1, <1>2, <1>n DEF Channel
  <2>2. SetChannel(e, s, [old EXCEPT !.flush_mark = old.written, !.eof_requested = TRUE])
    BY <1>e DEF SendEof, old
  <2> HIDE DEF AllDue
  <2> QED
    BY <1>f, <1>e, <2>1, <2>2
<1>7. CASE Close(e, s)
  <2> DEFINE c == DropPending(old)
  <2>1. /\ c.in_use /\ c.id = id /\ c.inbuf = old.inbuf /\ c.remote_eof = old.remote_eof
        /\ c.eof_requested = old.eof_requested /\ c.eof_sent = old.eof_sent
        /\ c.close_requested
        /\ c.close_sent = old.close_sent /\ c.close_rcvd = old.close_rcvd
        /\ c.outbuf_off = old.written /\ c.flush_mark = old.written
        /\ c.sink = old.sink /\ c.written = old.written
    BY <1>1, <1>2, <1>n DEF Channel, DropPending
  <2>2. SetChannel(e, s, c)
    BY <1>7 DEF Close, old
  <2> HIDE DEF c
  <2>3. UNCHANGED <<next_dynamic_offset, wire, told, delivered, accepted>>
    BY <1>7 DEF Close
  <2>4. closers' = [closers EXCEPT ![e] = @ \union {id}] /\ MayClose(e, id)
    BY <1>7 DEF Close, id, old, MayClose
  <2>5. id \in closers'[e]
    BY <2>4, TypeInvUse
  <2>6. SlotInv(c, accepted[e][id], id \in closers'[e])
    BY <1>2, <1>n, <2>1 DEF SlotInv
  <2> QED
    BY <1>1, <1>3, <1>4, <1>n, <2>1, <2>2, <2>3, <2>4, <2>5, <2>6, LocalAction
<1> QED
  BY <1>5, <1>6, <1>e, <1>7

(* A step that changes neither a slot nor a wire. *)
LEMMA SameOrder ==
  ASSUME OrderInv, UNCHANGED <<channels, next_dynamic_offset, wire, accepted, delivered,
                               told, closers>>
  PROVE  OrderInv'
<1>1. \A e \in Endpoint : \A id : Chan(e, id)' = Chan(e, id)
  BY DEF Chan, Lookup, InUse
<1>2. \A id : Allocated(id, next_dynamic_offset)' <=> Allocated(id, next_dynamic_offset)
  BY DEF Allocated
<1>3. \A id \in Id, V \in View : IsView(V, id)' <=> IsView(V, id)
  BY <1>1, <1>2 DEF IsView
<1> QED
  BY <1>3 DEF OrderInv

(* V1 is V with slot c and wire w of endpoint e: a state between two of the  *)
(* elementary steps an action consists of.                                  *)
Mid(V, V1, e, c, w) ==
  /\ V1.chan[e] = c /\ V1.wire[e] = w
  /\ \A p \in Endpoint \ {e} : V1.chan[p] = V.chan[p] /\ V1.wire[p] = V.wire[p]
  /\ V1.accepted = V.accepted /\ V1.delivered = V.delivered
  /\ V1.told = V.told /\ V1.closed = V.closed /\ V1.known = V.known

LEMMA MidView ==
  ASSUME NEW V \in View, NEW e \in Endpoint, NEW c \in Channel, NEW w \in Seq(Message)
  PROVE  \E V1 \in View : Mid(V, V1, e, c, w)
<1> DEFINE V1 == [V EXCEPT !.chan = [@ EXCEPT ![e] = c], !.wire = [@ EXCEPT ![e] = w]]
<1>1. V1 \in View
  BY DEF View
<1>2. Mid(V, V1, e, c, w)
  BY DEF View, Mid
<1> HIDE DEF V1
<1> QED
  BY <1>1, <1>2

(* What the messages an endpoint ships are. *)
LEMMA MessageFacts ==
  ASSUME NEW id \in Id
  PROVE  /\ \A kind \in MsgKind, window \in Nat :
              /\ Control(kind, id, window) \in Message
              /\ Control(kind, id, window).msg = kind /\ Control(kind, id, window).id = id
         /\ \A bytes \in Seq(Nat) :
              /\ Data(id, bytes) \in Message /\ Data(id, bytes).msg = "DATA"
              /\ Data(id, bytes).id = id /\ Data(id, bytes).data = bytes
<1>1. <<>> \in Seq(Nat)
  BY EmptySeq
<1> QED
  BY <1>1 DEF Control, Data, Message, MsgKind

(* At most one grant. *)
GrantOnly(msgs, id) ==
  msgs = <<>> \/ \E m \in Message : m.id = id /\ m.msg = "WINDOW_ADJUST" /\ msgs = <<m>>

LEMMA GrantFacts ==
  ASSUME NEW c \in Channel, c.id \in Id, NEW n \in Nat
  PROVE  GrantOnly(GrantMessages(c, n), c.id)
<1>1. c.recv_consumed + n \in Nat
  BY DEF Channel
<1>2. /\ Control("WINDOW_ADJUST", c.id, c.recv_consumed + n) \in Message
      /\ Control("WINDOW_ADJUST", c.id, c.recv_consumed + n).msg = "WINDOW_ADJUST"
      /\ Control("WINDOW_ADJUST", c.id, c.recv_consumed + n).id = c.id
  BY <1>1, MessageFacts DEF MsgKind
<1> QED
  BY <1>2 DEF GrantMessages, GrantOnly

(* Shipping a grant. *)
LEMMA GrantStep ==
  ASSUME NEW id, NEW e \in Endpoint, NEW p \in Endpoint, p # e, NEW V \in View,
         EndsInv(V, id, e, p), EndsInv(V, id, p, e), Tracked(V, e),
         NEW msgs, GrantOnly(msgs, id)
  PROVE  \E V1 \in View : /\ Mid(V, V1, e, V.chan[e], V.wire[e] \o msgs)
                          /\ EndsInv(V1, id, e, p) /\ EndsInv(V1, id, p, e)
<1>1. V.chan[e] \in Channel /\ V.wire[e] \in Seq(Message)
  BY DEF View
<1>2. CASE msgs = <<>>
  <2>1. V.wire[e] \o msgs = V.wire[e]
    BY <1>1, <1>2, ConcatEmptySeq
  <2> QED
    BY <2>1 DEF Mid
<1>3. ASSUME NEW m \in Message, m.id = id, m.msg = "WINDOW_ADJUST", msgs = <<m>>
      PROVE  \E V1 \in View : /\ Mid(V, V1, e, V.chan[e], V.wire[e] \o msgs)
                              /\ EndsInv(V1, id, e, p) /\ EndsInv(V1, id, p, e)
  <2>1. V.wire[e] \o msgs = Append(V.wire[e], m) /\ Append(V.wire[e], m) \in Seq(Message)
    BY <1>1, <1>3, AppendTwo
  <2>2. PICK V1 \in View : Mid(V, V1, e, V.chan[e], Append(V.wire[e], m))
    BY <1>1, <2>1, MidView
  <2>3. /\ V1.chan[e] = V.chan[e] /\ V1.wire[e] = Append(V.wire[e], m)
        /\ V1.chan[p] = V.chan[p] /\ V1.wire[p] = V.wire[p]
        /\ V1.accepted = V.accepted /\ V1.delivered = V.delivered
        /\ V1.told = V.told /\ V1.closed = V.closed /\ V1.known = V.known
    BY <2>2 DEF Mid
  <2>4. Tracked(V1, e)
    BY <2>3 DEF Tracked
  <2>5. EndInv(V, id, e)
    BY DEF EndsInv
  <2>6. EndInv(V1, id, e)
    BY <2>3, <2>5, SlotEnd, EndParts
  <2>7. EndsInv(V1, id, e, p) /\ EndsInv(V1, id, p, e)
    BY <1>3, <2>3, <2>4, <2>6, ShipStep
  <2> QED
    BY <2>1, <2>2, <2>7
<1> QED
  BY <1>2, <1>3 DEF GrantOnly

(* The slot is freed, or nothing happens. *)
LEMMA ReleaseStep ==
  ASSUME NEW id, NEW e \in Endpoint, NEW p \in Endpoint, p # e,
         NEW V \in View, NEW V2 \in View, EndsInv(V, id, e, p), EndsInv(V, id, p, e),
         Tracked(V, e), Mid(V, V2, e, MaybeRelease(V.chan[e]), V.wire[e])
  PROVE  EndsInv(V2, id, e, p) /\ EndsInv(V2, id, p, e)
<1>1. /\ V2.chan[e] = MaybeRelease(V.chan[e]) /\ V2.wire[e] = V.wire[e]
      /\ V2.chan[p] = V.chan[p] /\ V2.wire[p] = V.wire[p]
      /\ V2.accepted = V.accepted /\ V2.delivered = V.delivered
      /\ V2.told = V.told /\ V2.closed = V.closed /\ V2.known = V.known
  BY DEF Mid
<1>2. V2.wire = V.wire
  <2>1. \A f \in Endpoint : f = e \/ f = p
    BY DEF Endpoint
  <2>2. \A f \in Endpoint : V2.wire[f] = V.wire[f]
    BY <1>1, <2>1
  <2> QED
    BY <2>2 DEF View
<1>3. V.accepted[e] \in Nat
  BY DEF View
<1>4. EndInv(V, id, e)
  BY DEF EndsInv
<1>5. CASE V.chan[e].close_sent /\ V.chan[e].close_rcvd /\ V.chan[e].inbuf = <<>>
  <2>1. V2.chan[e] = FreeChannel
    BY <1>1, <1>5 DEF MaybeRelease
  <2>2. V2.chan[e].inbuf = <<>> /\ ~Tracked(V2, e)
    BY <2>1 DEF FreeChannel, Tracked
  <2>3. Reached(V2, e) = Reached(V, e)
    BY <1>1, <1>5, <2>2 DEF Reached
  <2>4. EndInv(V2, id, e)
    BY <2>2, EndParts
  <2> QED
    BY <1>1, <1>2, <1>3, <1>5, <2>2, <2>3, <2>4, LocalStep
<1>6. CASE ~(V.chan[e].close_sent /\ V.chan[e].close_rcvd /\ V.chan[e].inbuf = <<>>)
  <2>1. V2.chan[e] = V.chan[e]
    BY <1>1, <1>6 DEF MaybeRelease
  <2>2. Reached(V2, e) = Reached(V, e) /\ Tracked(V2, e)
    BY <1>1, <2>1 DEF Reached, Tracked
  <2>3. EndInv(V2, id, e)
    <3>1. SlotInv(V2.chan[e], V2.accepted[e], V2.closed[e])
      BY <1>1, <1>4, <2>1, EndParts
    <3> QED
      BY <1>1, <1>4, <2>1, <3>1, SlotEnd
  <2> QED
    BY <1>1, <1>2, <1>3, <2>1, <2>2, <2>3, LocalStep
<1> QED
  BY <1>5, <1>6

(* The demux of a message of channel id, answered with messages of it, with  *)
(* the channel tracked in slot s and left as c.                             *)
Takes(e, id, msgs) ==
  /\ Ours(msgs, id)
  /\ TakeAndShip(e, msgs)
  /\ Inbound(e) # <<>>
  /\ Head(Inbound(e)).id = id
  /\ UNCHANGED <<next_dynamic_offset, accepted, closers>>
  /\ OthersKeep(told, told', e, id)
  /\ OthersKeep(delivered, delivered', e, id)

LeavesSlot(e, id, s, c) ==
  /\ s \in Lookup(e, id)
  /\ SetChannel(e, s, c)
  /\ c = FreeChannel \/ (c.in_use /\ c.id = id)

LEMMA TakeOwn ==
  ASSUME TypeInv, NEW e \in Endpoint, NEW id \in Id, NEW s, NEW c, LeavesSlot(e, id, s, c),
         NEW msgs, Takes(e, id, msgs)
  PROVE  /\ OwnStep(e, id, s, c)
         /\ wire'[e] = wire[e] \o msgs
         /\ wire'[Peer(e)] = Tail(wire[Peer(e)])
<1>0. Ours(msgs, id) /\ TakeAndShip(e, msgs) /\ Inbound(e) # <<>> /\ Head(Inbound(e)).id = id
  BY DEF Takes
<1>1. /\ \A j \in Id \ {id} : \A f \in Endpoint : SameFor(wire[f], wire'[f], j)
      /\ wire'[e] = wire[e] \o msgs
      /\ wire'[Peer(e)] = Tail(wire[Peer(e)])
  BY <1>0, TakeSame
<1>2. OthersKeep(accepted, accepted', e, id) /\ MayClose(e, id)
  BY DEF Takes, OthersKeep, MayClose
<1>3. OwnStep(e, id, s, c)
  BY <1>1, <1>2 DEF OwnStep, Takes, LeavesSlot
<1> QED
  BY <1>1, <1>3

(* RecvEof and RecvWindowAdjust: the demux notes the message in the slot. *)
LEMMA TakeAction ==
  ASSUME TypeInv, TypeInv', UniqueIds, OrderInv, NEW e \in Endpoint,
         NEW m, m = Head(Inbound(e)), Inbound(e) # <<>>, NEW id \in Id, id = m.id,
         m.msg \in {"EOF", "WINDOW_ADJUST"},
         NEW s \in Lookup(e, id), NEW old, old = channels[e][s],
         NEW c, SetChannel(e, s, c), c.in_use, c.id = id,
         UNCHANGED <<next_dynamic_offset, accepted, delivered, closers>>,
         TakeAndShip(e, <<>>),
         SlotInv(c, accepted[e][id], id \in closers[e]),
         c.inbuf = old.inbuf, c.outbuf_off = old.outbuf_off, c.eof_sent = old.eof_sent,
         c.close_sent = old.close_sent, c.close_requested = old.close_requested,
         c.close_rcvd = old.close_rcvd,
         IF m.msg = "EOF"
           THEN c.remote_eof /\ told' = [told EXCEPT ![e][id] = Append(told[e][id], "REMOTE_EOF")]
           ELSE c.remote_eof = old.remote_eof /\ told' = told
  PROVE  OrderInv'
<1> DEFINE p == Peer(e)
<1>1. p \in Endpoint /\ p # e /\ p = Peer(e)
  BY PeerEndpoint
<1>0. m = Head(wire[p]) /\ wire[p] # <<>>
  BY DEF Inbound
<1> HIDE DEF p
<1>2. s \in Slot /\ old.in_use
  BY LookupFacts
<1>3. OthersKeep(told, told', e, id) /\ OthersKeep(delivered, delivered', e, id)
  BY KeepsOthers
<1>4. /\ OwnStep(e, id, s, c)
      /\ wire'[e] = wire[e] \o <<>> /\ wire'[p] = Tail(wire[p])
  <2>1. Ours(<<>>, id) /\ Head(Inbound(e)).id = id
    BY DEF Ours
  <2>2. Takes(e, id, <<>>)
    BY <1>3, <2>1 DEF Takes
  <2>3. LeavesSlot(e, id, s, c)
    BY DEF LeavesSlot
  <2> QED
    BY <1>1, <2>2, <2>3, TakeOwn
<1>5. wire'[e] = wire[e]
  BY <1>4, TypeInvUse, ConcatEmptySeq
<1>6. m.msg = "EOF" => told'[e][id] = Append(told[e][id], "REMOTE_EOF")
  BY TypeInvUse
<1>7. ASSUME NEW V \in View, NEW V2 \in View, IsView(V, id), IsView(V2, id)',
             EndsInv(V, id, e, p), EndsInv(V, id, p, e)
      PROVE  EndsInv(V2, id, e, p) /\ EndsInv(V2, id, p, e)
  <2>1. /\ V.chan[e] = old /\ V2.chan[e] = c /\ V2.chan[p] = V.chan[p]
        /\ V2.known = V.known /\ V.wire = wire /\ V2.wire = wire'
        /\ V2.accepted = V.accepted /\ V2.delivered = V.delivered
        /\ V2.closed = V.closed /\ V2.told[p] = V.told[p]
        /\ V.told[e] = told[e][id] /\ V2.told[e] = told'[e][id]
        /\ V.accepted[e] = accepted[e][id] /\ (V.closed[e] <=> id \in closers[e])
    BY <1>1, <1>4, <1>7, StepViews
  <2>2. Tracked(V, e) /\ Tracked(V2, e)
    BY <1>2, <2>1 DEF Tracked
  <2>3. /\ V2.wire[e] = V.wire[e] /\ V2.wire[p] = Tail(V.wire[p])
        /\ m = Head(V.wire[p]) /\ V.wire[p] # <<>>
    BY <1>0, <1>4, <1>5, <2>1
  <2>4. IF m.msg = "EOF" THEN V2.told[e] = Append(V.told[e], "REMOTE_EOF")
                         ELSE V2.told[e] = V.told[e]
    BY <1>6, <2>1
  <2>5. EndInv(V, id, e)
    BY <1>7 DEF EndsInv
  <2>6. SlotInv(V2.chan[e], V2.accepted[e], V2.closed[e])
    BY <2>1 DEF SlotInv
  <2>7. EndInv(V2, id, e)
    <3>1. CASE m.msg = "EOF"
      <4>1. \A event : Heard(V2, e, event) <=> Heard(V, e, event) \/ event = "REMOTE_EOF"
        BY <2>4, <3>1, AppendHeard
      <4> QED
        BY <2>1, <2>2, <2>5, <2>6, <3>1, <4>1, EndParts
    <3>2. CASE m.msg # "EOF"
      BY <2>1, <2>2, <2>4, <2>5, <2>6, <3>2, SlotEnd
    <3> QED
      BY <3>1, <3>2
  <2>8. m.msg # "CLOSE" /\ m.msg # "DATA" /\ m.msg # "OPEN" /\ m.id = id
    OBVIOUS
  <2>9. IF Tracked(V, e) /\ m.msg = "CLOSE"
          THEN V.chan[e].close_sent /\ V2.told[e] = Append(V.told[e], "CLOSED")
        ELSE IF Tracked(V, e) /\ m.msg = "EOF"
          THEN /\ V2.told[e] = Append(V.told[e], "REMOTE_EOF")
               /\ V2.chan[e].close_rcvd = V.chan[e].close_rcvd
          ELSE /\ V2.told[e] = V.told[e]
               /\ V2.chan[e].close_rcvd = V.chan[e].close_rcvd
    BY <2>1, <2>2, <2>4, <2>8
  <2>10. /\ V2.chan[e].inbuf = V.chan[e].inbuf
         /\ V2.chan[e].outbuf_off = V.chan[e].outbuf_off
         /\ V2.chan[e].eof_sent = V.chan[e].eof_sent
         /\ V2.chan[e].close_sent = V.chan[e].close_sent
         /\ V2.chan[e].close_requested = V.chan[e].close_requested
    BY <2>1
  <2> QED
    BY <1>1, <1>7, <2>1, <2>2, <2>3, <2>7, <2>8, <2>9, <2>10, TakeStep, ZenonT(20)
<1>8. OnlyChannel(id)
  BY <1>4, OwnEnd
<1> QED
  BY <1>1, <1>7, <1>8, OneChannel

LEMMA RecvEofOrder ==
  ASSUME TypeInv, TypeInv', UniqueIds, OrderInv, NEW e \in Endpoint, RecvEof(e)
  PROVE  OrderInv'
<1> DEFINE m == Head(Inbound(e))
           id == m.id
<1>1. Inbound(e) # <<>> /\ m.msg = "EOF" /\ TakeAndShip(e, <<>>)
  BY DEF RecvEof, Arriving
<1>2. PICK s \in Lookup(e, id) : SetChannel(e, s, [channels[e][s] EXCEPT !.remote_eof = TRUE])
  BY DEF RecvEof
<1> DEFINE old == channels[e][s]
           c == [old EXCEPT !.remote_eof = TRUE]
<1>3. /\ s \in Slot /\ old.in_use /\ old.id = id
      /\ old \in Channel /\ id \in Id
  BY <1>2, LookupFacts, SlotFacts
<1>4. SlotInv(old, accepted[e][id], id \in closers[e])
  BY <1>3, SlotHolds
<1>5. UNCHANGED <<next_dynamic_offset, accepted, delivered, closers>>
  BY DEF RecvEof
<1>6. told' = [told EXCEPT ![e][id] = Append(told[e][id], "REMOTE_EOF")]
  BY DEF RecvEof, Tell
<1>7. /\ c.remote_eof /\ c.in_use = old.in_use /\ c.id = old.id
      /\ c.inbuf = old.inbuf /\ c.outbuf_off = old.outbuf_off /\ c.eof_sent = old.eof_sent
      /\ c.close_sent = old.close_sent /\ c.close_requested = old.close_requested
      /\ c.close_rcvd = old.close_rcvd /\ c.eof_requested = old.eof_requested
      /\ c.written = old.written /\ c.flush_mark = old.flush_mark /\ c.sink = old.sink
  BY <1>3 DEF Channel
<1>8. SetChannel(e, s, c) /\ s \in Lookup(e, id)
  BY <1>2
<1> HIDE DEF m, id, c, old
<1>9. m = Head(Inbound(e)) /\ id = m.id /\ old = channels[e][s]
  BY DEF m, id, old
<1>10. SlotInv(c, accepted[e][id], id \in closers[e])
  BY <1>4, <1>7 DEF SlotInv
<1> QED
  BY <1>1, <1>3, <1>5, <1>6, <1>7, <1>8, <1>9, <1>10, TakeAction

LEMMA RecvWindowAdjustOrder ==
  ASSUME TypeInv, TypeInv', UniqueIds, OrderInv, NEW e \in Endpoint, RecvWindowAdjust(e)
  PROVE  OrderInv'
<1> DEFINE m == Head(Inbound(e))
           id == m.id
<1>1. Inbound(e) # <<>> /\ m.msg = "WINDOW_ADJUST" /\ TakeAndShip(e, <<>>)
  BY DEF RecvWindowAdjust, Arriving
<1>2. PICK s \in Lookup(e, id) :
        SetChannel(e, s, [channels[e][s] EXCEPT !.send_window = @ + m.window])
  BY DEF RecvWindowAdjust
<1> DEFINE old == channels[e][s]
           c == [old EXCEPT !.send_window = @ + m.window]
<1>3. /\ s \in Slot /\ old.in_use /\ old.id = id
      /\ old \in Channel /\ id \in Id
  BY <1>2, LookupFacts, SlotFacts
<1>4. SlotInv(old, accepted[e][id], id \in closers[e])
  BY <1>3, SlotHolds
<1>5. UNCHANGED <<next_dynamic_offset, accepted, delivered, closers>> /\ told' = told
  BY DEF RecvWindowAdjust
<1>7. /\ c.remote_eof = old.remote_eof /\ c.in_use = old.in_use /\ c.id = old.id
      /\ c.inbuf = old.inbuf /\ c.outbuf_off = old.outbuf_off /\ c.eof_sent = old.eof_sent
      /\ c.close_sent = old.close_sent /\ c.close_requested = old.close_requested
      /\ c.close_rcvd = old.close_rcvd /\ c.eof_requested = old.eof_requested
      /\ c.written = old.written /\ c.flush_mark = old.flush_mark /\ c.sink = old.sink
  BY <1>3 DEF Channel
<1>8. SetChannel(e, s, c) /\ s \in Lookup(e, id)
  BY <1>2
<1> HIDE DEF m, id, c, old
<1>9. m = Head(Inbound(e)) /\ id = m.id /\ old = channels[e][s]
  BY DEF m, id, old
<1>10. SlotInv(c, accepted[e][id], id \in closers[e])
  BY <1>4, <1>7 DEF SlotInv
<1> QED
  BY <1>1, <1>3, <1>5, <1>7, <1>8, <1>9, <1>10, TakeAction

(* The arrival of a message of a channel the endpoint does not track. *)
LEMMA RecvUnknownOrder ==
  ASSUME TypeInv, TypeInv', UniqueIds, OrderInv, NEW e \in Endpoint, RecvUnknown(e)
  PROVE  OrderInv'
<1> DEFINE p == Peer(e)
<1> PICK m : m = Head(Inbound(e))
  OBVIOUS
<1> PICK id : id = m.id
  OBVIOUS
<1>1. p \in Endpoint /\ p # e /\ p = Peer(e)
  BY PeerEndpoint
<1>2. /\ wire[p] # <<>> /\ m.msg # "OPEN" /\ Lookup(e, id) = {}
      /\ TakeAndShip(e, <<>>) /\ m = Head(wire[p])
      /\ UNCHANGED <<channels, next_dynamic_offset, accepted, delivered, told, closers>>
  BY DEF RecvUnknown, Inbound
<1>3. id \in Id
  BY <1>1, <1>2, TypeInvUse, HeadTailFacts DEF Message
<1>4. /\ \A j \in Id \ {id} : \A f \in Endpoint : SameFor(wire[f], wire'[f], j)
      /\ wire'[e] = wire[e] \o <<>> /\ wire'[p] = Tail(wire[p])
  <2>1. Ours(<<>>, id)
    BY DEF Ours
  <2> QED
    BY <1>1, <1>2, <2>1, TakeSame DEF Inbound
<1> HIDE DEF p
<1>5. wire'[e] = wire[e]
  BY <1>4, TypeInvUse, ConcatEmptySeq
<1>6. \A f \in Endpoint : \A j : Chan(f, j)' = Chan(f, j)
  BY <1>2 DEF Chan, Lookup, InUse
<1>7. OnlyChannel(id)
  BY <1>2, <1>4, <1>6 DEF OnlyChannel
<1>8. ASSUME NEW V \in View, NEW V2 \in View, IsView(V, id), IsView(V2, id)',
             EndsInv(V, id, e, p), EndsInv(V, id, p, e)
      PROVE  EndsInv(V2, id, e, p) /\ EndsInv(V2, id, p, e)
  <2>1. \A f \in Endpoint : V2.chan[f] = V.chan[f]
    BY <1>6, <1>8, <1>3, ViewStep
  <2>2. /\ V2.known = V.known /\ V2.told = V.told /\ V2.accepted = V.accepted
        /\ V2.delivered = V.delivered /\ V2.closed = V.closed
    BY <1>2, <1>3, <1>8, ViewStep
  <2>3. /\ V2.wire[e] = V.wire[e] /\ V2.wire[p] = Tail(V.wire[p])
        /\ m = Head(V.wire[p]) /\ V.wire[p] # <<>>
    BY <1>2, <1>4, <1>5, <1>8 DEF IsView
  <2>4. ~Tracked(V, e) /\ ~Tracked(V2, e)
    <3>1. V.chan[e] = FreeChannel
      BY <1>2, <1>8 DEF IsView, Chan
    <3> QED
      BY <2>1, <3>1 DEF Tracked, FreeChannel
  <2>5. EndInv(V2, id, e)
    BY <2>4, EndParts
  <2>6. V2.chan[e] = V.chan[e] /\ V2.chan[p] = V.chan[p] /\ V2.told[e] = V.told[e]
    BY <1>1, <2>1, <2>2
  <2> QED
    BY <1>1, <1>2, <1>8, <2>2, <2>3, <2>4, <2>5, <2>6, TakeStep
<1> QED
  BY <1>1, <1>3, <1>7, <1>8, OneChannel

(* A grant changes the count of drained bytes only. *)
KeepsSlot(c, g) ==
  /\ g.in_use = c.in_use /\ g.id = c.id /\ g.sink = c.sink
  /\ g.written = c.written /\ g.flush_mark = c.flush_mark /\ g.outbuf_off = c.outbuf_off
  /\ g.eof_requested = c.eof_requested /\ g.eof_sent = c.eof_sent
  /\ g.close_requested = c.close_requested /\ g.close_sent = c.close_sent
  /\ g.close_rcvd = c.close_rcvd /\ g.remote_eof = c.remote_eof

LEMMA GrantKeeps ==
  ASSUME NEW c \in Channel, NEW n \in Nat
  PROVE  KeepsSlot(c, GrantCredit(c, n)) /\ GrantCredit(c, n).inbuf = c.inbuf
<1>1. \A k \in Nat : KeepsSlot(c, [c EXCEPT !.recv_consumed = k])
                       /\ [c EXCEPT !.recv_consumed = k].inbuf = c.inbuf
  BY DEF Channel, KeepsSlot
<1>2. 0 \in Nat /\ c.recv_consumed + n \in Nat
  BY DEF Channel
<1>3. \/ GrantCredit(c, n) = c
      \/ GrantCredit(c, n) = [c EXCEPT !.recv_consumed = 0]
      \/ GrantCredit(c, n) = [c EXCEPT !.recv_consumed = c.recv_consumed + n]
  BY DEF GrantCredit
<1>4. KeepsSlot(c, c)
  BY DEF KeepsSlot
<1>5. KeepsSlot(c, [c EXCEPT !.recv_consumed = 0])
        /\ [c EXCEPT !.recv_consumed = 0].inbuf = c.inbuf
  BY <1>1
<1>6. KeepsSlot(c, [c EXCEPT !.recv_consumed = c.recv_consumed + n])
        /\ [c EXCEPT !.recv_consumed = c.recv_consumed + n].inbuf = c.inbuf
  BY <1>1, <1>2
<1> QED
  BY <1>3, <1>4, <1>5, <1>6

(* Streams of bytes are appended in any grouping. *)
LEMMA JoinBytes ==
  ASSUME NEW a \in Seq(Nat), NEW b \in Seq(Nat), NEW c \in Seq(Nat)
  PROVE  (a \o b) \o c = a \o (b \o c)
<1>1. PICK S : S = Nat
  OBVIOUS
<1>2. a \in Seq(S) /\ b \in Seq(S) /\ c \in Seq(S)
  BY <1>1
<1> QED
  BY SMTT(40), <1>2, ConcatAssociative

(* Reading moves bytes from the buffer to the consumer. *)
LEMMA ReadMoves ==
  ASSUME NEW d \in Seq(Nat), NEW bytes \in Seq(Nat), NEW n \in 1 .. Len(bytes)
  PROVE  (d \o SubSeq(bytes, 1, n)) \o SubSeq(bytes, n + 1, Len(bytes)) = d \o bytes
<1>1. Len(bytes) \in Nat /\ 1 \in 1 .. (Len(bytes) + 1) /\ n \in (1 - 1) .. Len(bytes)
      /\ Len(bytes) \in n .. Len(bytes)
  BY LenProperties
<1>2. PICK a : a = SubSeq(bytes, 1, n)
  OBVIOUS
<1>3. PICK b : b = SubSeq(bytes, n + 1, Len(bytes))
  OBVIOUS
<1>4. a \in Seq(Nat) /\ b \in Seq(Nat)
  BY <1>2, <1>3, SplitType
<1>5. (d \o a) \o b = d \o (a \o b)
  BY <1>4, JoinBytes
<1>6. SubSeq(bytes, 1, n) \o SubSeq(bytes, n + 1, Len(bytes)) = SubSeq(bytes, 1, Len(bytes))
  BY <1>1, ConcatAdjacentSubSeq
<1>7. SubSeq(bytes, 1, Len(bytes)) = bytes
  BY SubSeqFull
<1> QED
  BY Zenon, <1>2, <1>3, <1>5, <1>6, <1>7

(* A grant and a release leave the invariant of the slot and of what was     *)
(* told in place.                                                           *)
LEMMA KeepsSlotInv ==
  ASSUME NEW c, NEW g, NEW accepts, NEW closed, KeepsSlot(c, g),
         c.inbuf = <<>> => g.inbuf = <<>>, SlotInv(c, accepts, closed)
  PROVE  SlotInv(g, accepts, closed)
  BY DEF KeepsSlot, SlotInv

(* What a release does. *)
LEMMA ReleaseFacts ==
  ASSUME NEW g
  PROVE  /\ MaybeRelease(g).inbuf = g.inbuf
         /\ \/ MaybeRelease(g) = g
            \/ /\ MaybeRelease(g) = FreeChannel /\ ~MaybeRelease(g).in_use
               /\ g.close_sent /\ g.close_rcvd
  BY DEF MaybeRelease, FreeChannel

LEMMA ReadOrder ==
  ASSUME TypeInv, TypeInv', UniqueIds, OrderInv, NEW e \in Endpoint, NEW s \in Slot, Read(e, s)
  PROVE  OrderInv'
<1> DEFINE p == Peer(e)
<1>1. p \in Endpoint /\ p # e /\ p = Peer(e)
  BY PeerEndpoint
<1> HIDE DEF p
<1> PICK old : old = channels[e][s]
  OBVIOUS
<1> PICK id : id = old.id
  OBVIOUS
<1>2. /\ old.in_use /\ old \in Channel /\ id \in Id /\ s \in Lookup(e, id)
      /\ Chan(e, id) = old
  BY SlotFacts DEF Read
<1>3. SlotInv(old, accepted[e][id], id \in closers[e])
  BY <1>2, SlotHolds
<1>4. PICK n \in 1 .. Len(channels[e][s].inbuf), ok \in BOOLEAN :
        LET taken == [channels[e][s] EXCEPT !.inbuf = SubSeq(channels[e][s].inbuf, n + 1,
                                                             Len(channels[e][s].inbuf))]
        IN  /\ SetChannel(e, s, MaybeRelease(GrantCredit(taken, n)))
            /\ Ship(e, IF ok THEN GrantMessages(taken, n) ELSE <<>>)
            /\ delivered' = [delivered EXCEPT ![e][channels[e][s].id] =
                                @ \o SubSeq(channels[e][s].inbuf, 1, n)]
  BY Zenon DEF Read
<1>m. n \in 1 .. Len(old.inbuf)
  OBVIOUS
<1>5. old.inbuf \in Seq(Nat)
  BY <1>2 DEF Channel
<1>6. /\ n \in Nat /\ SubSeq(old.inbuf, 1, n) \in Seq(Nat)
      /\ SubSeq(old.inbuf, n + 1, Len(old.inbuf)) \in Seq(Nat)
  BY <1>5, <1>m, SplitType
<1> DEFINE rest == SubSeq(old.inbuf, n + 1, Len(old.inbuf))
           read == SubSeq(old.inbuf, 1, n)
           taken == [old EXCEPT !.inbuf = rest]
           g == GrantCredit(taken, n)
           c == MaybeRelease(g)
           msgs == IF ok THEN GrantMessages(taken, n) ELSE <<>>
<1>7. taken \in Channel /\ KeepsSlot(old, taken) /\ taken.inbuf = rest
  BY <1>2, <1>6 DEF Channel, KeepsSlot
<1>8. KeepsSlot(taken, g) /\ g.inbuf = rest
  BY <1>6, <1>7, GrantKeeps
<1>9. KeepsSlot(old, g)
  BY <1>7, <1>8 DEF KeepsSlot
<1>10. SetChannel(e, s, c) /\ Ship(e, msgs)
       /\ delivered' = [delivered EXCEPT ![e][id] = delivered[e][id] \o read]
  BY <1>4
<1>11. GrantOnly(msgs, id)
  <2>1. taken.id = id
    BY <1>7 DEF KeepsSlot
  <2>2. GrantOnly(GrantMessages(taken, n), id)
    BY <1>2, <1>6, <1>7, <2>1, GrantFacts
  <2> QED
    BY <2>2 DEF GrantOnly
<1>12. c.inbuf = rest /\ (c = g \/ (c = FreeChannel /\ ~c.in_use /\ g.close_sent /\ g.close_rcvd))
  BY <1>8, ReleaseFacts
<1>r. delivered[e][id] \in Seq(Nat) /\ (delivered[e][id] \o read) \o rest
                                       = delivered[e][id] \o old.inbuf
  BY ZenonT(40), <1>2, <1>5, <1>m, TypeInvUse, ReadMoves
<1> HIDE DEF taken, g, c, msgs, rest, read
<1>13. OwnStep(e, id, s, c) /\ wire'[e] = wire[e] \o msgs /\ wire'[p] = wire[p]
  <2>1. Ours(msgs, id)
    BY <1>11 DEF GrantOnly, Ours
  <2>2. \A j \in Id \ {id} : \A f \in Endpoint : SameFor(wire[f], wire'[f], j)
    BY <1>10, <2>1, ShipSame
  <2>3. OthersKeep(delivered, delivered', e, id)
    BY <1>10, KeepsOthers
  <2>4. OthersKeep(told, told', e, id) /\ OthersKeep(accepted, accepted', e, id)
        /\ MayClose(e, id)
    BY DEF Read, OthersKeep, MayClose
  <2>5. c = FreeChannel \/ (c.in_use /\ c.id = id)
    BY <1>2, <1>9, <1>12 DEF KeepsSlot
  <2>6. UNCHANGED next_dynamic_offset
    BY DEF Read
  <2>7. wire'[e] = wire[e] \o msgs /\ wire'[p] = wire[p]
    BY <1>1, <1>10, TypeInvUse DEF Ship
  <2>8. SetChannel(e, s, c)
    BY <1>10
  <2>9. OwnStep(e, id, s, c)
    BY <1>2, <2>2, <2>3, <2>4, <2>5, <2>6, <2>8 DEF OwnStep
  <2> QED
    BY <2>7, <2>9
<1>14. UNCHANGED <<told, accepted, closers>>
  BY DEF Read
<1>15. delivered'[e][id] = delivered[e][id] \o read
  BY <1>2, <1>10, TypeInvUse
<1>16. ASSUME NEW V \in View, NEW V2 \in View, IsView(V, id), IsView(V2, id)',
              EndsInv(V, id, e, p), EndsInv(V, id, p, e)
       PROVE  EndsInv(V2, id, e, p) /\ EndsInv(V2, id, p, e)
  <2>1. /\ V.chan[e] = old /\ V2.chan[e] = c /\ V2.chan[p] = V.chan[p]
        /\ V2.known = V.known /\ V.wire = wire /\ V2.wire = wire'
        /\ V2.accepted = V.accepted /\ V2.delivered[p] = V.delivered[p]
        /\ V.delivered[e] = delivered[e][id] /\ V2.delivered[e] = delivered'[e][id]
        /\ V2.closed = V.closed /\ V2.told = V.told
    BY <1>1, <1>2, <1>13, <1>14, <1>16, StepViews
  <2>2. Tracked(V, e)
    BY <1>2, <2>1 DEF Tracked
  <2>3. PICK V1 \in View : /\ Mid(V, V1, e, V.chan[e], V.wire[e] \o msgs)
                           /\ EndsInv(V1, id, e, p) /\ EndsInv(V1, id, p, e)
    BY <1>1, <1>11, <1>16, <2>2, GrantStep
  <2>4. /\ V1.chan[e] = old /\ V1.wire[e] = wire'[e] /\ V1.wire[p] = wire'[p]
        /\ V1.chan[p] = V.chan[p]
        /\ V1.accepted = V.accepted /\ V1.delivered = V.delivered
        /\ V1.told = V.told /\ V1.closed = V.closed /\ V1.known = V.known
    BY <1>1, <1>13, <2>1, <2>3 DEF Mid
  <2>5. V2.wire = V1.wire
    <3>1. \A f \in Endpoint : f = e \/ f = p
      BY <1>1 DEF Endpoint
    <3>2. \A f \in Endpoint : V2.wire[f] = V1.wire[f]
      BY <2>1, <2>4, <3>1
    <3> QED
      BY <3>2 DEF View
  <2>6. Reached(V2, e) = Reached(V1, e)
    <3>1. Reached(V2, e) = (delivered[e][id] \o read) \o rest
      BY <1>12, <1>15, <2>1, ZenonT(20) DEF Reached
    <3>2. Reached(V1, e) = delivered[e][id] \o old.inbuf
      BY <2>1, <2>4, ZenonT(20) DEF Reached
    <3> QED
      BY <1>r, <3>1, <3>2, ZenonT(20)
  <2>7. Tracked(V1, e) /\ EndInv(V1, id, e) /\ V1.accepted[e] \in Nat
    BY <2>3, <2>4, <2>2, <2>1 DEF Tracked, EndsInv, View
  <2>10. /\ V2.told = V1.told /\ V2.known = V1.known /\ V2.chan[p] = V1.chan[p]
         /\ V2.accepted = V1.accepted /\ V2.delivered[p] = V1.delivered[p]
         /\ V2.closed = V1.closed /\ V2.accepted[e] >= V1.accepted[e]
    BY <2>1, <2>4, <2>7
  <2>8. CASE c = g
    <3>1. /\ Tracked(V2, e)
          /\ V2.chan[e].eof_sent = V1.chan[e].eof_sent
          /\ V2.chan[e].close_sent = V1.chan[e].close_sent
          /\ V2.chan[e].close_rcvd = V1.chan[e].close_rcvd
          /\ V2.chan[e].remote_eof = V1.chan[e].remote_eof
          /\ V2.chan[e].close_requested = V1.chan[e].close_requested
          /\ V2.chan[e].outbuf_off = V1.chan[e].outbuf_off
      BY <1>2, <1>9, <2>1, <2>4, <2>8 DEF KeepsSlot, Tracked
    <3>2. SlotInv(V1.chan[e], V1.accepted[e], V1.closed[e])
      BY <2>7, EndParts
    <3>3. SlotInv(V2.chan[e], V2.accepted[e], V2.closed[e])
      <4>1. old.sink = "push" => FALSE
        BY <1>3, <1>m, EmptySeq DEF SlotInv
      <4> QED
        BY <1>9, <2>1, <2>4, <2>8, <3>2, <4>1 DEF KeepsSlot, SlotInv
    <3>4. EndInv(V2, id, e)
      BY <2>1, <2>4, <2>7, <3>1, <3>3, SlotEnd
    <3> QED
      BY <1>1, <2>3, <2>5, <2>6, <2>7, <2>10, <3>1, <3>4, LocalStep
  <2>9. CASE c # g
    <3>1. ~Tracked(V2, e) /\ V1.chan[e].close_sent /\ V1.chan[e].close_rcvd
      BY <1>9, <1>12, <2>1, <2>4, <2>9 DEF KeepsSlot, Tracked
    <3>2. EndInv(V2, id, e)
      BY <3>1, EndParts
    <3> QED
      BY <1>1, <2>3, <2>5, <2>6, <2>7, <2>10, <3>1, <3>2, LocalStep
  <2> QED
    BY <2>8, <2>9
<1>17. OnlyChannel(id)
  BY <1>2, <1>13, OwnEnd
<1> QED
  BY <1>1, <1>2, <1>16, <1>17, OneChannel

(* The EOF leaves, if it is due. *)
LEMMA EofStep ==
  ASSUME NEW id \in Id, NEW e \in Endpoint, NEW p \in Endpoint, p # e, NEW V \in View,
         EndsInv(V, id, e, p), EndsInv(V, id, p, e), Tracked(V, e),
         NEW old, old = V.chan[e], Drained(old),
         NEW msgs, msgs = IF old.eof_requested /\ ~old.eof_sent
                            THEN <<Control("EOF", id, 0)>> ELSE <<>>
  PROVE  \E V1 \in View :
           /\ Mid(V, V1, e, [old EXCEPT !.eof_sent = old.eof_requested], V.wire[e] \o msgs)
           /\ EndsInv(V1, id, e, p) /\ EndsInv(V1, id, p, e)
<1>1. old \in Channel /\ V.wire[e] \in Seq(Message)
  BY DEF View
<1>2. EndInv(V, id, e)
  BY DEF EndsInv
<1>3. SlotInv(old, V.accepted[e], V.closed[e])
  BY <1>2, EndParts
<1> DEFINE c == [old EXCEPT !.eof_sent = old.eof_requested]
<1>4. /\ c \in Channel /\ c.in_use = old.in_use /\ c.inbuf = old.inbuf
      /\ c.sink = old.sink
      /\ c.written = old.written /\ c.flush_mark = old.flush_mark
      /\ c.outbuf_off = old.outbuf_off
      /\ c.eof_requested = old.eof_requested /\ c.eof_sent = old.eof_requested
      /\ c.close_requested = old.close_requested /\ c.close_sent = old.close_sent
      /\ c.close_rcvd = old.close_rcvd /\ c.remote_eof = old.remote_eof
      /\ old.eof_sent = old.eof_requested => c = old
  BY <1>1 DEF Channel
<1> HIDE DEF c
<1>5. CASE old.eof_requested /\ ~old.eof_sent
  <2>1. PICK m : m = Control("EOF", id, 0)
    OBVIOUS
  <2>2. m \in Message /\ m.msg = "EOF" /\ m.id = id
    BY <2>1, MessageFacts DEF MsgKind
  <2>3. V.wire[e] \o msgs = Append(V.wire[e], m) /\ Append(V.wire[e], m) \in Seq(Message)
    BY <1>1, <1>5, <2>1, <2>2, AppendTwo
  <2>4. PICK V1 \in View : Mid(V, V1, e, c, Append(V.wire[e], m))
    BY <1>4, <2>3, MidView
  <2>5. /\ V1.chan[e] = c /\ V1.wire[e] = Append(V.wire[e], m)
        /\ V1.chan[p] = V.chan[p] /\ V1.wire[p] = V.wire[p]
        /\ V1.accepted = V.accepted /\ V1.delivered = V.delivered
        /\ V1.told = V.told /\ V1.closed = V.closed /\ V1.known = V.known
    BY <2>4 DEF Mid
  <2>6. Tracked(V1, e)
    BY <1>4, <2>5 DEF Tracked
  <2>7. EndInv(V1, id, e)
    <3>1. c.eof_sent => c.outbuf_off = c.written
      BY SMTT(40), <1>1, <1>3, <1>4, <1>5 DEF SlotInv, Drained, Pending, Channel
    <3>2. SlotInv(c, V.accepted[e], V.closed[e])
      BY <1>3, <1>4, <3>1 DEF SlotInv
    <3> QED
      BY <1>2, <1>4, <2>5, <3>2, SlotEnd
  <2>8. IF m.msg = "EOF" THEN ~V.chan[e].eof_sent /\ V1.chan[e].eof_sent
                         ELSE V1.chan[e].eof_sent = V.chan[e].eof_sent
    BY <1>4, <1>5, <2>2, <2>5
  <2>9. /\ V1.chan[e].inbuf = V.chan[e].inbuf
        /\ V1.chan[e].close_requested = V.chan[e].close_requested
        /\ V1.chan[e].close_rcvd = V.chan[e].close_rcvd
        /\ V1.chan[e].outbuf_off = V.chan[e].outbuf_off
        /\ V1.chan[e].close_sent = V.chan[e].close_sent
    BY <1>4, <2>5
  <2>10. EndsInv(V1, id, e, p) /\ EndsInv(V1, id, p, e)
    BY <2>2, <2>5, <2>6, <2>7, <2>8, <2>9, ShipStep
  <2> QED
    BY <2>3, <2>4, <2>10 DEF c
<1>6. CASE ~(old.eof_requested /\ ~old.eof_sent)
  <2>1. c = old
    BY <1>1, <1>3, <1>4, <1>6 DEF SlotInv, Channel
  <2>2. V.wire[e] \o msgs = V.wire[e]
    BY <1>1, <1>6, ConcatEmptySeq
  <2>3. Mid(V, V, e, c, V.wire[e] \o msgs)
    BY <2>1, <2>2 DEF Mid
  <2> QED
    BY <2>3 DEF c
<1> QED
  BY <1>5, <1>6

(* The CLOSE leaves, if it is due. *)
LEMMA CloseStep ==
  ASSUME NEW id \in Id, NEW e \in Endpoint, NEW p \in Endpoint, p # e, NEW V \in View,
         EndsInv(V, id, e, p), EndsInv(V, id, p, e), Tracked(V, e),
         NEW old, old = V.chan[e],
         NEW msgs, msgs = IF old.close_requested /\ ~old.close_sent
                            THEN <<Control("CLOSE", id, 0)>> ELSE <<>>
  PROVE  \E V1 \in View :
           /\ Mid(V, V1, e, [old EXCEPT !.close_sent = old.close_requested], V.wire[e] \o msgs)
           /\ EndsInv(V1, id, e, p) /\ EndsInv(V1, id, p, e)
<1>1. old \in Channel /\ V.wire[e] \in Seq(Message)
  BY DEF View
<1>2. EndInv(V, id, e)
  BY DEF EndsInv
<1>3. SlotInv(old, V.accepted[e], V.closed[e])
  BY <1>2, EndParts
<1> DEFINE c == [old EXCEPT !.close_sent = old.close_requested]
<1>4. /\ c \in Channel /\ c.in_use = old.in_use /\ c.inbuf = old.inbuf
      /\ c.sink = old.sink
      /\ c.written = old.written /\ c.flush_mark = old.flush_mark
      /\ c.outbuf_off = old.outbuf_off
      /\ c.eof_requested = old.eof_requested /\ c.eof_sent = old.eof_sent
      /\ c.close_requested = old.close_requested /\ c.close_sent = old.close_requested
      /\ c.close_rcvd = old.close_rcvd /\ c.remote_eof = old.remote_eof
      /\ old.close_sent = old.close_requested => c = old
  BY <1>1 DEF Channel
<1> HIDE DEF c
<1>5. CASE old.close_requested /\ ~old.close_sent
  <2>1. PICK m : m = Control("CLOSE", id, 0)
    OBVIOUS
  <2>2. m \in Message /\ m.msg = "CLOSE" /\ m.id = id
    BY <2>1, MessageFacts DEF MsgKind
  <2>3. V.wire[e] \o msgs = Append(V.wire[e], m) /\ Append(V.wire[e], m) \in Seq(Message)
    BY <1>1, <1>5, <2>1, <2>2, AppendTwo
  <2>4. PICK V1 \in View : Mid(V, V1, e, c, Append(V.wire[e], m))
    BY <1>4, <2>3, MidView
  <2>5. /\ V1.chan[e] = c /\ V1.wire[e] = Append(V.wire[e], m)
        /\ V1.chan[p] = V.chan[p] /\ V1.wire[p] = V.wire[p]
        /\ V1.accepted = V.accepted /\ V1.delivered = V.delivered
        /\ V1.told = V.told /\ V1.closed = V.closed /\ V1.known = V.known
    BY <2>4 DEF Mid
  <2>6. Tracked(V1, e)
    BY <1>4, <2>5 DEF Tracked
  <2>7. EndInv(V1, id, e)
    <3>2. SlotInv(c, V.accepted[e], V.closed[e])
      BY <1>3, <1>4, <1>5 DEF SlotInv
    <3> QED
      BY <1>2, <1>4, <2>5, <3>2, SlotEnd
  <2>8. IF m.msg = "CLOSE"
          THEN ~V.chan[e].close_sent /\ V1.chan[e].close_sent /\ V1.chan[e].close_requested
          ELSE V1.chan[e].close_sent = V.chan[e].close_sent
    BY <1>4, <1>5, <2>2, <2>5
  <2>9. /\ V1.chan[e].inbuf = V.chan[e].inbuf
        /\ V1.chan[e].close_requested = V.chan[e].close_requested
        /\ V1.chan[e].close_rcvd = V.chan[e].close_rcvd
        /\ V1.chan[e].outbuf_off = V.chan[e].outbuf_off
        /\ V1.chan[e].eof_sent = V.chan[e].eof_sent
    BY <1>4, <2>5
  <2>10. EndsInv(V1, id, e, p) /\ EndsInv(V1, id, p, e)
    BY <2>2, <2>5, <2>6, <2>7, <2>8, <2>9, ShipStep
  <2> QED
    BY <2>3, <2>4, <2>10 DEF c
<1>6. CASE ~(old.close_requested /\ ~old.close_sent)
  <2>1. c = old
    BY <1>1, <1>3, <1>4, <1>6 DEF SlotInv, Channel
  <2>2. V.wire[e] \o msgs = V.wire[e]
    BY <1>1, <1>6, ConcatEmptySeq
  <2>3. Mid(V, V, e, c, V.wire[e] \o msgs)
    BY <2>1, <2>2 DEF Mid
  <2> QED
    BY <2>3 DEF c
<1> QED
  BY <1>5, <1>6

(* The scheduler ships bytes of one channel. *)
LEMMA EmitDataOrder ==
  ASSUME TypeInv, TypeInv', UniqueIds, OrderInv, NEW e \in Endpoint, EmitData(e)
  PROVE  OrderInv'
<1> DEFINE p == Peer(e)
<1>1. p \in Endpoint /\ p # e /\ p = Peer(e)
  BY PeerEndpoint
<1> HIDE DEF p
<1> PICK s : s = PumpSlot(e)
  OBVIOUS
<1> PICK old : old = channels[e][s]
  OBVIOUS
<1> PICK id : id = old.id
  OBVIOUS
<1> PICK n : n = Chunk(old)
  OBVIOUS
<1>2. s \in Slot /\ old.in_use
  BY PumpSlotType DEF EmitData, TypeInv
<1>3. /\ old \in Channel /\ id \in Id /\ s \in Lookup(e, id) /\ Chan(e, id) = old
      /\ SlotInv(old, accepted[e][id], id \in closers[e])
  BY <1>2, SlotFacts, SlotHolds
<1>4. n \in Nat /\ n > 0 /\ n <= Pending(old)
  BY <1>3, ChunkBound DEF EmitData
<1>5. PICK m : m = Data(id, NextBytes(old, n))
  OBVIOUS
<1>6. /\ m \in Message /\ m.msg = "DATA" /\ m.id = id
      /\ m.data = [k \in 1 .. n |-> old.outbuf_off + k]
  <2>1. \A k \in 1 .. n : old.outbuf_off + k \in Nat
    BY <1>3 DEF Channel
  <2>2. NextBytes(old, n) \in Seq(Nat)
    BY <1>4, <2>1 DEF NextBytes
  <2>3. m.data = NextBytes(old, n)
    BY <1>3, <1>5, <2>2, MessageFacts
  <2> QED
    BY <1>3, <1>5, <2>2, <2>3, MessageFacts DEF NextBytes
<1>7. PICK c : c = [old EXCEPT !.outbuf_off = old.outbuf_off + n, !.send_window = @ - n]
  OBVIOUS
<1>8. /\ SetChannel(e, s, c) /\ Ship(e, <<m>>)
      /\ UNCHANGED <<next_dynamic_offset, accepted, delivered, told, closers>>
  BY <1>5, <1>7 DEF EmitData
<1>9. /\ c.in_use = old.in_use /\ c.id = old.id /\ c.inbuf = old.inbuf /\ c.sink = old.sink
      /\ c.written = old.written /\ c.flush_mark = old.flush_mark
      /\ c.outbuf_off = old.outbuf_off + n
      /\ c.eof_requested = old.eof_requested /\ c.eof_sent = old.eof_sent
      /\ c.close_requested = old.close_requested /\ c.close_sent = old.close_sent
      /\ c.close_rcvd = old.close_rcvd /\ c.remote_eof = old.remote_eof
  BY <1>3, <1>7 DEF Channel
<1>10. /\ old.outbuf_off \in Nat /\ old.flush_mark \in Nat /\ old.written \in Nat
       /\ old.outbuf_off + n <= old.flush_mark
  BY <1>3, <1>4 DEF Channel, Pending
<1>11. ~old.eof_sent /\ ~old.close_requested
  BY <1>3, <1>4, <1>10 DEF SlotInv
<1>12. SlotInv(c, accepted[e][id], id \in closers[e])
  BY <1>3, <1>9, <1>10, <1>11 DEF SlotInv
<1>13. Carries(m, id, old.outbuf_off, c.outbuf_off)
  BY <1>4, <1>6, <1>9, <1>10 DEF Carries
<1>14. wire'[e] = Append(wire[e], m) /\ wire'[p] = wire[p] /\ OwnStep(e, id, s, c)
  <2>1. wire'[e] = wire[e] \o <<m>> /\ wire'[p] = wire[p]
    BY <1>1, <1>8, TypeInvUse DEF Ship
  <2>2. wire[e] \o <<m>> = Append(wire[e], m)
    BY <1>6, AppendTwo, TypeInvUse
  <2>3. Ours(<<m>>, id)
    BY <1>6 DEF Ours
  <2>4. \A j \in Id \ {id} : \A f \in Endpoint : SameFor(wire[f], wire'[f], j)
    BY <1>8, <2>3, ShipSame
  <2>5. /\ OthersKeep(told, told', e, id) /\ OthersKeep(accepted, accepted', e, id)
        /\ OthersKeep(delivered, delivered', e, id) /\ MayClose(e, id)
    BY <1>8 DEF OthersKeep, MayClose
  <2>6. OwnStep(e, id, s, c)
    BY <1>2, <1>3, <1>8, <1>9, <2>4, <2>5 DEF OwnStep
  <2> QED
    BY <2>1, <2>2, <2>6
<1>15. ASSUME NEW V \in View, NEW V2 \in View, IsView(V, id), IsView(V2, id)',
              EndsInv(V, id, e, p), EndsInv(V, id, p, e)
       PROVE  EndsInv(V2, id, e, p) /\ EndsInv(V2, id, p, e)
  <2>1. /\ V.chan[e] = old /\ V2.chan[e] = c /\ V2.chan[p] = V.chan[p]
        /\ V2.known = V.known /\ V.wire = wire /\ V2.wire = wire'
        /\ V2.accepted = V.accepted /\ V2.delivered = V.delivered
        /\ V2.closed = V.closed /\ V2.told = V.told
        /\ V.accepted[e] = accepted[e][id] /\ (V.closed[e] <=> id \in closers[e])
    BY <1>1, <1>3, <1>8, <1>14, <1>15, StepViews
  <2>2. Tracked(V, e) /\ Tracked(V2, e)
    BY <1>2, <1>9, <2>1 DEF Tracked
  <2>3. V2.wire[e] = Append(V.wire[e], m) /\ V2.wire[p] = V.wire[p]
    BY <1>14, <2>1
  <2>4. EndInv(V2, id, e)
    <3>1. EndInv(V, id, e)
      BY <1>15 DEF EndsInv
    <3>2. SlotInv(V2.chan[e], V2.accepted[e], V2.closed[e])
      BY <1>12, <2>1 DEF SlotInv
    <3> QED
      BY <1>9, <2>1, <2>2, <3>1, <3>2, SlotEnd
  <2>5. IF m.msg = "DATA"
          THEN /\ ~V.chan[e].eof_sent /\ ~V.chan[e].close_requested
               /\ Carries(m, id, V.chan[e].outbuf_off, V2.chan[e].outbuf_off)
          ELSE V2.chan[e].outbuf_off = V.chan[e].outbuf_off
    BY <1>6, <1>11, <1>13, <2>1
  <2>6. /\ V2.chan[e].inbuf = V.chan[e].inbuf
        /\ V2.chan[e].close_requested = V.chan[e].close_requested
        /\ V2.chan[e].close_rcvd = V.chan[e].close_rcvd
        /\ V2.chan[e].eof_sent = V.chan[e].eof_sent
        /\ V2.chan[e].close_sent = V.chan[e].close_sent
    BY <1>9, <2>1
  <2> QED
    BY <1>1, <1>6, <1>15, <2>1, <2>2, <2>3, <2>4, <2>5, <2>6, ShipStep
<1>16. OnlyChannel(id)
  BY <1>3, <1>14, OwnEnd
<1> QED
  BY <1>1, <1>3, <1>15, <1>16, OneChannel

(* Messages are appended in any grouping. *)
LEMMA JoinMessages ==
  ASSUME NEW a \in Seq(Message), NEW b \in Seq(Message), NEW c \in Seq(Message)
  PROVE  (a \o b) \o c = a \o (b \o c)
  BY ConcatAssociative

(* The last of the steps an action consists of. *)
LEMMA LastStep ==
  ASSUME NEW id, NEW e \in Endpoint, NEW p \in Endpoint, p # e,
         NEW V1 \in View, NEW V2 \in View, EndsInv(V1, id, e, p), EndsInv(V1, id, p, e),
         Tracked(V1, e), V2.chan[e] = MaybeRelease(V1.chan[e]), V2.chan[p] = V1.chan[p],
         V2.wire[e] = V1.wire[e], V2.wire[p] = V1.wire[p],
         V2.accepted = V1.accepted, V2.delivered = V1.delivered,
         V2.told = V1.told, V2.closed = V1.closed, V2.known = V1.known
  PROVE  EndsInv(V2, id, e, p) /\ EndsInv(V2, id, p, e)
<1>1. \A f \in Endpoint \ {e} : f = p
  BY DEF Endpoint
<1>2. Mid(V1, V2, e, MaybeRelease(V1.chan[e]), V1.wire[e])
  BY <1>1 DEF Mid
<1> QED
  BY <1>2, ReleaseStep

(* The scheduler ships the seals of a drained channel and may free it. *)
LEMMA EmitSealsOrder ==
  ASSUME TypeInv, TypeInv', UniqueIds, OrderInv, NEW e \in Endpoint, EmitSeals(e)
  PROVE  OrderInv'
<1> DEFINE p == Peer(e)
<1>1. p \in Endpoint /\ p # e /\ p = Peer(e)
  BY PeerEndpoint
<1> HIDE DEF p
<1> PICK s : s = PumpSlot(e)
  OBVIOUS
<1> PICK old : old = channels[e][s]
  OBVIOUS
<1> PICK id : id = old.id
  OBVIOUS
<1>2. s \in Slot /\ old.in_use /\ Drained(old)
  BY PumpSlotType DEF EmitSeals, TypeInv
<1>3. old \in Channel /\ id \in Id /\ s \in Lookup(e, id) /\ Chan(e, id) = old
  BY <1>2, SlotFacts
<1>4. PICK k : k = IF old.eof_requested /\ ~old.eof_sent
                     THEN <<Control("EOF", id, 0)>> ELSE <<>>
  OBVIOUS
<1>5. PICK l : l = IF old.close_requested /\ ~old.close_sent
                     THEN <<Control("CLOSE", id, 0)>> ELSE <<>>
  OBVIOUS
<1>6. PICK d : d = [old EXCEPT !.eof_sent = old.eof_requested]
  OBVIOUS
<1>7. PICK g : g = [old EXCEPT !.eof_sent = old.eof_requested,
                               !.close_sent = old.close_requested]
  OBVIOUS
<1>8. /\ SetChannel(e, s, MaybeRelease(g)) /\ Ship(e, k \o l)
      /\ UNCHANGED <<next_dynamic_offset, accepted, delivered, told, closers>>
  BY <1>4, <1>5, <1>7 DEF EmitSeals
<1>9. /\ d.close_requested = old.close_requested /\ d.close_sent = old.close_sent
      /\ g = [d EXCEPT !.close_sent = d.close_requested]
      /\ d.in_use /\ g.in_use /\ g.id = id
  BY <1>2, <1>3, <1>6, <1>7 DEF Channel
<1>10. /\ Control("EOF", id, 0) \in Message /\ Control("CLOSE", id, 0) \in Message
       /\ Control("EOF", id, 0).id = id /\ Control("CLOSE", id, 0).id = id
  BY <1>3, MessageFacts DEF MsgKind
<1>11. k \in Seq(Message) /\ l \in Seq(Message)
  BY <1>4, <1>5, <1>10, EmptyType
<1>12. Ours(k \o l, id)
  <2>1. l = <<>> => k \o l = k
    BY <1>11, ConcatEmptySeq
  <2>2. k = <<>> => k \o l = l
    BY <1>11, ConcatEmptySeq
  <2> QED
    BY <1>4, <1>5, <1>10, <2>1, <2>2 DEF Ours
<1>13. OwnStep(e, id, s, MaybeRelease(g))
  <2>1. \A j \in Id \ {id} : \A f \in Endpoint : SameFor(wire[f], wire'[f], j)
    BY <1>8, <1>12, ShipSame
  <2>2. /\ OthersKeep(told, told', e, id) /\ OthersKeep(accepted, accepted', e, id)
        /\ OthersKeep(delivered, delivered', e, id) /\ MayClose(e, id)
    BY <1>8 DEF OthersKeep, MayClose
  <2>3. MaybeRelease(g) = FreeChannel \/ (MaybeRelease(g).in_use /\ MaybeRelease(g).id = id)
    BY <1>9, ReleaseFacts
  <2> QED
    BY <1>3, <1>8, <2>1, <2>2, <2>3 DEF OwnStep
<1>14. wire'[e] = (wire[e] \o k) \o l /\ wire'[p] = wire[p]
  <2>1. wire'[e] = wire[e] \o (k \o l) /\ wire'[p] = wire[p]
    BY <1>1, <1>8, TypeInvUse DEF Ship
  <2>2. wire[e] \in Seq(Message)
    BY TypeInvUse
  <2> QED
    BY <1>11, <2>1, <2>2, JoinMessages
<1>15. ASSUME NEW V \in View, NEW V2 \in View, IsView(V, id), IsView(V2, id)',
              EndsInv(V, id, e, p), EndsInv(V, id, p, e)
       PROVE  EndsInv(V2, id, e, p) /\ EndsInv(V2, id, p, e)
  <2>1. /\ V.chan[e] = old /\ V2.chan[e] = MaybeRelease(g) /\ V2.chan[p] = V.chan[p]
        /\ V2.known = V.known /\ V.wire = wire /\ V2.wire = wire'
        /\ V2.accepted = V.accepted /\ V2.delivered = V.delivered
        /\ V2.closed = V.closed /\ V2.told = V.told
    BY <1>1, <1>3, <1>8, <1>13, <1>15, StepViews
  <2>2. Tracked(V, e)
    BY <1>2, <2>1 DEF Tracked
  <2>3. PICK V1 \in View : /\ Mid(V, V1, e, d, V.wire[e] \o k)
                           /\ EndsInv(V1, id, e, p) /\ EndsInv(V1, id, p, e)
    BY <1>1, <1>2, <1>3, <1>4, <1>6, <1>15, <2>1, <2>2, EofStep
  <2>4. /\ V1.chan[e] = d /\ V1.wire[e] = V.wire[e] \o k
        /\ V1.chan[p] = V.chan[p] /\ V1.wire[p] = V.wire[p]
        /\ V1.accepted = V.accepted /\ V1.delivered = V.delivered
        /\ V1.told = V.told /\ V1.closed = V.closed /\ V1.known = V.known
    BY <1>1, <2>3 DEF Mid
  <2>5. Tracked(V1, e)
    BY <1>9, <2>4 DEF Tracked
  <2>6. l = IF d.close_requested /\ ~d.close_sent THEN <<Control("CLOSE", id, 0)>> ELSE <<>>
    BY <1>5, <1>9
  <2>7. PICK V3 \in View : /\ Mid(V1, V3, e, g, V1.wire[e] \o l)
                           /\ EndsInv(V3, id, e, p) /\ EndsInv(V3, id, p, e)
    BY <1>1, <1>3, <1>9, <2>3, <2>4, <2>5, <2>6, CloseStep
  <2>8. /\ V3.chan[e] = g /\ V3.wire[e] = V1.wire[e] \o l
        /\ V3.chan[p] = V1.chan[p] /\ V3.wire[p] = V1.wire[p]
        /\ V3.accepted = V1.accepted /\ V3.delivered = V1.delivered
        /\ V3.told = V1.told /\ V3.closed = V1.closed /\ V3.known = V1.known
    BY <1>1, <2>7 DEF Mid
  <2>9. Tracked(V3, e)
    BY <1>9, <2>8 DEF Tracked
  <2>10. V2.wire[e] = V3.wire[e] /\ V2.wire[p] = V3.wire[p]
    BY <1>14, <2>1, <2>4, <2>8
  <2>11. /\ V2.chan[e] = MaybeRelease(V3.chan[e]) /\ V2.chan[p] = V3.chan[p]
         /\ V2.accepted = V3.accepted /\ V2.delivered = V3.delivered
         /\ V2.told = V3.told /\ V2.closed = V3.closed /\ V2.known = V3.known
    BY <2>1, <2>4, <2>8
  <2> QED
    BY <1>1, <2>7, <2>9, <2>10, <2>11, LastStep
<1>16. OnlyChannel(id)
  BY <1>3, <1>13, OwnEnd
<1> QED
  BY <1>1, <1>3, <1>15, <1>16, OneChannel

(* The CLOSE of the peer is noted and told. *)
TakenClose(V, V1, e, p) ==
  /\ V1.chan[e] = [V.chan[e] EXCEPT !.close_rcvd = TRUE] /\ V1.chan[p] = V.chan[p]
  /\ V1.wire[p] = Tail(V.wire[p]) /\ V1.wire[e] = V.wire[e]
  /\ V1.told[e] = Append(V.told[e], "CLOSED") /\ V1.told[p] = V.told[p]
  /\ V1.accepted = V.accepted /\ V1.delivered = V.delivered
  /\ V1.closed = V.closed /\ V1.known = V.known

LEMMA TakeCloseStep ==
  ASSUME NEW id, NEW e \in Endpoint, NEW p \in Endpoint, p # e, NEW V \in View,
         EndsInv(V, id, e, p), EndsInv(V, id, p, e), Tracked(V, e), V.chan[e].close_sent,
         NEW m, m = Head(V.wire[p]), V.wire[p] # <<>>, m.id = id, m.msg = "CLOSE"
  PROVE  \E V1 \in View : /\ TakenClose(V, V1, e, p)
                          /\ EndsInv(V1, id, e, p) /\ EndsInv(V1, id, p, e)
<1>1. /\ V.chan[e] \in Channel /\ V.wire[p] \in Seq(Message)
      /\ V.told[e] \in Seq({"REMOTE_EOF", "CLOSED"})
  BY DEF View
<1>2. PICK c : c = [V.chan[e] EXCEPT !.close_rcvd = TRUE]
  OBVIOUS
<1>3. PICK t : t = Tail(V.wire[p])
  OBVIOUS
<1>4. PICK h : h = Append(V.told[e], "CLOSED")
  OBVIOUS
<1>5. c \in Channel /\ t \in Seq(Message) /\ h \in Seq({"REMOTE_EOF", "CLOSED"})
  <2>1. c \in Channel
    BY <1>1, <1>2 DEF Channel
  <2>2. t \in Seq(Message)
    BY <1>1, <1>3, HeadTailFacts
  <2>3. h \in Seq({"REMOTE_EOF", "CLOSED"})
    BY <1>1, <1>4
  <2> QED
    BY <2>1, <2>2, <2>3
<1> DEFINE X == [V EXCEPT !.chan = [@ EXCEPT ![e] = c], !.wire = [@ EXCEPT ![p] = t],
                          !.told = [@ EXCEPT ![e] = h]]
<1>6. X \in View
  BY <1>5 DEF View
<1>7. /\ X.chan[e] = c /\ X.chan[p] = V.chan[p] /\ X.wire[p] = t /\ X.wire[e] = V.wire[e]
      /\ X.told[e] = h /\ X.told[p] = V.told[p]
      /\ X.accepted = V.accepted /\ X.delivered = V.delivered
      /\ X.closed = V.closed /\ X.known = V.known
  BY DEF View
<1> HIDE DEF X
<1>8. PICK V1 \in View : V1 = X
  BY <1>6
<1>9. TakenClose(V, V1, e, p)
  BY <1>2, <1>3, <1>4, <1>7, <1>8 DEF TakenClose
<1>10. /\ c.in_use = V.chan[e].in_use /\ c.inbuf = V.chan[e].inbuf /\ c.close_rcvd
       /\ c.sink = V.chan[e].sink /\ c.remote_eof = V.chan[e].remote_eof
       /\ c.written = V.chan[e].written /\ c.flush_mark = V.chan[e].flush_mark
       /\ c.outbuf_off = V.chan[e].outbuf_off
       /\ c.eof_requested = V.chan[e].eof_requested /\ c.eof_sent = V.chan[e].eof_sent
       /\ c.close_requested = V.chan[e].close_requested
       /\ c.close_sent = V.chan[e].close_sent
  BY <1>1, <1>2 DEF Channel
<1>11. Tracked(V1, e)
  BY <1>7, <1>8, <1>10 DEF Tracked
<1>12. \A event : Heard(V1, e, event) <=> Heard(V, e, event) \/ event = "CLOSED"
  <2>1. V1.told[e] = Append(V.told[e], "CLOSED")
    BY <1>4, <1>7, <1>8
  <2> QED
    BY <2>1, AppendHeard
<1>13. EndInv(V, id, e)
  BY DEF EndsInv
<1>14. SlotInv(V1.chan[e], V1.accepted[e], V1.closed[e])
  <2>1. SlotInv(V.chan[e], V.accepted[e], V.closed[e])
    BY <1>13, EndParts
  <2> QED
    BY <1>7, <1>8, <1>10, <2>1 DEF SlotInv
<1>15. EndInv(V1, id, e)
  <2>1. V.chan[e].remote_eof <=> Heard(V, e, "REMOTE_EOF")
    BY <1>13, EndParts
  <2>2. /\ V1.chan[e].close_rcvd <=> Heard(V1, e, "CLOSED")
        /\ V1.chan[e].remote_eof <=> Heard(V1, e, "REMOTE_EOF")
    BY <1>7, <1>8, <1>10, <1>12, <2>1
  <2> QED
    BY <1>14, <2>2, EndParts
<1>16. IF Tracked(V, e) /\ m.msg = "CLOSE"
         THEN V.chan[e].close_sent /\ V1.told[e] = Append(V.told[e], "CLOSED")
       ELSE IF Tracked(V, e) /\ m.msg = "EOF"
         THEN /\ V1.told[e] = Append(V.told[e], "REMOTE_EOF")
              /\ V1.chan[e].close_rcvd = V.chan[e].close_rcvd
         ELSE /\ V1.told[e] = V.told[e]
              /\ V1.chan[e].close_rcvd = V.chan[e].close_rcvd
  BY <1>4, <1>7, <1>8
<1>17. EndsInv(V1, id, e, p) /\ EndsInv(V1, id, p, e)
  BY <1>3, <1>7, <1>8, <1>10, <1>11, <1>15, <1>16, TakeStep
<1> QED
  BY <1>9, <1>17

(* A CLOSE arrives at an end that has not sent its own: it drops what waits  *)
(* and answers.                                                             *)
LEMMA AnswerStep ==
  ASSUME NEW id \in Id, NEW e \in Endpoint, NEW p \in Endpoint, p # e, NEW V \in View,
         EndsInv(V, id, e, p), EndsInv(V, id, p, e), Tracked(V, e),
         NEW old, old = V.chan[e], Has(V.wire[p], "CLOSE", id), ~old.close_sent,
         NEW l, l = <<Control("CLOSE", id, 0)>>
  PROVE  \E V1 \in View :
           /\ Mid(V, V1, e, [DropPending(old) EXCEPT !.close_sent = TRUE], V.wire[e] \o l)
           /\ EndsInv(V1, id, e, p) /\ EndsInv(V1, id, p, e)
<1>1. old \in Channel /\ V.wire[e] \in Seq(Message) /\ V.accepted[e] \in Nat
  BY DEF View
<1>2. PICK d : d = DropPending(old)
  OBVIOUS
<1>3. /\ d \in Channel /\ d.in_use = old.in_use /\ d.inbuf = old.inbuf /\ d.sink = old.sink
      /\ d.written = old.written /\ d.flush_mark = old.written /\ d.outbuf_off = old.written
      /\ d.eof_requested = old.eof_requested /\ d.eof_sent = old.eof_sent
      /\ d.close_requested /\ d.close_sent = old.close_sent
      /\ d.close_rcvd = old.close_rcvd /\ d.remote_eof = old.remote_eof
      /\ d.close_requested = TRUE
  BY ZenonT(40), <1>1, <1>2 DEF Channel, DropPending
<1>4. PICK V1 \in View : Mid(V, V1, e, d, V.wire[e])
  BY <1>1, <1>3, MidView
<1>5. /\ V1.chan[e] = d /\ V1.wire[e] = V.wire[e]
      /\ V1.chan[p] = V.chan[p] /\ V1.wire[p] = V.wire[p]
      /\ V1.accepted = V.accepted /\ V1.delivered = V.delivered
      /\ V1.told = V.told /\ V1.closed = V.closed /\ V1.known = V.known
  BY <1>4 DEF Mid
<1>6. V1.wire = V.wire
  <2>1. \A f \in Endpoint : f = e \/ f = p
    BY DEF Endpoint
  <2>2. \A f \in Endpoint : V1.wire[f] = V.wire[f]
    BY <1>5, <2>1
  <2> QED
    BY <2>2 DEF View
<1>7. Tracked(V1, e) /\ Reached(V1, e) = Reached(V, e)
  BY <1>3, <1>5 DEF Tracked, Reached
<1>8. EndInv(V, id, e)
  BY DEF EndsInv
<1>9. EndInv(V1, id, e)
  <2>1. SlotInv(old, V.accepted[e], V.closed[e])
    BY <1>8, EndParts
  <2>2. old.written \in Nat
    BY <1>1 DEF Channel
  <2>3. SlotInv(d, V.accepted[e], V.closed[e])
    BY <1>3, <2>1, <2>2 DEF SlotInv
  <2>4. SlotInv(V1.chan[e], V1.accepted[e], V1.closed[e])
    BY <1>5, <2>3
  <2> QED
    BY <1>3, <1>5, <1>8, <2>4, SlotEnd
<1>10. SomeoneClosed(V1) \/ Gone(V, id, p, e)
  <2>1. ~Gone(V, id, e, p)
    BY DEF Gone
  <2>2. SomeoneClosed(V1) <=> SomeoneClosed(V)
    BY <1>5 DEF SomeoneClosed
  <2> QED
    BY <2>1, <2>2 DEF EndsInv, ReasonInv
<1>11. /\ V1.chan[e].eof_sent = V.chan[e].eof_sent
       /\ V1.chan[e].close_sent = V.chan[e].close_sent
       /\ V1.chan[e].close_rcvd = V.chan[e].close_rcvd
       /\ V1.chan[e].close_requested
  BY <1>3, <1>5
<1>12. V1.accepted[e] >= V.accepted[e]
  BY <1>1, <1>5
<1>13. EndsInv(V1, id, e, p) /\ EndsInv(V1, id, p, e)
  BY <1>5, <1>6, <1>7, <1>9, <1>10, <1>11, <1>12, LocalStep
<1>14. l = IF d.close_requested /\ ~d.close_sent THEN <<Control("CLOSE", id, 0)>> ELSE <<>>
  BY <1>3
<1>15. PICK V2 \in View :
         /\ Mid(V1, V2, e, [d EXCEPT !.close_sent = d.close_requested], V1.wire[e] \o l)
         /\ EndsInv(V2, id, e, p) /\ EndsInv(V2, id, p, e)
  BY <1>5, <1>7, <1>13, <1>14, CloseStep
<1>16. [d EXCEPT !.close_sent = d.close_requested] = [d EXCEPT !.close_sent = TRUE]
  BY <1>3
<1>17. Mid(V, V2, e, [d EXCEPT !.close_sent = TRUE], V.wire[e] \o l)
  <2>1. \A f \in Endpoint \ {e} : f = p
    BY DEF Endpoint
  <2> QED
    BY <1>5, <1>15, <1>16, <2>1 DEF Mid
<1> QED
  BY <1>2, <1>15, <1>17

(* A CLOSE of a channel the endpoint tracks arrives. *)
LEMMA RecvCloseOrder ==
  ASSUME TypeInv, TypeInv', UniqueIds, OrderInv, NEW e \in Endpoint, RecvClose(e)
  PROVE  OrderInv'
<1> DEFINE p == Peer(e)
<1>1. p \in Endpoint /\ p # e /\ p = Peer(e)
  BY PeerEndpoint
<1> HIDE DEF p
<1> PICK m : m = Head(Inbound(e))
  OBVIOUS
<1> PICK id : id = m.id
  OBVIOUS
<1>2. PICK s \in Lookup(e, id) :
        LET c == [channels[e][s] EXCEPT !.close_rcvd = TRUE]
        IN  /\ SetChannel(e, s, MaybeRelease(
                  IF c.close_sent THEN c ELSE [DropPending(c) EXCEPT !.close_sent = TRUE]))
            /\ TakeAndShip(e, CloseReply(c))
  BY DEF RecvClose
<1> PICK old : old = channels[e][s]
  OBVIOUS
<1>3. /\ s \in Slot /\ old.in_use /\ old.id = id /\ old \in Channel /\ id \in Id
      /\ Chan(e, id) = old
  BY <1>2, LookupFacts, SlotFacts
<1>4. PICK c : c = [old EXCEPT !.close_rcvd = TRUE]
  OBVIOUS
<1>5. /\ c.close_sent = old.close_sent /\ c.id = id /\ c.in_use /\ c \in Channel
  BY <1>3, <1>4 DEF Channel
<1>6. PICK b : b = IF old.close_sent THEN old ELSE [DropPending(old) EXCEPT !.close_sent = TRUE]
  OBVIOUS
<1>7. PICK g : g = [b EXCEPT !.close_rcvd = TRUE]
  OBVIOUS
<1>8. PICK l : l = IF old.close_sent THEN <<>> ELSE <<Control("CLOSE", id, 0)>>
  OBVIOUS
<1>9. /\ b \in Channel /\ b.in_use /\ b.close_sent /\ g.in_use /\ g.id = id
      /\ g = IF c.close_sent THEN c ELSE [DropPending(c) EXCEPT !.close_sent = TRUE]
  <2>1. CASE old.close_sent
    BY <1>3, <1>4, <1>5, <1>6, <1>7, <2>1 DEF Channel
  <2>2. CASE ~old.close_sent
    <3>1. DropPending(old) \in Channel /\ DropPending(c) \in Channel
      BY <1>3, <1>5 DEF Channel, DropPending
    <3>2. b = [DropPending(old) EXCEPT !.close_sent = TRUE]
      BY <1>6, <2>2
    <3>3. /\ DropPending(old).in_use = old.in_use /\ DropPending(old).id = old.id
          /\ DropPending(c) = [DropPending(old) EXCEPT !.close_rcvd = TRUE]
      BY <1>3, <1>4 DEF Channel, DropPending
    <3>4. PICK d : d = DropPending(old)
      OBVIOUS
    <3>5. /\ d \in Channel /\ d.in_use = old.in_use /\ d.id = old.id
          /\ b = [d EXCEPT !.close_sent = TRUE]
          /\ DropPending(c) = [d EXCEPT !.close_rcvd = TRUE]
      BY <3>1, <3>2, <3>3, <3>4
    <3>6. b \in Channel /\ b.in_use /\ b.close_sent /\ g.in_use /\ g.id = id
      BY <1>3, <1>7, <3>5 DEF Channel
    <3>7. g = [[d EXCEPT !.close_rcvd = TRUE] EXCEPT !.close_sent = TRUE]
      BY <1>7, <3>5 DEF Channel
    <3>8. ~c.close_sent
      BY <1>5, <2>2
    <3> QED
      BY <3>5, <3>6, <3>7, <3>8
  <2> QED
    BY <2>1, <2>2
<1>10. SetChannel(e, s, MaybeRelease(g)) /\ TakeAndShip(e, l)
  BY <1>2, <1>4, <1>5, <1>8, <1>9 DEF CloseReply
<1>11. told' = [told EXCEPT ![e][id] = Append(told[e][id], "CLOSED")]
  BY DEF RecvClose, Tell
<1>12. /\ Inbound(e) # <<>> /\ m.msg = "CLOSE"
       /\ UNCHANGED <<next_dynamic_offset, accepted, delivered, closers>>
  BY DEF RecvClose, Arriving
<1>13. /\ OwnStep(e, id, s, MaybeRelease(g))
       /\ wire'[e] = wire[e] \o l /\ wire'[p] = Tail(wire[p])
  <2>1. Ours(l, id)
    <3>1. /\ Control("CLOSE", id, 0) \in Message /\ Control("CLOSE", id, 0).id = id
      BY <1>3, MessageFacts DEF MsgKind
    <3> QED
      BY <1>8, <3>1 DEF Ours
  <2>2. OthersKeep(told, told', e, id)
    BY <1>11, KeepsOthers
  <2>3. OthersKeep(delivered, delivered', e, id)
    BY <1>12 DEF OthersKeep
  <2>4. Takes(e, id, l)
    BY <1>10, <1>12, <2>1, <2>2, <2>3 DEF Takes
  <2>5. MaybeRelease(g) = FreeChannel \/ (MaybeRelease(g).in_use /\ MaybeRelease(g).id = id)
    BY <1>9, ReleaseFacts
  <2>6. LeavesSlot(e, id, s, MaybeRelease(g))
    BY <1>10, <2>5 DEF LeavesSlot
  <2> QED
    BY <1>1, <1>3, <2>4, <2>6, TakeOwn
<1>14. told'[e][id] = Append(told[e][id], "CLOSED")
  BY <1>3, <1>11, TypeInvUse
<1>15. m = Head(wire[p]) /\ wire[p] # <<>>
  BY <1>1, <1>12 DEF Inbound
<1>16. wire[e] \in Seq(Message) /\ wire[p] \in Seq(Message)
  BY <1>1, TypeInvUse
<1>17. ASSUME NEW V \in View, NEW V2 \in View, IsView(V, id), IsView(V2, id)',
              EndsInv(V, id, e, p), EndsInv(V, id, p, e)
       PROVE  EndsInv(V2, id, e, p) /\ EndsInv(V2, id, p, e)
  <2>1. /\ V.chan[e] = old /\ V2.chan[e] = MaybeRelease(g) /\ V2.chan[p] = V.chan[p]
        /\ V2.known = V.known /\ V.wire = wire /\ V2.wire = wire'
        /\ V2.accepted = V.accepted /\ V2.delivered = V.delivered
        /\ V2.closed = V.closed /\ V2.told[p] = V.told[p]
        /\ V.told[e] = told[e][id] /\ V2.told[e] = told'[e][id]
    BY <1>1, <1>3, <1>12, <1>13, <1>17, StepViews
  <2>2. Tracked(V, e)
    BY <1>3, <2>1 DEF Tracked
  <2>3. PICK V1 \in View : /\ Mid(V, V1, e, b, V.wire[e] \o l)
                           /\ EndsInv(V1, id, e, p) /\ EndsInv(V1, id, p, e)
    <3>1. CASE old.close_sent
      <4>1. V.wire[e] \o l = V.wire[e]
        BY <1>8, <1>16, <2>1, <3>1, ConcatEmptySeq
      <4>2. Mid(V, V, e, b, V.wire[e] \o l)
        BY <1>6, <2>1, <3>1, <4>1 DEF Mid
      <4> QED
        BY <1>17, <4>2
    <3>2. CASE ~old.close_sent
      <4>1. Has(V.wire[p], "CLOSE", id)
        BY <1>12, <1>15, <1>16, <2>1, TailHas
      <4>2. /\ b = [DropPending(old) EXCEPT !.close_sent = TRUE]
            /\ l = <<Control("CLOSE", id, 0)>>
        BY <1>6, <1>8, <3>2
      <4>3. old = V.chan[e]
        BY <2>1
      <4> QED
        BY <1>1, <1>3, <1>17, <2>2, <3>2, <4>1, <4>2, <4>3, AnswerStep
    <3> QED
      BY <3>1, <3>2
  <2>4. /\ V1.chan[e] = b /\ V1.wire[e] = V.wire[e] \o l
        /\ V1.chan[p] = V.chan[p] /\ V1.wire[p] = V.wire[p]
        /\ V1.accepted = V.accepted /\ V1.delivered = V.delivered
        /\ V1.told = V.told /\ V1.closed = V.closed /\ V1.known = V.known
    BY <1>1, <2>3 DEF Mid
  <2>5. Tracked(V1, e) /\ V1.chan[e].close_sent
    BY <1>9, <2>4 DEF Tracked
  <2>6. m = Head(V1.wire[p]) /\ V1.wire[p] # <<>> /\ m.id = id /\ m.msg = "CLOSE"
    BY <1>12, <1>15, <2>1, <2>4
  <2>7. PICK V3 \in View : /\ TakenClose(V1, V3, e, p)
                           /\ EndsInv(V3, id, e, p) /\ EndsInv(V3, id, p, e)
    BY <1>1, <2>3, <2>5, <2>6, TakeCloseStep
  <2>8. /\ V3.chan[e] = g /\ V3.chan[p] = V1.chan[p]
        /\ V3.wire[p] = Tail(V1.wire[p]) /\ V3.wire[e] = V1.wire[e]
        /\ V3.told[e] = Append(V1.told[e], "CLOSED") /\ V3.told[p] = V1.told[p]
        /\ V3.accepted = V1.accepted /\ V3.delivered = V1.delivered
        /\ V3.closed = V1.closed /\ V3.known = V1.known
    BY <1>7, <2>4, <2>7 DEF TakenClose
  <2>9. Tracked(V3, e)
    BY <1>9, <2>8 DEF Tracked
  <2>10. V2.told = V3.told
    <3>1. \A f \in Endpoint : f = e \/ f = p
      BY <1>1 DEF Endpoint
    <3>2. V2.told[e] = V3.told[e] /\ V2.told[p] = V3.told[p]
      BY <1>14, <2>1, <2>4, <2>8
    <3>3. \A f \in Endpoint : V2.told[f] = V3.told[f]
      BY <3>1, <3>2
    <3> QED
      BY <3>3 DEF View
  <2>11. V2.wire[e] = V3.wire[e] /\ V2.wire[p] = V3.wire[p]
    BY <1>13, <2>1, <2>4, <2>8
  <2>12. /\ V2.chan[e] = MaybeRelease(V3.chan[e]) /\ V2.chan[p] = V3.chan[p]
         /\ V2.accepted = V3.accepted /\ V2.delivered = V3.delivered
         /\ V2.closed = V3.closed /\ V2.known = V3.known
    BY <2>1, <2>4, <2>8
  <2> QED
    BY <1>1, <2>7, <2>9, <2>10, <2>11, <2>12, LastStep
<1>18. OnlyChannel(id)
  BY <1>3, <1>13, OwnEnd
<1> QED
  BY <1>1, <1>3, <1>17, <1>18, OneChannel

(* What was delivered and what is buffered grow by data. *)
Gains(d2, b2, d, b, data) == d2 \o b2 = (d \o b) \o data

(* DATA of a channel the endpoint tracks: the slot is left as g, the bytes    *)
(* wait in its buffer or are handed to the consumer, and a grant may go out.  *)
LEMMA DataAction ==
  ASSUME TypeInv, TypeInv', UniqueIds, OrderInv, NEW e \in Endpoint,
         NEW m, m = Head(Inbound(e)), Inbound(e) # <<>>, m.msg = "DATA",
         NEW id \in Id, id = m.id, NEW s \in Lookup(e, id), NEW old, old = channels[e][s],
         NEW g, KeepsSlot(old, g), g.sink = "push" => g.inbuf = <<>>,
         NEW msgs, GrantOnly(msgs, id), SetChannel(e, s, g), TakeAndShip(e, msgs),
         UNCHANGED <<next_dynamic_offset, accepted, told, closers>>,
         OthersKeep(delivered, delivered', e, id),
         Gains(delivered'[e][id], g.inbuf, delivered[e][id], old.inbuf, m.data)
  PROVE  OrderInv'
<1> DEFINE p == Peer(e)
<1>1. p \in Endpoint /\ p # e /\ p = Peer(e)
  BY PeerEndpoint
<1>0. m = Head(wire[p]) /\ wire[p] # <<>>
  BY DEF Inbound
<1> HIDE DEF p
<1>2. s \in Slot /\ old.in_use /\ g.in_use /\ g.id = id
  BY LookupFacts DEF KeepsSlot
<1>3. OthersKeep(told, told', e, id)
  BY DEF OthersKeep
<1>4. /\ OwnStep(e, id, s, g)
      /\ wire'[e] = wire[e] \o msgs /\ wire'[p] = Tail(wire[p])
  <2>1. Ours(msgs, id) /\ Head(Inbound(e)).id = id
    BY DEF Ours, GrantOnly
  <2>2. Takes(e, id, msgs)
    BY <1>3, <2>1 DEF Takes
  <2>3. LeavesSlot(e, id, s, g)
    BY <1>2 DEF LeavesSlot
  <2> QED
    BY <1>1, <2>2, <2>3, TakeOwn
<1>5. UNCHANGED <<accepted, told, closers>>
  OBVIOUS
<1>6. SlotInv(old, accepted[e][id], id \in closers[e])
  BY <1>2, LookupFacts, SlotHolds
<1>7. SlotInv(g, accepted[e][id], id \in closers[e])
  BY <1>6 DEF KeepsSlot, SlotInv
<1>8. ASSUME NEW V \in View, NEW V2 \in View, IsView(V, id), IsView(V2, id)',
             EndsInv(V, id, e, p), EndsInv(V, id, p, e)
      PROVE  EndsInv(V2, id, e, p) /\ EndsInv(V2, id, p, e)
  <2>1. /\ V.chan[e] = old /\ V2.chan[e] = g /\ V2.chan[p] = V.chan[p]
        /\ V2.known = V.known /\ V.wire = wire /\ V2.wire = wire'
        /\ V2.accepted = V.accepted /\ V2.delivered[p] = V.delivered[p]
        /\ V2.closed = V.closed /\ V2.told = V.told
        /\ V.delivered[e] = delivered[e][id] /\ V2.delivered[e] = delivered'[e][id]
        /\ V.accepted[e] = accepted[e][id] /\ (V.closed[e] <=> id \in closers[e])
    BY <1>1, <1>4, <1>5, <1>8, StepViews
  <2>2. Tracked(V, e) /\ Tracked(V2, e)
    BY <1>2, <2>1 DEF Tracked
  <2>3. PICK V1 \in View : /\ Mid(V, V1, e, V.chan[e], V.wire[e] \o msgs)
                           /\ EndsInv(V1, id, e, p) /\ EndsInv(V1, id, p, e)
    BY <1>1, <1>8, <2>2, GrantStep
  <2>4. /\ V1.chan[e] = old /\ V1.wire[e] = V.wire[e] \o msgs
        /\ V1.chan[p] = V.chan[p] /\ V1.wire[p] = V.wire[p]
        /\ V1.accepted = V.accepted /\ V1.delivered = V.delivered
        /\ V1.told = V.told /\ V1.closed = V.closed /\ V1.known = V.known
    BY <1>1, <2>1, <2>3 DEF Mid
  <2>5. Tracked(V1, e) /\ EndInv(V1, id, e)
    BY <1>2, <2>3, <2>4 DEF Tracked, EndsInv
  <2>6. /\ V2.wire[p] = Tail(V1.wire[p]) /\ V2.wire[e] = V1.wire[e]
        /\ m = Head(V1.wire[p]) /\ V1.wire[p] # <<>> /\ m.id = id /\ m.msg = "DATA"
    BY <1>0, <1>4, <2>1, <2>4
  <2>7. Reached(V2, e) = Reached(V1, e) \o m.data
    <3>1. /\ V2.delivered[e] = delivered'[e][id] /\ V2.chan[e].inbuf = g.inbuf
          /\ V1.delivered[e] = delivered[e][id] /\ V1.chan[e].inbuf = old.inbuf
      BY <2>1, <2>4
    <3>2. Gains(V2.delivered[e], V2.chan[e].inbuf, V1.delivered[e], V1.chan[e].inbuf, m.data)
      BY <3>1
    <3> QED
      BY Zenon, <3>2 DEF Gains, Reached
  <2>8. /\ V2.chan[e].outbuf_off = V1.chan[e].outbuf_off
        /\ V2.chan[e].eof_sent = V1.chan[e].eof_sent
        /\ V2.chan[e].close_sent = V1.chan[e].close_sent
        /\ V2.chan[e].close_rcvd = V1.chan[e].close_rcvd
        /\ V2.chan[e].close_requested = V1.chan[e].close_requested
        /\ V2.chan[e].remote_eof = V1.chan[e].remote_eof
    BY <2>1, <2>4 DEF KeepsSlot
  <2>9. EndInv(V2, id, e)
    <3>1. SlotInv(V2.chan[e], V2.accepted[e], V2.closed[e])
      BY <1>7, <2>1 DEF SlotInv
    <3>2. V2.told[e] = V1.told[e]
      BY <2>1, <2>4
    <3> QED
      BY <2>5, <2>8, <3>1, <3>2, SlotEnd
  <2>10. /\ V2.known = V1.known /\ V2.chan[p] = V1.chan[p] /\ V2.told = V1.told
         /\ V2.accepted = V1.accepted /\ V2.delivered[p] = V1.delivered[p]
         /\ V2.closed = V1.closed
    BY <2>1, <2>4
  <2> QED
    BY <1>1, <2>2, <2>3, <2>5, <2>6, <2>7, <2>8, <2>9, <2>10, TakeDataStep
<1>9. OnlyChannel(id)
  BY <1>4, OwnEnd
<1> QED
  BY <1>1, <1>8, <1>9, OneChannel

(* No DATA reaches an end that was told of the EOF. *)
LEMMA DataBeforeEof ==
  ASSUME TypeInv, UniqueIds, OrderInv, NEW e \in Endpoint,
         NEW m, m = Head(Inbound(e)), Inbound(e) # <<>>, m.msg = "DATA",
         NEW id \in Id, id = m.id, NEW s \in Lookup(e, id)
  PROVE  ~channels[e][s].remote_eof
<1> DEFINE p == Peer(e)
<1>1. p \in Endpoint /\ p # e /\ p = Peer(e)
  BY PeerEndpoint
<1>0. m = Head(wire[p]) /\ wire[p] # <<>>
  BY DEF Inbound
<1> HIDE DEF p
<1>2. s \in Slot /\ channels[e][s].in_use /\ Chan(e, id) = channels[e][s]
  BY LookupFacts, SlotFacts
<1>3. PICK V \in View : IsView(V, id)
  BY ViewExists DEF HaveViews
<1>4. EndsInv(V, id, e, p) /\ EndsInv(V, id, p, e)
  BY <1>1, <1>3, TwoEnds DEF OrderInv
<1>5. V.chan[e] = channels[e][s] /\ V.wire = wire /\ Tracked(V, e)
  BY <1>2, <1>3 DEF IsView, Tracked
<1>6. PICK t : t = Tail(wire[p])
  OBVIOUS
<1>7. Leaves(V, p, wire[p], m, t)
  BY <1>0, <1>5, <1>6 DEF Leaves
<1>8. m.msg = "DATA" /\ m.id = id
  OBVIOUS
<1>9. DataFound(V, id, e, p, wire[p], m, t)
  BY <1>1, <1>4, <1>5, <1>7, <1>8, DataFacts
<1>10. ~Heard(V, e, "REMOTE_EOF")
  BY <1>9 DEF DataFound
<1> QED
  BY <1>4, <1>5, <1>10, EndParts DEF EndsInv

(* Bytes that wait in the buffer, and bytes handed to the consumer. *)
LEMMA GainsKept ==
  ASSUME NEW d \in Seq(Nat), NEW b \in Seq(Nat), NEW data \in Seq(Nat)
  PROVE  Gains(d, b \o data, d, b, data)
<1>1. d \o (b \o data) = (d \o b) \o data
  BY JoinBytes
<1> QED
  BY Zenon, <1>1 DEF Gains

LEMMA GainsPushed ==
  ASSUME NEW d \in Seq(Nat), NEW data \in Seq(Nat)
  PROVE  Gains(d \o data, <<>>, d, <<>>, data)
<1>1. d \o <<>> = d
  BY ConcatEmptySeq
<1>2. (d \o data) \o <<>> = d \o data
  <2>1. d \o data \in Seq(Nat)
    BY ConcatProperties
  <2> QED
    BY <2>1, ConcatEmptySeq
<1> QED
  BY Zenon, <1>1, <1>2 DEF Gains

(* RecvData takes DATA message m of channel id and leaves its slot s as g.   *)
DataTaken(e, m, id, s, g, msgs) ==
  /\ m = Head(Inbound(e)) /\ Inbound(e) # <<>> /\ m.msg = "DATA" /\ id = m.id
  /\ id \in Id /\ s \in Lookup(e, id)
  /\ KeepsSlot(channels[e][s], g) /\ (g.sink = "push" => g.inbuf = <<>>)
  /\ GrantOnly(msgs, id) /\ SetChannel(e, s, g) /\ TakeAndShip(e, msgs)
  /\ UNCHANGED <<next_dynamic_offset, accepted, told, closers>>
  /\ OthersKeep(delivered, delivered', e, id)
  /\ Gains(delivered'[e][id], g.inbuf, delivered[e][id], channels[e][s].inbuf, m.data)

LEMMA RecvDataFacts ==
  ASSUME TypeInv, UniqueIds, OrderInv, NEW e \in Endpoint, RecvData(e)
  PROVE  \E m, id, s, g, msgs : DataTaken(e, m, id, s, g, msgs)
<1> PICK m : m = Head(Inbound(e))
  OBVIOUS
<1> PICK id : id = m.id
  OBVIOUS
<1>1. /\ Inbound(e) # <<>> /\ m.msg = "DATA" /\ m \in Message /\ id \in Id
      /\ UNCHANGED <<next_dynamic_offset, accepted, told, closers>>
  <2>1. Arriving(e, "DATA") /\ UNCHANGED <<next_dynamic_offset, accepted, told, closers>>
    BY Zenon DEF RecvData
  <2>2. Inbound(e) \in Seq(Message)
    BY PeerEndpoint, TypeInvUse DEF Inbound
  <2>3. Inbound(e) # <<>> /\ m.msg = "DATA"
    BY <2>1 DEF Arriving
  <2>4. m \in Message
    BY <2>2, <2>3, HeadTailFacts
  <2> QED
    BY <2>1, <2>3, <2>4 DEF Message
<1>2. m.data \in Seq(Nat) /\ Len(m.data) \in Nat
  BY <1>1, LenProperties DEF Message
<1>3. PICK s \in Lookup(e, id) :
        \/ channels[e][s].remote_eof
        \/ /\ channels[e][s].sink = "pull"
           /\ SetChannel(e, s, [channels[e][s] EXCEPT !.inbuf = channels[e][s].inbuf \o m.data])
           /\ TakeAndShip(e, <<>>)
           /\ UNCHANGED delivered
        \/ /\ channels[e][s].sink = "push"
           /\ SetChannel(e, s, GrantCredit(channels[e][s], Len(m.data)))
           /\ TakeAndShip(e, GrantMessages(channels[e][s], Len(m.data)))
           /\ delivered' = [delivered EXCEPT ![e][id] = delivered[e][id] \o m.data]
  BY Zenon DEF RecvData
<1> PICK old : old = channels[e][s]
  OBVIOUS
<1>4. s \in Slot /\ old.in_use /\ old.id = id /\ old \in Channel
  <2>1. s \in Slot /\ old.in_use /\ old.id = id
    BY LookupFacts
  <2> QED
    BY <2>1, SlotFacts
<1>5. ~old.remote_eof
  BY <1>1, DataBeforeEof
<1>6. delivered[e][id] \in Seq(Nat) /\ old.inbuf \in Seq(Nat)
  BY <1>1, <1>4, TypeInvUse DEF Channel
<1>7. old.sink = "push" => old.inbuf = <<>>
  BY <1>4, SlotHolds DEF SlotInv
<1>8. ASSUME old.sink = "pull",
             SetChannel(e, s, [old EXCEPT !.inbuf = old.inbuf \o m.data]),
             TakeAndShip(e, <<>>), UNCHANGED delivered
      PROVE  \E g, msgs : DataTaken(e, m, id, s, g, msgs)
  <2>1. PICK b : b = old.inbuf \o m.data
    OBVIOUS
  <2>2. PICK g : g = [old EXCEPT !.inbuf = b]
    OBVIOUS
  <2>3. KeepsSlot(old, g) /\ g.inbuf = b /\ g.sink = "pull"
    BY <1>4, <1>8, <2>2 DEF KeepsSlot, Channel
  <2>4. SetChannel(e, s, g)
    BY <1>8, <2>1, <2>2
  <2>5. Gains(delivered'[e][id], g.inbuf, delivered[e][id], old.inbuf, m.data)
    <3>1. Gains(delivered[e][id], old.inbuf \o m.data, delivered[e][id], old.inbuf, m.data)
      BY <1>2, <1>6, GainsKept
    <3> QED
      BY Zenon, <1>8, <2>1, <2>3, <3>1
  <2>6. GrantOnly(<<>>, id) /\ OthersKeep(delivered, delivered', e, id)
    BY <1>8 DEF GrantOnly, OthersKeep
  <2>7. g.sink = "push" => g.inbuf = <<>>
    BY <2>3
  <2>8. Gains(delivered'[e][id], g.inbuf, delivered[e][id], channels[e][s].inbuf, m.data)
    BY Zenon, <2>5
  <2>9. KeepsSlot(channels[e][s], g) /\ TakeAndShip(e, <<>>)
    BY <1>8, <2>3
  <2>10. DataTaken(e, m, id, s, g, <<>>)
    BY Zenon, <1>1, <1>3, <2>4, <2>6, <2>7, <2>8, <2>9 DEF DataTaken
  <2> QED
    BY <2>10
<1>9. ASSUME old.sink = "push", SetChannel(e, s, GrantCredit(old, Len(m.data))),
             TakeAndShip(e, GrantMessages(old, Len(m.data))),
             delivered' = [delivered EXCEPT ![e][id] = delivered[e][id] \o m.data]
      PROVE  \E g, msgs : DataTaken(e, m, id, s, g, msgs)
  <2>1. PICK x : x = delivered[e][id] \o m.data
    OBVIOUS
  <2>2. PICK g : g = GrantCredit(old, Len(m.data))
    OBVIOUS
  <2>3. PICK msgs : msgs = GrantMessages(old, Len(m.data))
    OBVIOUS
  <2>4. KeepsSlot(old, g) /\ g.inbuf = <<>> /\ old.inbuf = <<>>
    BY <1>2, <1>4, <1>7, <1>9, <2>2, GrantKeeps
  <2>5. SetChannel(e, s, g) /\ TakeAndShip(e, msgs)
    BY <1>9, <2>2, <2>3
  <2>6. delivered' = [delivered EXCEPT ![e][id] = x]
    BY <1>9, <2>1
  <2>7. delivered'[e][id] = x
    BY <1>1, <2>6, TypeInvUse
  <2>8. Gains(delivered'[e][id], g.inbuf, delivered[e][id], old.inbuf, m.data)
    <3>1. Gains(delivered[e][id] \o m.data, <<>>, delivered[e][id], <<>>, m.data)
      BY <1>2, <1>6, GainsPushed
    <3> QED
      BY Zenon, <2>1, <2>4, <2>7, <3>1
  <2>9. GrantOnly(msgs, id)
    BY <1>1, <1>2, <1>4, <2>3, GrantFacts
  <2>10. OthersKeep(delivered, delivered', e, id)
    BY <2>6 DEF OthersKeep
  <2>11. g.sink = "push" => g.inbuf = <<>>
    BY <2>4
  <2>12. Gains(delivered'[e][id], g.inbuf, delivered[e][id], channels[e][s].inbuf, m.data)
    BY Zenon, <2>8
  <2>13. KeepsSlot(channels[e][s], g)
    BY <2>4
  <2>14. DataTaken(e, m, id, s, g, msgs)
    BY Zenon, <1>1, <1>3, <2>5, <2>9, <2>10, <2>11, <2>12, <2>13 DEF DataTaken
  <2> QED
    BY <2>14
<1>10. \E g, msgs : DataTaken(e, m, id, s, g, msgs)
  BY Zenon, <1>3, <1>5, <1>8, <1>9
<1> QED
  BY <1>10

LEMMA RecvDataOrder ==
  ASSUME TypeInv, TypeInv', UniqueIds, OrderInv, NEW e \in Endpoint, RecvData(e)
  PROVE  OrderInv'
<1>1. PICK m, id, s, g, msgs : DataTaken(e, m, id, s, g, msgs)
  BY RecvDataFacts
<1> PICK old : old = channels[e][s]
  OBVIOUS
<1>2. /\ m = Head(Inbound(e)) /\ Inbound(e) # <<>> /\ m.msg = "DATA"
      /\ id \in Id /\ id = m.id /\ s \in Lookup(e, id)
      /\ KeepsSlot(old, g) /\ (g.sink = "push" => g.inbuf = <<>>)
      /\ GrantOnly(msgs, id) /\ SetChannel(e, s, g) /\ TakeAndShip(e, msgs)
      /\ UNCHANGED <<next_dynamic_offset, accepted, told, closers>>
      /\ OthersKeep(delivered, delivered', e, id)
      /\ Gains(delivered'[e][id], g.inbuf, delivered[e][id], old.inbuf, m.data)
  BY <1>1 DEF DataTaken
<1> QED
  BY <1>2, DataAction

(* Endpoint e gets a slot for channel id, which it did not track. *)
AddsChannel(e, id, s, c) ==
  /\ s \in FreeSlots(e) /\ Lookup(e, id) = {}
  /\ SetChannel(e, s, c) /\ c.in_use /\ c.id = id /\ NewSlot(c)
  /\ \A j \in Id \ {id} : \A f \in Endpoint : SameFor(wire[f], wire'[f], j)
  /\ \A j \in Id \ {id} :
       Allocated(j, next_dynamic_offset) => Allocated(j, next_dynamic_offset')
  /\ UNCHANGED <<accepted, delivered, told, closers>>

(* What open_channel and an accepted OPEN look like in the views.           *)
LEMMA AddedViews ==
  ASSUME TypeInv, TypeInv', UniqueIds, NEW e \in Endpoint, NEW p, p = Peer(e),
         NEW id \in Id, NEW s, NEW c, AddsChannel(e, id, s, c)
  PROVE  /\ OnlyChannel(id)
         /\ \A V, V2 \in View : (IsView(V, id) /\ IsView(V2, id)') =>
              /\ V2.chan[e] = c /\ V2.chan[p] = V.chan[p]
              /\ V.wire = wire /\ V2.wire = wire'
              /\ V2.accepted = V.accepted /\ V2.delivered = V.delivered
              /\ V2.told = V.told /\ V2.closed = V.closed
<1>1. p \in Endpoint /\ p # e
  BY PeerEndpoint
<1>2. /\ s \in FreeSlots(e) /\ Lookup(e, id) = {}
      /\ SetChannel(e, s, c) /\ c.in_use /\ c.id = id
      /\ UNCHANGED <<accepted, delivered, told, closers>>
  BY DEF AddsChannel
<1>3. /\ Chan(e, id)' = c
      /\ \A f \in Endpoint : \A j : (f # e \/ j # id) => Chan(f, j)' = Chan(f, j)
  BY <1>2, AddChan
<1>4. OnlyChannel(id)
  BY <1>2, <1>3 DEF OnlyChannel, AddsChannel
<1>5. ASSUME NEW V \in View, NEW V2 \in View, IsView(V, id), IsView(V2, id)'
      PROVE  /\ V2.chan[e] = c /\ V2.chan[p] = V.chan[p]
             /\ V.wire = wire /\ V2.wire = wire'
             /\ V2.accepted = V.accepted /\ V2.delivered = V.delivered
             /\ V2.told = V.told /\ V2.closed = V.closed
  <2>1. V2.chan[e] = c /\ V2.chan[p] = V.chan[p]
    BY <1>1, <1>3, <1>5, ViewStep
  <2>2. /\ V2.accepted = V.accepted /\ V2.delivered = V.delivered
        /\ V2.told = V.told /\ V2.closed = V.closed
    BY <1>2, <1>5, ViewStep
  <2> QED
    BY <1>5, <2>1, <2>2 DEF IsView
<1> QED
  BY <1>4, <1>5

LEMMA NewSlotType ==
  ASSUME NEW id \in Id, NEW sink, NEW send, NEW recv, NEW c,
         c = DynamicChannel(id, sink, send, recv)
  PROVE  c.in_use /\ c.id = id /\ NewSlot(c)
  BY DEF DynamicChannel, FreeChannel, NewSlot

(* open_channel. *)
LEMMA OpenOrder ==
  ASSUME TypeInv, TypeInv', UniqueIds, OrderInv, NEW e \in Endpoint, Open(e)
  PROVE  OrderInv'
<1> PICK id : id = DYNAMIC_BASE + next_dynamic_offset[e] + Parity(e)
  OBVIOUS
<1> PICK p : p = Peer(e)
  OBVIOUS
<1>1. p \in Endpoint /\ p # e
  BY PeerEndpoint
<1>2. id \in OwnId(e) /\ id \in Id
  BY NewIdType DEF Open
<1>3. PICK s \in Slot, window \in InitialWindows, sink \in Sinks :
        /\ IsFirstFree(e, s)
        /\ SetChannel(e, s, DynamicChannel(id, sink, WINDOW_DEFAULT, OrDefault(window)))
        /\ Ship(e, <<Control("OPEN", id, window)>>)
  BY DEF Open
<1> PICK c : c = DynamicChannel(id, sink, WINDOW_DEFAULT, OrDefault(window))
  OBVIOUS
<1> PICK m : m = Control("OPEN", id, window)
  OBVIOUS
<1>4. c.in_use /\ c.id = id /\ NewSlot(c)
  BY <1>2, NewSlotType
<1>5. m \in Message /\ m.msg = "OPEN" /\ m.id = id
  <2>1. window \in Nat
    BY ConstantsAssumption DEF ConstantsAssumption
  <2> QED
    BY <1>2, <2>1, MessageFacts DEF MsgKind
<1>6. SetChannel(e, s, c) /\ Ship(e, <<m>>) /\ s \in FreeSlots(e)
  BY <1>3 DEF IsFirstFree
<1>7. wire[e] \in Seq(Message) /\ wire'[e] = Append(wire[e], m) /\ wire'[p] = wire[p]
  <2>1. wire \in [Endpoint -> Seq(Message)]
    BY TypeInvUse
  <2>2. wire'[e] = wire[e] \o <<m>> /\ wire'[p] = wire[p]
    BY <1>1, <1>6, <2>1 DEF Ship
  <2> QED
    BY <1>5, <2>1, <2>2, AppendTwo
<1>8. next_dynamic_offset \in [Endpoint -> Nat]
  BY DEF TypeInv, TypeOK
<1>9. next_dynamic_offset' = [next_dynamic_offset EXCEPT ![e] = next_dynamic_offset[e] + 2]
  BY DEF Open, NextOffset
<1>10. ~Allocated(id, next_dynamic_offset)
  BY <1>2, <1>8 DEF Allocated, Parity, DYNAMIC_BASE
<1>11. Allocated(id, next_dynamic_offset')
  <2> SUFFICES ASSUME NEW f \in Endpoint, id \in OwnId(f)
               PROVE  id < DYNAMIC_BASE + next_dynamic_offset'[f]
    BY DEF Allocated
  <2>1. f = e
    BY <1>2, DisjointIds
  <2> QED
    BY <1>8, <1>9, <2>1 DEF Parity, DYNAMIC_BASE
<1>12. \A j \in Id : Allocated(j, next_dynamic_offset) => Allocated(j, next_dynamic_offset')
  <2> SUFFICES ASSUME NEW j \in Id, Allocated(j, next_dynamic_offset),
                      NEW f \in Endpoint, j \in OwnId(f)
               PROVE  j < DYNAMIC_BASE + next_dynamic_offset'[f]
    BY DEF Allocated
  <2>1. j < DYNAMIC_BASE + next_dynamic_offset[f] /\ j \in Nat
    BY IdNat, ConstantsAssumption DEF Allocated
  <2>2. next_dynamic_offset'[f] >= next_dynamic_offset[f]
    BY <1>8, <1>9
  <2> QED
    BY <1>8, <1>9, <2>1, <2>2 DEF DYNAMIC_BASE
<1>13. Lookup(e, id) = {}
  BY <1>10 DEF Lookup, UniqueIds, Allocated
<1>14. \A j \in Id \ {id} : \A f \in Endpoint : SameFor(wire[f], wire'[f], j)
  <2>1. Ours(<<m>>, id)
    BY <1>5 DEF Ours
  <2> QED
    BY <1>6, <2>1, ShipSame
<1>15. UNCHANGED <<accepted, delivered, told, closers>>
  BY DEF Open
<1>16. AddsChannel(e, id, s, c)
  BY <1>4, <1>6, <1>12, <1>13, <1>14, <1>15 DEF AddsChannel
<1>17. ASSUME NEW V \in View, NEW V2 \in View, IsView(V, id), IsView(V2, id)',
              EndsInv(V, id, e, p), EndsInv(V, id, p, e)
       PROVE  EndsInv(V2, id, e, p) /\ EndsInv(V2, id, p, e)
  <2>1. /\ V2.chan[e] = c /\ V2.chan[p] = V.chan[p]
        /\ V.wire = wire /\ V2.wire = wire'
        /\ V2.accepted = V.accepted /\ V2.delivered = V.delivered
        /\ V2.told = V.told /\ V2.closed = V.closed
    BY <1>2, <1>16, <1>17, AddedViews
  <2>2. ~V.known /\ V2.known
    BY <1>10, <1>11, <1>17 DEF IsView
  <2>3. V2.wire[e] = Append(V.wire[e], m) /\ V2.wire[p] = V.wire[p]
    BY <1>7, <2>1
  <2> QED
    BY <1>1, <1>2, <1>4, <1>5, <1>17, <2>1, <2>2, <2>3, OpenStep
<1>18. OnlyChannel(id)
  BY <1>2, <1>16, AddedViews
<1> QED
  BY <1>2, <1>17, <1>18, OneChannel

(* The demux of an OPEN: accepted, or refused with a CLOSE. *)
LEMMA RecvOpenOrder ==
  ASSUME TypeInv, TypeInv', UniqueIds, OrderInv, NEW e \in Endpoint, RecvOpen(e)
  PROVE  OrderInv'
<1> PICK m : m = Head(Inbound(e))
  OBVIOUS
<1> PICK id : id = m.id
  OBVIOUS
<1> PICK p : p = Peer(e)
  OBVIOUS
<1>1. p \in Endpoint /\ p # e
  BY PeerEndpoint
<1>2. /\ Inbound(e) # <<>> /\ m.msg = "OPEN"
      /\ UNCHANGED <<next_dynamic_offset, accepted, delivered, told, closers>>
  BY DEF RecvOpen, Arriving
<1>3. Inbound(e) = wire[p] /\ wire[p] # <<>> /\ m = Head(wire[p])
  BY <1>2 DEF Inbound
<1>4. m \in Message /\ id \in Id
  BY <1>1, <1>3, TypeInvUse, HeadTailFacts DEF Message
<1>5. \A j : Allocated(j, next_dynamic_offset) => Allocated(j, next_dynamic_offset')
  BY <1>2
<1>6. ASSUME Lookup(e, id) = {}, TakeAndShip(e, <<>>), NEW s \in Slot, NEW sink \in Sinks,
             IsFirstFree(e, s),
             SetChannel(e, s, DynamicChannel(id, sink, OrDefault(m.window), WINDOW_DEFAULT))
      PROVE  OrderInv'
  <2> PICK c : c = DynamicChannel(id, sink, OrDefault(m.window), WINDOW_DEFAULT)
    OBVIOUS
  <2>1. c.in_use /\ c.id = id /\ NewSlot(c)
    BY <1>4, NewSlotType
  <2>2. SetChannel(e, s, c) /\ s \in FreeSlots(e)
    BY <1>6 DEF IsFirstFree
  <2>3. /\ \A j \in Id \ {id} : \A f \in Endpoint : SameFor(wire[f], wire'[f], j)
        /\ wire'[e] = wire[e] \o <<>> /\ wire'[p] = Tail(wire[p])
    <3>1. Ours(<<>>, id)
      BY DEF Ours
    <3> QED
      BY <1>2, <1>6, <3>1, TakeSame
  <2>4. wire'[e] = wire[e]
    BY <2>3, TypeInvUse, ConcatEmptySeq
  <2>5. AddsChannel(e, id, s, c)
    BY <1>2, <1>5, <1>6, <2>1, <2>2, <2>3 DEF AddsChannel
  <2>6. ASSUME NEW V \in View, NEW V2 \in View, IsView(V, id), IsView(V2, id)',
               EndsInv(V, id, e, p), EndsInv(V, id, p, e)
        PROVE  EndsInv(V2, id, e, p) /\ EndsInv(V2, id, p, e)
    <3>1. /\ V2.chan[e] = c /\ V2.chan[p] = V.chan[p]
          /\ V.wire = wire /\ V2.wire = wire'
          /\ V2.accepted = V.accepted /\ V2.delivered = V.delivered
          /\ V2.told = V.told /\ V2.closed = V.closed
      BY <1>4, <2>5, <2>6, AddedViews
    <3>2. V2.known = V.known
      BY <1>2, <1>4, <2>6, ViewStep
    <3>3. /\ V2.wire[p] = Tail(V.wire[p]) /\ V2.wire[e] = V.wire[e]
          /\ m = Head(V.wire[p]) /\ V.wire[p] # <<>>
      BY <1>3, <2>3, <2>4, <3>1
    <3> QED
      BY <1>1, <1>2, <2>1, <2>6, <3>1, <3>2, <3>3, AcceptStep
  <2>7. OnlyChannel(id)
    BY <1>4, <2>5, AddedViews
  <2> QED
    BY <1>4, <2>6, <2>7, OneChannel
<1>7. ASSUME UNCHANGED channels, TakeAndShip(e, <<Control("CLOSE", id, 0)>>)
      PROVE  OrderInv'
  <2> PICK n : n = Control("CLOSE", id, 0)
    OBVIOUS
  <2>1. n \in Message /\ n.msg = "CLOSE" /\ n.id = id
    BY <1>4, MessageFacts DEF MsgKind
  <2>2. /\ \A j \in Id \ {id} : \A f \in Endpoint : SameFor(wire[f], wire'[f], j)
        /\ wire'[e] = wire[e] \o <<n>> /\ wire'[p] = Tail(wire[p])
    <3>1. Ours(<<n>>, id) /\ TakeAndShip(e, <<n>>)
      BY <1>7, <2>1 DEF Ours
    <3> QED
      BY <1>2, <3>1, TakeSame
  <2>3. wire'[e] = Append(wire[e], n)
    BY <2>1, <2>2, TypeInvUse, AppendTwo
  <2>4. \A f \in Endpoint : \A j : Chan(f, j)' = Chan(f, j)
    BY <1>7 DEF Chan, Lookup, InUse
  <2>5. OnlyChannel(id)
    BY <1>2, <2>2, <2>4 DEF OnlyChannel
  <2>6. ASSUME NEW V \in View, NEW V2 \in View, IsView(V, id), IsView(V2, id)',
               EndsInv(V, id, e, p), EndsInv(V, id, p, e)
        PROVE  EndsInv(V2, id, e, p) /\ EndsInv(V2, id, p, e)
    <3>1. V2.chan = V.chan
      <4>1. \A f \in Endpoint : V2.chan[f] = V.chan[f]
        BY <1>4, <2>4, <2>6, ViewStep
      <4> QED
        BY <4>1 DEF View
    <3>2. /\ V2.known = V.known /\ V2.told = V.told /\ V2.accepted = V.accepted
          /\ V2.delivered = V.delivered /\ V2.closed = V.closed
      BY <1>2, <1>4, <2>6, ViewStep
    <3>3. V.wire = wire /\ V2.wire = wire'
      BY <2>6 DEF IsView
    <3>4. /\ V2.wire[p] = Tail(V.wire[p]) /\ V2.wire[e] = Append(V.wire[e], n)
          /\ m = Head(V.wire[p]) /\ V.wire[p] # <<>>
      BY <1>3, <2>2, <2>3, <3>3
    <3> QED
      BY <1>1, <1>2, <2>1, <2>6, <3>1, <3>2, <3>4, RefuseStep
  <2> QED
    BY <1>4, <2>5, <2>6, OneChannel
<1> QED
  BY <1>6, <1>7 DEF RecvOpen

-----------------------------------------------------------------------------
(* The invariant holds in every reachable state.                            *)

LEMMA InitOrder == Init => OrderInv
<1> SUFFICES ASSUME Init, NEW id \in Id, NEW V \in View, IsView(V, id),
                    NEW e \in Endpoint, NEW p \in Endpoint, p = Peer(e)
             PROVE  EndsInv(V, id, e, p)
  BY PeerEndpoint DEF OrderInv, ViewInv
<1>1. \A f \in Endpoint :
        /\ V.wire[f] = <<>> /\ V.chan[f] = FreeChannel /\ V.accepted[f] = 0
        /\ V.delivered[f] = <<>> /\ V.told[f] = <<>> /\ ~V.closed[f]
  <2>1. \A f \in Endpoint : Lookup(f, id) = {}
    BY DEF Init, Lookup, InUse, FreeChannel
  <2>2. \A f \in Endpoint : Chan(f, id) = FreeChannel
    BY <2>1 DEF Chan
  <2>3. \A f \in Endpoint :
          /\ wire[f] = <<>> /\ accepted[f][id] = 0 /\ delivered[f][id] = <<>>
          /\ told[f][id] = <<>> /\ id \notin closers[f]
    BY DEF Init
  <2> QED
    BY <2>2, <2>3 DEF IsView
<1>2. /\ Chain(<<>>, id, 0, 0) /\ Tidy(<<>>, id) /\ Quiet(<<>>, id)
      /\ \A kind : ~Has(<<>>, kind, id)
  BY EmptyChain
<1>3. \A f \in Endpoint : Fresh(V, id, f)
  BY <1>1, <1>2 DEF Fresh
<1>4. \A f \in Endpoint : /\ ~Tracked(V, f) /\ Reached(V, f) = <<>>
                          /\ \A event : ~Heard(V, f, event)
  BY <1>3, FreshFacts
<1>5. \A f \in Endpoint : \A kind : ~Has(V.wire[f], kind, id)
  BY <1>1, <1>2
<1>6. KnownInv(V, id, e) /\ OpenInv(V, id, e, p) /\ EndInv(V, id, e)
  BY <1>3, <1>4, <1>5 DEF KnownInv, OpenInv, EndInv
<1>7. EofInv(V, id, e, p) /\ CloseInv(V, id, e, p)
  BY <1>4, <1>5 DEF EofInv, CloseInv
<1>8. StreamInv(V, id, e, p)
  <2>1. <<>> = [k \in 1 .. 0 |-> k] /\ Len(<<>>) = 0
    BY EmptySeq
  <2>2. Reached(V, e) = <<>> /\ V.wire[p] = <<>> /\ V.accepted[p] = 0 /\ ~Tracked(V, p)
    BY <1>1, <1>4
  <2>3. Reached(V, e) = [k \in 1 .. Len(Reached(V, e)) |-> k]
    BY <2>1, <2>2
  <2>4. Chain(V.wire[p], id, Len(Reached(V, e)), 0) /\ ~Has(V.wire[p], "EOF", id)
    BY <1>2, <2>1, <2>2
  <2> QED
    BY <2>2, <2>3, <2>4 DEF StreamInv
<1>9. ReasonInv(V, id, e, p) /\ OrphanInv(V, id, e, p)
  BY <1>4, <1>5 DEF ReasonInv, OrphanInv
<1>10. Tidy(V.wire[e], id)
  BY <1>1, <1>2
<1> QED
  BY <1>6, <1>7, <1>8, <1>9, <1>10 DEF EndsInv

LEMMA OrderStep == TypeInv /\ IdInv /\ OrderInv /\ [Next]_vars => OrderInv'
<1> SUFFICES ASSUME TypeInv, IdInv, OrderInv, [Next]_vars PROVE OrderInv'
  OBVIOUS
<1>1. TypeInv' /\ UniqueIds
  BY TypeStep DEF IdInv
<1>2. CASE UNCHANGED vars
  BY <1>2, SameOrder DEF vars
<1>3. ASSUME NEW e \in Endpoint, Open(e) PROVE OrderInv'
  BY <1>1, <1>3, OpenOrder
<1>4. ASSUME NEW e \in Endpoint, NEW s \in Slot, Consumer(e, s) PROVE OrderInv'
  BY <1>1, <1>4, SealingOrder, ReadOrder DEF Consumer
<1>5. ASSUME NEW e \in Endpoint, PumpWritable(e) PROVE OrderInv'
  BY <1>5, SameOrder DEF PumpWritable
<1>6. ASSUME NEW e \in Endpoint, EmitNothing(e) PROVE OrderInv'
  BY <1>6, SameOrder DEF EmitNothing
<1>7. ASSUME NEW e \in Endpoint, Emit(e) PROVE OrderInv'
  BY <1>1, <1>6, <1>7, EmitDataOrder, EmitSealsOrder DEF Emit
<1>8. ASSUME NEW e \in Endpoint, Recv(e) PROVE OrderInv'
  BY <1>1, <1>8, RecvOpenOrder, RecvDataOrder, RecvEofOrder, RecvCloseOrder,
     RecvWindowAdjustOrder, RecvUnknownOrder DEF Recv
<1> QED
  BY <1>2, <1>3, <1>4, <1>5, <1>7, <1>8 DEF Next

LEMMA OrderInvariant == Spec => [](TypeInv /\ IdInv /\ OrderInv)
<1>1. Init => TypeInv /\ IdInv /\ OrderInv
  BY InitType, InitIds, InitOrder
<1>2. TypeInv /\ IdInv /\ OrderInv /\ [Next]_vars => (TypeInv /\ IdInv /\ OrderInv)'
  BY TypeStep, IdStep, OrderStep
<1> QED
  BY <1>1, <1>2, PTL DEF Spec

(* EOF and CLOSE never overtake the DATA they follow (connection.c:459-481): *)
(* on a wire nothing of the channel's stream is behind either, and an end    *)
(* that has sent one has nothing left to send.                               *)
THEOREM SealsFollowData == Spec => []SealFollowsData
<1>1. TypeInv /\ IdInv /\ OrderInv => SealFollowsData
  <2> SUFFICES ASSUME TypeInv, UniqueIds, OrderInv, NEW e \in Endpoint
               PROVE  /\ \A i, j \in 1 .. Len(wire[e]) :
                           (/\ i < j
                            /\ wire[e][i].id = wire[e][j].id
                            /\ wire[e][i].msg \in {"EOF", "CLOSE"}) => wire[e][j].msg # "DATA"
                      /\ \A s \in InUse(e) :
                           channels[e][s].eof_sent \/ channels[e][s].close_sent
                             => Pending(channels[e][s]) = 0
    BY DEF IdInv, SealFollowsData
  <2>1. ASSUME NEW i \in 1 .. Len(wire[e]), NEW j \in 1 .. Len(wire[e]), i < j,
               wire[e][i].id = wire[e][j].id, wire[e][i].msg \in {"EOF", "CLOSE"}
        PROVE  wire[e][j].msg # "DATA"
    <3> PICK id : id = wire[e][i].id
      OBVIOUS
    <3>1. id \in Id
      <4>1. wire[e] \in Seq(Message)
        BY TypeInvUse
      <4>2. wire[e][i] \in Message
        BY <4>1, ElementOfSeq
      <4> QED
        BY <4>2 DEF Message
    <3>2. PICK V \in View : IsView(V, id)
      BY <3>1, ViewExists DEF HaveViews
    <3>3. Tidy(V.wire[e], id) /\ V.wire = wire
      BY <3>1, <3>2 DEF OrderInv, ViewInv, EndsInv, IsView
    <3> QED
      BY <2>1, <3>3 DEF Tidy
  <2>2. ASSUME NEW s \in InUse(e), channels[e][s].eof_sent \/ channels[e][s].close_sent
        PROVE  Pending(channels[e][s]) = 0
    <3> PICK c : c = channels[e][s]
      OBVIOUS
    <3>1. s \in Slot /\ c.in_use
      BY DEF InUse
    <3>2. c \in Channel
      BY <3>1, SlotFacts
    <3>3. SlotInv(c, accepted[e][c.id], c.id \in closers[e])
      BY <3>1, SlotHolds
    <3> QED
      BY <2>2, <3>2, <3>3 DEF SlotInv, Pending, Channel
  <2> QED
    BY <2>1, <2>2
<1> QED
  BY <1>1, OrderInvariant, PTL

(* No half-dead channel: an end that tracks a channel the other end does not *)
(* track has news of it on the wire, or has seen the CLOSE and only drains    *)
(* (connection.c:312-349, 369-392).                                           *)
THEOREM NoHalfDeadChannel == Spec => []NoOrphan
<1>1. TypeInv /\ IdInv /\ OrderInv => NoOrphan
  <2> SUFFICES ASSUME TypeInv, UniqueIds, OrderInv, NEW e \in Endpoint, NEW s \in InUse(e),
                      NEW id, id = channels[e][s].id, NEW p, p = Peer(e), Lookup(p, id) = {}
               PROVE  \/ Has(wire[e], "OPEN", id) \/ Has(wire[p], "CLOSE", id)
                      \/ channels[e][s].close_rcvd
    BY DEF IdInv, NoOrphan, Has
  <2>1. p \in Endpoint /\ s \in Slot /\ channels[e][s].in_use
    BY PeerEndpoint DEF InUse
  <2>2. id \in Id /\ Chan(e, id) = channels[e][s]
    BY <2>1, SlotFacts
  <2>3. PICK V \in View : IsView(V, id)
    BY <2>2, ViewExists DEF HaveViews
  <2>4. V.chan[e] = channels[e][s] /\ V.chan[p] = FreeChannel /\ V.wire = wire
    BY <2>1, <2>2, <2>3 DEF IsView, Chan
  <2>5. Tracked(V, e) /\ ~Tracked(V, p)
    BY <2>1, <2>4 DEF Tracked, FreeChannel
  <2>6. OrphanInv(V, id, e, p)
    BY <2>2, <2>3 DEF OrderInv, ViewInv, EndsInv
  <2> QED
    BY <2>4, <2>5, <2>6 DEF OrphanInv
<1> QED
  BY <1>1, OrderInvariant, PTL

-----------------------------------------------------------------------------
(* A connection implements the byte streams of YwireStream.                 *)

ArrivedIs == \A e \in Endpoint, id \in Id :
               Arrived(e, id) = delivered[e][id] \o Chan(e, id).inbuf

LEMMA ArrivedChan == TypeInv /\ UniqueIds => ArrivedIs
<1> SUFFICES ASSUME TypeInv, UniqueIds, NEW e \in Endpoint, NEW id \in Id
             PROVE  Arrived(e, id) = delivered[e][id] \o Chan(e, id).inbuf
  BY Zenon DEF ArrivedIs
<1>1. CASE Lookup(e, id) = {}
  <2>1. delivered[e][id] \in Seq(Nat)
    BY TypeInvUse
  <2>2. delivered[e][id] \o <<>> = delivered[e][id]
    BY <2>1, ConcatEmptySeq
  <2>3. Chan(e, id).inbuf = <<>> /\ Arrived(e, id) = delivered[e][id]
    BY <1>1 DEF Chan, Arrived, FreeChannel
  <2> QED
    BY Zenon, <2>2, <2>3
<1>2. CASE Lookup(e, id) # {}
  <2>1. Chan(e, id) = channels[e][CHOOSE s \in Lookup(e, id) : TRUE]
    BY <1>2 DEF Chan
  <2>2. Arrived(e, id)
          = delivered[e][id] \o channels[e][CHOOSE s \in Lookup(e, id) : TRUE].inbuf
    BY Zenon, <1>2 DEF Arrived
  <2> QED
    BY Zenon, <2>1, <2>2
<1> QED
  BY <1>1, <1>2

(* What arrives at an end is unchanged, for all channels or for all but one. *)
SameArrived == \A f \in Endpoint, j \in Id : Arrived(f, j)' = Arrived(f, j)
OnlyArrives(e, id) ==
  \A f \in Endpoint, j \in Id : (f # e \/ j # id) => Arrived(f, j)' = Arrived(f, j)

(* A step that moves no bytes from the wire. *)
LEMMA BufferKept ==
  ASSUME ArrivedIs, ArrivedIs', delivered' = delivered,
         \A f \in Endpoint, j \in Id : Chan(f, j)'.inbuf = Chan(f, j).inbuf
  PROVE  SameArrived
<1> SUFFICES ASSUME NEW f \in Endpoint, NEW j \in Id PROVE Arrived(f, j)' = Arrived(f, j)
  BY DEF SameArrived
<1>1. Arrived(f, j) = delivered[f][j] \o Chan(f, j).inbuf
  BY Zenon DEF ArrivedIs
<1>2. Arrived(f, j)' = delivered'[f][j] \o Chan(f, j)'.inbuf
  BY Zenon DEF ArrivedIs
<1>3. Chan(f, j)'.inbuf = Chan(f, j).inbuf
  OBVIOUS
<1> QED
  BY Zenon, <1>1, <1>2, <1>3

LEMMA ChannelsKept ==
  ASSUME ArrivedIs, ArrivedIs', delivered' = delivered, channels' = channels
  PROVE  SameArrived
<1>1. \A f \in Endpoint, j \in Id : Chan(f, j)'.inbuf = Chan(f, j).inbuf
  BY DEF Chan, Lookup, InUse
<1> QED
  BY <1>1, BufferKept

(* The slot is changed or freed and what it buffers is not. *)
LEMMA SlotKept ==
  ASSUME TypeInv, UniqueIds, ArrivedIs, ArrivedIs', delivered' = delivered,
         NEW e \in Endpoint, NEW s \in Slot, channels[e][s].in_use,
         NEW c, SetChannel(e, s, c), c.inbuf = channels[e][s].inbuf,
         c = FreeChannel \/ (c.in_use /\ c.id = channels[e][s].id)
  PROVE  SameArrived
<1> PICK id : id = channels[e][s].id
  OBVIOUS
<1>1. s \in Lookup(e, id) /\ id \in Id /\ Chan(e, id) = channels[e][s]
  BY SlotFacts
<1>2. /\ Chan(e, id)' = c
      /\ \A f \in Endpoint : \A j : (f # e \/ j # id) => Chan(f, j)' = Chan(f, j)
  BY <1>1, SetChan
<1>3. \A f \in Endpoint, j \in Id : Chan(f, j)'.inbuf = Chan(f, j).inbuf
  BY <1>1, <1>2
<1> QED
  BY <1>3, BufferKept

(* The slot of a channel that was not tracked starts empty. *)
LEMMA SlotAdded ==
  ASSUME TypeInv, UniqueIds, ArrivedIs, ArrivedIs', delivered' = delivered,
         NEW e \in Endpoint, NEW s \in FreeSlots(e), NEW id, Lookup(e, id) = {},
         NEW c, SetChannel(e, s, c), c.in_use, c.id = id, c.inbuf = <<>>
  PROVE  SameArrived
<1>1. /\ Chan(e, id)' = c
      /\ \A f \in Endpoint : \A j : (f # e \/ j # id) => Chan(f, j)' = Chan(f, j)
  BY AddChan
<1>2. Chan(e, id).inbuf = <<>>
  BY DEF Chan, FreeChannel
<1>3. \A f \in Endpoint, j \in Id : Chan(f, j)'.inbuf = Chan(f, j).inbuf
  BY <1>1, <1>2
<1> QED
  BY <1>3, BufferKept

(* Only the bytes of one channel move. *)
ArrivesAs(e, id, s, c) ==
  /\ Arrived(e, id)' = delivered'[e][id] \o c.inbuf
  /\ Arrived(e, id) = delivered[e][id] \o channels[e][s].inbuf

LEMMA OneArrives ==
  ASSUME TypeInv, UniqueIds, ArrivedIs, ArrivedIs', NEW e \in Endpoint, NEW id \in Id,
         NEW s \in Lookup(e, id), NEW c, SetChannel(e, s, c),
         c = FreeChannel \/ (c.in_use /\ c.id = id), OthersKeep(delivered, delivered', e, id)
  PROVE  OnlyArrives(e, id) /\ ArrivesAs(e, id, s, c)
<1>1. /\ Chan(e, id)' = c /\ Chan(e, id) = channels[e][s]
      /\ \A f \in Endpoint : \A j : (f # e \/ j # id) => Chan(f, j)' = Chan(f, j)
  BY SetChan, ChanLookup
<1>2. \A f \in Endpoint, j \in Id : (f # e \/ j # id) => delivered'[f][j] = delivered[f][j]
  <2>1. delivered \in [Endpoint -> [Id -> Seq(Nat)]]
    BY TypeInvUse
  <2>2. ASSUME NEW x, delivered' = [delivered EXCEPT ![e][id] = x]
        PROVE  \A f \in Endpoint, j \in Id : (f # e \/ j # id) =>
                 delivered'[f][j] = delivered[f][j]
    BY <2>1, <2>2
  <2> QED
    BY <2>2 DEF OthersKeep
<1>3. ASSUME NEW f \in Endpoint, NEW j \in Id, f # e \/ j # id
      PROVE  Arrived(f, j)' = Arrived(f, j)
  <2>1. Arrived(f, j) = delivered[f][j] \o Chan(f, j).inbuf
    BY Zenon DEF ArrivedIs
  <2>2. Arrived(f, j)' = delivered'[f][j] \o Chan(f, j)'.inbuf
    BY Zenon DEF ArrivedIs
  <2>3. Chan(f, j)' = Chan(f, j) /\ delivered'[f][j] = delivered[f][j]
    BY <1>1, <1>2, <1>3
  <2> QED
    BY Zenon, <2>1, <2>2, <2>3
<1>4. Arrived(e, id)' = delivered'[e][id] \o c.inbuf
  <2>1. Arrived(e, id)' = delivered'[e][id] \o Chan(e, id)'.inbuf
    BY Zenon DEF ArrivedIs
  <2> QED
    BY Zenon, <1>1, <2>1
<1>5. Arrived(e, id) = delivered[e][id] \o channels[e][s].inbuf
  <2>1. Arrived(e, id) = delivered[e][id] \o Chan(e, id).inbuf
    BY Zenon DEF ArrivedIs
  <2> QED
    BY Zenon, <1>1, <2>1
<1> QED
  BY Zenon, <1>3, <1>4, <1>5 DEF OnlyArrives, ArrivesAs

(* What the consumers were told, and who closed, as the view shows it. *)
LEMMA ToldFacts ==
  ASSUME NEW e \in Endpoint, NEW id, NEW V \in View, IsView(V, id)
  PROVE  /\ \A event : Heard(V, e, event) <=> Stream!Told(e, id, event)
         /\ SomeoneClosed(V) <=> Stream!Closed(id)
  BY DEF IsView, Heard, SomeoneClosed, Stream!Told, Stream!Closed, Stream!Endpoint, Endpoint

(* What the slot of a channel tells of it. *)
LEMMA SlotTold ==
  ASSUME TypeInv, UniqueIds, OrderInv, NEW e \in Endpoint, NEW s \in Slot,
         channels[e][s].in_use, NEW id, id = channels[e][s].id
  PROVE  /\ id \in Id
         /\ channels[e][s].close_rcvd <=> Stream!Told(e, id, "CLOSED")
         /\ id \in closers[e] => channels[e][s].close_requested
         /\ Stream!Told(Peer(e), id, "REMOTE_EOF") => channels[e][s].eof_requested
<1> PICK p : p = Peer(e)
  OBVIOUS
<1>1. id \in Id /\ Chan(e, id) = channels[e][s] /\ p \in Endpoint
  BY SlotFacts, PeerEndpoint
<1>2. PICK V \in View : IsView(V, id)
  BY <1>1, ViewExists DEF HaveViews
<1>3. EndsInv(V, id, e, p) /\ EndsInv(V, id, p, e)
  BY <1>1, <1>2, TwoEnds DEF OrderInv
<1>4. V.chan[e] = channels[e][s] /\ Tracked(V, e)
  BY <1>1, <1>2 DEF IsView, Tracked
<1>5. /\ V.chan[e].close_rcvd <=> Heard(V, e, "CLOSED")
      /\ SlotInv(V.chan[e], V.accepted[e], V.closed[e])
  BY <1>3, <1>4, EndParts DEF EndsInv
<1>6. Heard(V, p, "REMOTE_EOF") => V.chan[e].eof_sent
  BY <1>3, <1>4 DEF EndsInv, EofInv
<1>7. /\ Heard(V, e, "CLOSED") <=> Stream!Told(e, id, "CLOSED")
      /\ Heard(V, p, "REMOTE_EOF") <=> Stream!Told(p, id, "REMOTE_EOF")
      /\ V.closed[e] <=> id \in closers[e]
  BY <1>1, <1>2, ToldFacts DEF IsView
<1> QED
  BY <1>1, <1>4, <1>5, <1>6, <1>7 DEF SlotInv

LEMMA SameEnds ==
  Stream!Endpoint = Endpoint /\ \A e : Stream!Peer(e) = Peer(e)
  BY DEF Stream!Endpoint, Stream!Peer, Endpoint, Peer

(* write() accepts bytes. *)
LEMMA WriteAccepts ==
  ASSUME TypeInv, UniqueIds, OrderInv, ArrivedIs, ArrivedIs',
         NEW e \in Endpoint, NEW s \in Slot, Write(e, s)
  PROVE  \E id \in Id : Stream!Accept(e, id)
<1> PICK old : old = channels[e][s]
  OBVIOUS
<1> PICK id : id = old.id
  OBVIOUS
<1>1. old.in_use /\ ~old.eof_requested /\ ~old.close_requested /\ ~old.close_rcvd
  BY DEF Write
<1>2. PICK n \in 1 .. MaxBytes[e] :
        /\ SetChannel(e, s, [old EXCEPT !.written = old.written + n])
        /\ accepted' = [accepted EXCEPT ![e][id] = accepted[e][id] + n]
  BY DEF Write
<1>3. /\ id \in Id /\ ~Stream!Told(e, id, "CLOSED") /\ id \notin closers[e]
      /\ ~Stream!Told(Peer(e), id, "REMOTE_EOF")
  BY <1>1, SlotTold
<1>4. UNCHANGED <<delivered, told, closers>>
  BY DEF Write
<1>5. SameArrived
  <2> PICK c : c = [old EXCEPT !.written = old.written + n]
    OBVIOUS
  <2>1. old \in Channel
    BY <1>1, SlotFacts
  <2>2. c.inbuf = old.inbuf /\ c.in_use /\ c.id = old.id
    BY <1>1, <2>1 DEF Channel
  <2>3. SetChannel(e, s, c)
    BY <1>2
  <2> QED
    BY <1>1, <1>4, <2>2, <2>3, SlotKept
<1>6. n \in Nat /\ n > 0
  BY ConstantsAssumption DEF ConstantsAssumption
<1>7. accepted \in [Endpoint -> [Id -> Nat]]
  BY TypeInvUse
<1>8. accepted'[e][id] = accepted[e][id] + n /\ accepted[e][id] \in Nat
  BY <1>2, <1>3, <1>7
<1>9. accepted'[e][id] > accepted[e][id]
  BY <1>6, <1>8
<1>10. accepted' = [accepted EXCEPT ![e][id] = accepted'[e][id]]
  BY <1>2, <1>8
<1>11. Stream!Accept(e, id)
  BY <1>3, <1>4, <1>5, <1>9, <1>10, SameEnds DEF Stream!Accept, SameArrived
<1> QED
  BY <1>3, <1>11

(* close() by the channel's own consumer. *)
LEMMA CloseCloses ==
  ASSUME TypeInv, UniqueIds, OrderInv, ArrivedIs, ArrivedIs',
         NEW e \in Endpoint, NEW s \in Slot, Close(e, s)
  PROVE  \E id \in Id : Stream!Close(e, id)
<1> PICK old : old = channels[e][s]
  OBVIOUS
<1> PICK id : id = old.id
  OBVIOUS
<1>1. old.in_use /\ ~old.close_rcvd /\ SetChannel(e, s, DropPending(old))
  BY DEF Close
<1>2. id \in Id /\ ~Stream!Told(e, id, "CLOSED")
  BY <1>1, SlotTold
<1>3. UNCHANGED <<accepted, delivered, told>>
  BY DEF Close
<1>4. closers' = [closers EXCEPT ![e] = closers[e] \union {id}]
  BY DEF Close
<1>5. SameArrived
  <2>1. old \in Channel
    BY <1>1, SlotFacts
  <2>2. /\ DropPending(old).inbuf = old.inbuf /\ DropPending(old).in_use
        /\ DropPending(old).id = old.id
    BY <1>1, <2>1 DEF Channel, DropPending
  <2> QED
    BY <1>1, <1>3, <2>2, SlotKept
<1>6. Stream!Close(e, id)
  BY <1>2, <1>3, <1>4, <1>5 DEF Stream!Close, SameArrived
<1> QED
  BY <1>2, <1>6

(* The demux of EOF tells the consumer, when all has arrived. *)
LEMMA RecvEofTells ==
  ASSUME TypeInv, UniqueIds, OrderInv, ArrivedIs, ArrivedIs',
         NEW e \in Endpoint, RecvEof(e)
  PROVE  \E id \in Id : Stream!TellEof(e, id)
<1> PICK m : m = Head(Inbound(e))
  OBVIOUS
<1> PICK id : id = m.id
  OBVIOUS
<1> PICK p : p = Peer(e)
  OBVIOUS
<1>1. wire[p] # <<>> /\ m = Head(wire[p]) /\ m.msg = "EOF"
  BY DEF RecvEof, Arriving, Inbound
<1>2. PICK s \in Lookup(e, id) : SetChannel(e, s, [channels[e][s] EXCEPT !.remote_eof = TRUE])
  BY DEF RecvEof
<1> PICK old : old = channels[e][s]
  OBVIOUS
<1>3. /\ s \in Slot /\ old.in_use /\ old.id = id /\ old \in Channel /\ id \in Id
      /\ p \in Endpoint /\ Chan(e, id) = old
  BY LookupFacts, SlotFacts, PeerEndpoint
<1>4. PICK V \in View : IsView(V, id)
  BY <1>3, ViewExists DEF HaveViews
<1>5. EndsInv(V, id, e, p) /\ EndsInv(V, id, p, e)
  BY <1>3, <1>4, TwoEnds DEF OrderInv
<1>6. V.wire = wire /\ Tracked(V, e) /\ V.accepted[p] = accepted[p][id]
  BY <1>3, <1>4 DEF IsView, Tracked
<1>7. wire[p] \in Seq(Message)
  BY <1>3, TypeInvUse
<1>8. Has(wire[p], "EOF", id) /\ ~Has(wire[p], "DATA", id)
  <2>1. Tidy(wire[p], id)
    BY <1>5, <1>6 DEF EndsInv
  <2>2. ~Has(Tail(wire[p]), "DATA", id)
    BY <1>1, <1>7, <2>1, TailTidy
  <2>3. \A kind : Has(wire[p], kind, id) <=>
                    Has(Tail(wire[p]), kind, id) \/ (m.msg = kind /\ m.id = id)
    BY <1>1, <1>7, TailHas
  <2> QED
    BY <1>1, <2>2, <2>3
<1>9. ~Stream!Told(e, id, "REMOTE_EOF")
  <2>1. ~Heard(V, e, "REMOTE_EOF")
    BY <1>5, <1>6, <1>8 DEF EndsInv, EofInv
  <2> QED
    BY <1>4, <2>1, ToldFacts
<1>10. Stream!Closed(id) \/ Len(Arrived(e, id)) = accepted[p][id]
  <2>1. Reached(V, e) = Arrived(e, id)
    BY <1>3, <1>4, ReachedFacts
  <2>2. ~Gone(V, id, e, p)
    BY <1>6 DEF Gone
  <2>3. PICK b \in Nat : /\ Chain(wire[p], id, Len(Reached(V, e)), b)
                         /\ SomeoneClosed(V) \/ b = accepted[p][id]
    BY <1>5, <1>6, <1>8, <2>2 DEF EndsInv, StreamInv
  <2>4. Len(Reached(V, e)) \in Nat
    BY LenProperties, ConcatProperties DEF Reached, View, Channel
  <2>5. Len(Reached(V, e)) = b
    BY <1>7, <1>8, <2>3, <2>4, ChainEnds
  <2>6. SomeoneClosed(V) <=> Stream!Closed(id)
    BY <1>4, ToldFacts
  <2> QED
    BY Zenon, <2>1, <2>3, <2>5, <2>6
<1>11. /\ told' = [told EXCEPT ![e][id] = Append(told[e][id], "REMOTE_EOF")]
       /\ UNCHANGED <<accepted, delivered, closers>>
  BY DEF RecvEof, Tell
<1>12. SameArrived
  <2> PICK c : c = [old EXCEPT !.remote_eof = TRUE]
    OBVIOUS
  <2>1. c.inbuf = old.inbuf /\ c.in_use /\ c.id = old.id /\ SetChannel(e, s, c)
    BY <1>2, <1>3 DEF Channel
  <2> QED
    BY <1>3, <1>11, <2>1, SlotKept
<1>13. Stream!TellEof(e, id)
  BY <1>3, <1>9, <1>10, <1>11, <1>12, SameEnds DEF Stream!TellEof, SameArrived
<1> QED
  BY <1>3, <1>13

(* The demux of CLOSE tells the consumer. *)
LEMMA RecvCloseTells ==
  ASSUME TypeInv, UniqueIds, OrderInv, ArrivedIs, ArrivedIs',
         NEW e \in Endpoint, RecvClose(e)
  PROVE  \E id \in Id : Stream!TellClosed(e, id)
<1> PICK m : m = Head(Inbound(e))
  OBVIOUS
<1> PICK id : id = m.id
  OBVIOUS
<1> PICK p : p = Peer(e)
  OBVIOUS
<1>1. wire[p] # <<>> /\ m = Head(wire[p]) /\ m.msg = "CLOSE"
  BY DEF RecvClose, Arriving, Inbound
<1>2. PICK s \in Lookup(e, id) :
        LET c == [channels[e][s] EXCEPT !.close_rcvd = TRUE]
        IN  SetChannel(e, s, MaybeRelease(
              IF c.close_sent THEN c ELSE [DropPending(c) EXCEPT !.close_sent = TRUE]))
  BY DEF RecvClose
<1> PICK old : old = channels[e][s]
  OBVIOUS
<1>3. /\ s \in Slot /\ old.in_use /\ old.id = id /\ old \in Channel /\ id \in Id
      /\ p \in Endpoint /\ Chan(e, id) = old
  BY LookupFacts, SlotFacts, PeerEndpoint
<1>4. PICK V \in View : IsView(V, id)
  BY <1>3, ViewExists DEF HaveViews
<1>5. EndsInv(V, id, e, p)
  BY <1>3, <1>4 DEF OrderInv, ViewInv
<1>6. V.wire = wire /\ Tracked(V, e)
  BY <1>3, <1>4 DEF IsView, Tracked
<1>7. Has(wire[p], "CLOSE", id)
  <2>1. wire[p] \in Seq(Message)
    BY <1>3, TypeInvUse
  <2> QED
    BY <1>1, <2>1, TailHas
<1>8. ~Stream!Told(e, id, "CLOSED")
  <2>1. ~Heard(V, e, "CLOSED")
    BY <1>5, <1>6, <1>7 DEF EndsInv, CloseInv
  <2> QED
    BY <1>4, <2>1, ToldFacts
<1>9. Stream!Closed(id) \/ id \in OwnId(e)
  <2>1. ~Gone(V, id, e, p)
    BY <1>6 DEF Gone
  <2>2. SomeoneClosed(V) \/ id \in OwnId(e)
    BY <1>5, <1>6, <1>7, <2>1 DEF EndsInv, ReasonInv
  <2> QED
    BY <1>4, <2>2, ToldFacts
<1>10. /\ told' = [told EXCEPT ![e][id] = Append(told[e][id], "CLOSED")]
       /\ UNCHANGED <<accepted, delivered, closers>>
  BY DEF RecvClose, Tell
<1>11. SameArrived
  <2> PICK c : c = [old EXCEPT !.close_rcvd = TRUE]
    OBVIOUS
  <2>1. c \in Channel /\ c.inbuf = old.inbuf /\ c.in_use /\ c.id = old.id
    BY <1>3 DEF Channel
  <2> PICK g : g = IF c.close_sent THEN c ELSE [DropPending(c) EXCEPT !.close_sent = TRUE]
    OBVIOUS
  <2>2. g.inbuf = old.inbuf /\ g.in_use /\ g.id = old.id
    BY <2>1 DEF Channel, DropPending
  <2>3. SetChannel(e, s, MaybeRelease(g))
    BY <1>2
  <2>4. MaybeRelease(g).inbuf = g.inbuf /\ (MaybeRelease(g) = g \/ MaybeRelease(g) = FreeChannel)
    BY ReleaseFacts
  <2> QED
    BY <1>3, <1>10, <2>2, <2>3, <2>4, SlotKept
<1>12. Stream!TellClosed(e, id)
  BY <1>3, <1>8, <1>9, <1>10, <1>11 DEF Stream!TellClosed, SameArrived
<1> QED
  BY <1>3, <1>12

(* The demux of DATA brings the next bytes. *)
LEMMA RecvDataArrives ==
  ASSUME TypeInv, UniqueIds, OrderInv, ArrivedIs, ArrivedIs',
         NEW e \in Endpoint, RecvData(e)
  PROVE  \E id \in Id : Stream!Arrive(e, id)
<1>1. PICK m, id, s, g, msgs : DataTaken(e, m, id, s, g, msgs)
  BY RecvDataFacts
<1> PICK p : p = Peer(e)
  OBVIOUS
<1> PICK old : old = channels[e][s]
  OBVIOUS
<1>2. /\ wire[p] # <<>> /\ m = Head(wire[p]) /\ m.msg = "DATA" /\ id = m.id
      /\ id \in Id /\ s \in Lookup(e, id) /\ KeepsSlot(old, g) /\ SetChannel(e, s, g)
      /\ UNCHANGED <<accepted, told, closers>>
      /\ OthersKeep(delivered, delivered', e, id)
      /\ Gains(delivered'[e][id], g.inbuf, delivered[e][id], old.inbuf, m.data)
  BY <1>1 DEF DataTaken, Inbound
<1>3. /\ s \in Slot /\ old.in_use /\ old.id = id /\ p \in Endpoint /\ Chan(e, id) = old
      /\ g.in_use /\ g.id = id
  BY <1>2, LookupFacts, SlotFacts, PeerEndpoint DEF KeepsSlot
<1>4. PICK V \in View : IsView(V, id)
  BY <1>2, ViewExists DEF HaveViews
<1>5. EndsInv(V, id, e, p) /\ EndsInv(V, id, p, e)
  BY <1>2, <1>3, <1>4, TwoEnds DEF OrderInv
<1>6. V.wire = wire /\ Tracked(V, e) /\ V.accepted[p] = accepted[p][id]
  BY <1>3, <1>4 DEF IsView, Tracked
<1> PICK t : t = Tail(wire[p])
  OBVIOUS
<1>7. DataFound(V, id, e, p, wire[p], m, t)
  <2>1. Leaves(V, p, wire[p], m, t)
    BY <1>2, <1>6 DEF Leaves
  <2> QED
    BY <1>2, <1>3, <1>5, <1>6, <2>1, DataFacts
<1>8. Reached(V, e) = Arrived(e, id)
  BY <1>2, <1>4, ReachedFacts
<1>9. PICK y \in Nat, b \in Nat :
        /\ y > Len(Reached(V, e)) /\ y <= b /\ b <= V.accepted[p]
        /\ Reached(V, e) \o m.data = [k \in 1 .. y |-> k]
  BY <1>7 DEF DataFound
<1>10. /\ OnlyArrives(e, id)
       /\ Arrived(e, id)' = delivered'[e][id] \o g.inbuf
       /\ Arrived(e, id) = delivered[e][id] \o old.inbuf
  <2>1. OnlyArrives(e, id) /\ ArrivesAs(e, id, s, g)
    BY <1>2, <1>3, OneArrives
  <2> QED
    BY Zenon, <2>1 DEF ArrivesAs
<1>11. Arrived(e, id)' = [k \in 1 .. y |-> k]
  <2>1. Arrived(e, id)' = (delivered[e][id] \o old.inbuf) \o m.data
    BY Zenon, <1>2, <1>10 DEF Gains
  <2>2. Arrived(e, id)' = Reached(V, e) \o m.data
    BY Zenon, <1>8, <1>10, <2>1
  <2> QED
    BY Zenon, <1>9, <2>2
<1>12. /\ y > Len(Reached(V, e)) /\ y <= accepted[p][id]
       /\ Len(Reached(V, e)) \in Nat /\ accepted[p][id] \in Nat
  <2>1. Len(Reached(V, e)) \in Nat
    BY LenProperties, ConcatProperties DEF Reached, View, Channel
  <2>2. y > Len(Reached(V, e)) /\ y <= b /\ b <= accepted[p][id] /\ accepted[p][id] \in Nat
    <3>1. y > Len(Reached(V, e)) /\ y <= b /\ b <= V.accepted[p]
      BY Zenon, <1>9
    <3> QED
      BY <1>2, <1>3, <1>6, <3>1, TypeInvUse
  <2> HIDE <1>9, <1>10
  <2> QED
    BY <2>1, <2>2
<1>13. y \in (Len(Arrived(e, id)) + 1) .. accepted[p][id]
  BY <1>8, <1>12
<1>14. ~Stream!Told(e, id, "REMOTE_EOF") /\ ~Stream!Told(e, id, "CLOSED")
  <2>1. ~Heard(V, e, "REMOTE_EOF") /\ ~Heard(V, e, "CLOSED")
    BY Zenon, <1>7 DEF DataFound
  <2> QED
    BY <1>4, <2>1, ToldFacts
<1>15. [f \in Endpoint |-> [j \in Id |-> Arrived(f, j)']]
         = [[f \in Endpoint |-> [j \in Id |-> Arrived(f, j)]]
              EXCEPT ![e][id] = [k \in 1 .. y |-> k]]
  <2> PICK z : z = [k \in 1 .. y |-> k]
    OBVIOUS
  <2>1. \A f \in Endpoint, j \in Id : (f # e \/ j # id) => Arrived(f, j)' = Arrived(f, j)
    BY Zenon, <1>10 DEF OnlyArrives
  <2>2. Arrived(e, id)' = z
    BY <1>11
  <2>3. PICK A : A = [f \in Endpoint |-> [j \in Id |-> Arrived(f, j)]]
    OBVIOUS
  <2>4. PICK B : B = [f \in Endpoint |-> [j \in Id |-> Arrived(f, j)']]
    OBVIOUS
  <2>5. \A f \in Endpoint, j \in Id : B[f][j] = (IF f = e /\ j = id THEN z ELSE A[f][j])
    BY <2>1, <2>2, <2>3, <2>4
  <2>6. B = [A EXCEPT ![e][id] = z]
    <3> DEFINE S == {A[f][j] : f \in Endpoint, j \in Id} \union {z}
    <3>1. \A f \in Endpoint, j \in Id : A[f][j] \in S /\ B[f][j] \in S /\ z \in S
      BY <2>5
    <3> HIDE DEF S
    <3>2. A \in [Endpoint -> [Id -> S]] /\ B \in [Endpoint -> [Id -> S]]
      BY <2>3, <2>4, <3>1
    <3>3. z \in S /\ id \in Id
      BY <1>2, <3>1
    <3>4. PICK C : C = [A[e] EXCEPT ![id] = z]
      OBVIOUS
    <3>5. B[e] = C
      <4>1. C \in [Id -> S] /\ B[e] \in [Id -> S]
        BY <3>2, <3>3, <3>4
      <4>2. \A j \in Id : B[e][j] = C[j]
        BY <2>5, <3>2, <3>3, <3>4
      <4> QED
        BY <4>1, <4>2
    <3>6. \A f \in Endpoint : f # e => B[f] = A[f]
      <4> TAKE f \in Endpoint
      <4> HAVE f # e
      <4>1. A[f] \in [Id -> S] /\ B[f] \in [Id -> S]
        BY <3>2
      <4>2. \A j \in Id : B[f][j] = A[f][j]
        BY <2>5
      <4> QED
        BY <4>1, <4>2
    <3>7. B = [A EXCEPT ![e] = C]
      BY <3>2, <3>5, <3>6
    <3> QED
      BY <3>4, <3>7
  <2> QED
    BY <2>3, <2>4, <2>6
<1>16. Stream!Arrive(e, id)
  BY <1>2, <1>3, <1>13, <1>14, <1>15, SameEnds DEF Stream!Arrive
<1> QED
  BY <1>2, <1>16

(* read() hands out bytes that had arrived. *)
LEMMA ReadKeeps ==
  ASSUME TypeInv, UniqueIds, ArrivedIs, ArrivedIs',
         NEW e \in Endpoint, NEW s \in Slot, Read(e, s)
  PROVE  SameArrived
<1> PICK old : old = channels[e][s]
  OBVIOUS
<1> PICK id : id = old.id
  OBVIOUS
<1>1. old.in_use /\ old \in Channel /\ id \in Id /\ s \in Lookup(e, id)
  BY SlotFacts DEF Read
<1>2. PICK n \in 1 .. Len(old.inbuf) :
        LET taken == [old EXCEPT !.inbuf = SubSeq(old.inbuf, n + 1, Len(old.inbuf))]
        IN  /\ SetChannel(e, s, MaybeRelease(GrantCredit(taken, n)))
            /\ delivered' = [delivered EXCEPT ![e][id] =
                                delivered[e][id] \o SubSeq(old.inbuf, 1, n)]
  BY Zenon DEF Read
<1>3. PICK read : read = SubSeq(old.inbuf, 1, n)
  OBVIOUS
<1>4. PICK rest : rest = SubSeq(old.inbuf, n + 1, Len(old.inbuf))
  OBVIOUS
<1>5. PICK taken : taken = [old EXCEPT !.inbuf = rest]
  OBVIOUS
<1>6. PICK g : g = GrantCredit(taken, n)
  OBVIOUS
<1>7. PICK c : c = MaybeRelease(g)
  OBVIOUS
<1>8. SetChannel(e, s, c) /\ delivered' = [delivered EXCEPT ![e][id] = delivered[e][id] \o read]
  BY Zenon, <1>2, <1>3, <1>4, <1>5, <1>6, <1>7
<1>9. old.inbuf \in Seq(Nat) /\ n \in 1 .. Len(old.inbuf) /\ delivered[e][id] \in Seq(Nat)
  BY <1>1, TypeInvUse DEF Channel
<1>10. /\ n \in Nat /\ read \in Seq(Nat) /\ rest \in Seq(Nat)
  BY <1>3, <1>4, <1>9, SplitType
<1>11. taken \in Channel /\ taken.inbuf = rest /\ taken.in_use /\ taken.id = id
  BY <1>1, <1>5, <1>10 DEF Channel
<1>12. g.inbuf = rest /\ g.in_use /\ g.id = id
  BY <1>6, <1>10, <1>11, GrantKeeps DEF KeepsSlot
<1>13. c.inbuf = rest /\ (c = FreeChannel \/ (c.in_use /\ c.id = id))
  BY <1>7, <1>12, ReleaseFacts
<1>14. OthersKeep(delivered, delivered', e, id)
  BY Zenon, <1>8 DEF OthersKeep
<1>15. /\ OnlyArrives(e, id)
       /\ Arrived(e, id)' = delivered'[e][id] \o c.inbuf
       /\ Arrived(e, id) = delivered[e][id] \o old.inbuf
  <2>1. SetChannel(e, s, c)
    BY Zenon, <1>8
  <2>2. OnlyArrives(e, id) /\ ArrivesAs(e, id, s, c)
    BY <1>1, <1>13, <1>14, <2>1, OneArrives
  <2> QED
    BY Zenon, <2>2 DEF ArrivesAs
<1>16. delivered'[e][id] = delivered[e][id] \o read
  <2>1. PICK x : delivered' = [delivered EXCEPT ![e][id] = x] /\ x = delivered[e][id] \o read
    BY Zenon, <1>8
  <2>2. delivered'[e][id] = x
    <3>1. delivered' = [delivered EXCEPT ![e][id] = x]
      BY Zenon, <2>1
    <3>2. delivered \in [Endpoint -> [Id -> Seq(Nat)]]
      BY TypeInvUse
    <3> QED
      BY <1>1, <3>1, <3>2
  <2> QED
    BY Zenon, <2>1, <2>2
<1>17. (delivered[e][id] \o read) \o rest = delivered[e][id] \o old.inbuf
  <2>1. (delivered[e][id] \o SubSeq(old.inbuf, 1, n)) \o SubSeq(old.inbuf, n + 1, Len(old.inbuf))
          = delivered[e][id] \o old.inbuf
    BY <1>9, ReadMoves
  <2> QED
    BY Zenon, <1>3, <1>4, <2>1
<1>18. Arrived(e, id)' = Arrived(e, id)
  BY Zenon, <1>13, <1>15, <1>16, <1>17
<1> QED
  BY Zenon, <1>15, <1>18 DEF SameArrived, OnlyArrives

(* The steps no consumer of the stream notices. *)
LEMMA QuietCalls ==
  ASSUME TypeInv, UniqueIds, ArrivedIs, ArrivedIs', NEW e \in Endpoint, NEW s \in Slot,
         Flush(e, s) \/ SendEof(e, s)
  PROVE  SameArrived
<1> PICK old : old = channels[e][s]
  OBVIOUS
<1>1. old.in_use /\ old \in Channel /\ delivered' = delivered
  BY SlotFacts DEF Flush, SendEof
<1>2. \E c : /\ SetChannel(e, s, c) /\ c.inbuf = old.inbuf
             /\ c.in_use /\ c.id = old.id
  <2>1. CASE Flush(e, s)
    <3> PICK c : c = [old EXCEPT !.flush_mark = old.written]
      OBVIOUS
    <3>1. SetChannel(e, s, c)
      BY <2>1 DEF Flush
    <3>2. c.inbuf = old.inbuf /\ c.in_use /\ c.id = old.id
      BY <1>1 DEF Channel
    <3> QED
      BY <3>1, <3>2
  <2>2. CASE SendEof(e, s)
    <3> PICK c : c = [old EXCEPT !.flush_mark = old.written, !.eof_requested = TRUE]
      OBVIOUS
    <3>1. SetChannel(e, s, c)
      BY <2>2 DEF SendEof
    <3>2. c.inbuf = old.inbuf /\ c.in_use /\ c.id = old.id
      BY <1>1 DEF Channel
    <3> QED
      BY <3>1, <3>2
  <2> QED
    BY <2>1, <2>2
<1> QED
  BY <1>1, <1>2, SlotKept

LEMMA EmitKeeps ==
  ASSUME TypeInv, UniqueIds, ArrivedIs, ArrivedIs', NEW e \in Endpoint, Emit(e)
  PROVE  SameArrived
<1>1. CASE EmitNothing(e)
  BY <1>1, ChannelsKept DEF EmitNothing
<1> PICK s : s = PumpSlot(e)
  OBVIOUS
<1> PICK old : old = channels[e][s]
  OBVIOUS
<1>2. s \in Slot
  BY PumpSlotType DEF TypeInv
<1>3. CASE EmitData(e)
  <2>1. old.in_use /\ old \in Channel /\ delivered' = delivered
    BY <1>2, <1>3, SlotFacts DEF EmitData
  <2> PICK n : n = Chunk(old)
    OBVIOUS
  <2> PICK c : c = [old EXCEPT !.outbuf_off = old.outbuf_off + n,
                               !.send_window = old.send_window - n]
    OBVIOUS
  <2>2. SetChannel(e, s, c)
    BY <1>3 DEF EmitData
  <2>3. c.inbuf = old.inbuf /\ c.in_use /\ c.id = old.id
    BY <2>1 DEF Channel
  <2> QED
    BY <1>2, <2>1, <2>2, <2>3, SlotKept
<1>4. CASE EmitSeals(e)
  <2>1. old.in_use /\ old \in Channel /\ delivered' = delivered
    BY <1>2, <1>4, SlotFacts DEF EmitSeals
  <2> PICK g : g = [old EXCEPT !.eof_sent = old.eof_requested,
                               !.close_sent = old.close_requested]
    OBVIOUS
  <2>2. SetChannel(e, s, MaybeRelease(g))
    BY <1>4 DEF EmitSeals
  <2>3. g.inbuf = old.inbuf /\ g.in_use /\ g.id = old.id
    BY <2>1 DEF Channel
  <2>4. MaybeRelease(g).inbuf = g.inbuf /\ (MaybeRelease(g) = g \/ MaybeRelease(g) = FreeChannel)
    BY ReleaseFacts
  <2> QED
    BY <1>2, <2>1, <2>2, <2>3, <2>4, SlotKept
<1> QED
  BY <1>1, <1>3, <1>4 DEF Emit

LEMMA OpenKeeps ==
  ASSUME TypeInv, UniqueIds, ArrivedIs, ArrivedIs', NEW e \in Endpoint,
         Open(e) \/ RecvOpen(e)
  PROVE  SameArrived
<1>1. delivered' = delivered
  BY DEF Open, RecvOpen
<1>2. ASSUME NEW id \in Id, NEW s \in Slot, NEW sink, NEW send, NEW recv,
             IsFirstFree(e, s), SetChannel(e, s, DynamicChannel(id, sink, send, recv)),
             Lookup(e, id) = {}
      PROVE  SameArrived
  <2> PICK c : c = DynamicChannel(id, sink, send, recv)
    OBVIOUS
  <2>1. c.in_use /\ c.id = id /\ c.inbuf = <<>>
    BY NewSlotType DEF NewSlot
  <2>2. s \in FreeSlots(e) /\ SetChannel(e, s, c)
    BY <1>2 DEF IsFirstFree
  <2> QED
    BY <1>1, <1>2, <2>1, <2>2, SlotAdded
<1>3. CASE Open(e)
  <2> PICK id : id = DYNAMIC_BASE + next_dynamic_offset[e] + Parity(e)
    OBVIOUS
  <2>1. id \in Id /\ id \in OwnId(e)
    BY <1>3, NewIdType DEF Open
  <2>2. ~Allocated(id, next_dynamic_offset)
    BY <2>1 DEF Allocated, Parity, DYNAMIC_BASE, TypeInv, TypeOK
  <2>3. Lookup(e, id) = {}
    BY <2>2 DEF Lookup, UniqueIds, Allocated
  <2>4. \E s \in Slot, window \in InitialWindows, sink \in Sinks :
          /\ IsFirstFree(e, s)
          /\ SetChannel(e, s, DynamicChannel(id, sink, WINDOW_DEFAULT, OrDefault(window)))
    BY <1>3 DEF Open
  <2> QED
    BY <1>2, <2>1, <2>3, <2>4
<1>4. CASE RecvOpen(e)
  <2> PICK m : m = Head(Inbound(e))
    OBVIOUS
  <2>1. m.id \in Id
    <3>1. Inbound(e) # <<>> /\ Inbound(e) \in Seq(Message)
      BY <1>4, PeerEndpoint, TypeInvUse DEF RecvOpen, Arriving, Inbound
    <3>2. m \in Message
      BY <3>1, HeadTailFacts
    <3> QED
      BY <3>2 DEF Message
  <2>2. CASE UNCHANGED channels
    BY <1>1, <2>2, ChannelsKept
  <2>3. CASE /\ Lookup(e, m.id) = {}
             /\ \E s \in Slot, sink \in Sinks :
                  /\ IsFirstFree(e, s)
                  /\ SetChannel(e, s, DynamicChannel(m.id, sink, OrDefault(m.window),
                                                     WINDOW_DEFAULT))
    BY <1>2, <2>1, <2>3
  <2> QED
    BY <1>4, <2>2, <2>3 DEF RecvOpen
<1> QED
  BY <1>3, <1>4

LEMMA WindowAdjustKeeps ==
  ASSUME TypeInv, UniqueIds, ArrivedIs, ArrivedIs', NEW e \in Endpoint, RecvWindowAdjust(e)
  PROVE  SameArrived
<1> PICK id : id = Head(Inbound(e)).id
  OBVIOUS
<1>1. PICK s \in Lookup(e, id) :
        \E n : SetChannel(e, s, [channels[e][s] EXCEPT !.send_window = n])
  BY DEF RecvWindowAdjust
<1>n. PICK n : SetChannel(e, s, [channels[e][s] EXCEPT !.send_window = n])
  BY <1>1
<1> PICK old : old = channels[e][s]
  OBVIOUS
<1> PICK c : c = [old EXCEPT !.send_window = n]
  OBVIOUS
<1>2. s \in Slot /\ old.in_use /\ old \in Channel
  BY LookupFacts, SlotFacts
<1>3. c.inbuf = old.inbuf /\ c.in_use /\ c.id = old.id
  BY <1>2 DEF Channel
<1>4. delivered' = delivered
  BY DEF RecvWindowAdjust
<1> QED
  BY <1>n, <1>2, <1>3, <1>4, SlotKept

LEMMA InitStream == Init => Stream!Init
<1> SUFFICES ASSUME Init PROVE Stream!Init
  OBVIOUS
<1>1. \A e \in Endpoint, id \in Id : Arrived(e, id) = <<>>
  BY DEF Init, Arrived, Lookup, InUse, FreeChannel
<1> QED
  BY <1>1, SameEnds DEF Init, Stream!Init

LEMMA StreamStep ==
  TypeInv /\ TypeInv' /\ UniqueIds /\ UniqueIds' /\ OrderInv /\ [Next]_vars
    => [Stream!Next]_(Stream!vars)
<1> SUFFICES ASSUME TypeInv, TypeInv', UniqueIds, UniqueIds', OrderInv, [Next]_vars
             PROVE  Stream!Next \/ UNCHANGED Stream!vars
  OBVIOUS
<1>1. ArrivedIs /\ ArrivedIs'
  BY ArrivedChan, PTL
<1>2. ASSUME SameArrived, UNCHANGED <<accepted, told, closers>>
      PROVE  UNCHANGED Stream!vars
  BY <1>2 DEF SameArrived, Stream!vars
<1>3. ASSUME NEW e \in Endpoint, NEW id \in Id,
             \/ Stream!Accept(e, id) \/ Stream!Arrive(e, id) \/ Stream!TellEof(e, id)
             \/ Stream!Close(e, id) \/ Stream!TellClosed(e, id)
      PROVE  Stream!Next
  BY <1>3, SameEnds DEF Stream!Next
<1>4. CASE UNCHANGED vars
  BY <1>1, <1>2, <1>4, ChannelsKept DEF vars
<1>5. ASSUME NEW e \in Endpoint, NEW s \in Slot, Consumer(e, s)
      PROVE  Stream!Next \/ UNCHANGED Stream!vars
  <2>1. CASE Write(e, s)
    BY <1>1, <1>3, <2>1, WriteAccepts
  <2>2. CASE Close(e, s)
    BY <1>1, <1>3, <2>2, CloseCloses
  <2>3. CASE Read(e, s)
    <3>1. UNCHANGED <<accepted, told, closers>>
      BY Zenon, <2>3 DEF Read
    <3> QED
      BY <1>1, <1>2, <2>3, <3>1, ReadKeeps
  <2>4. CASE Flush(e, s) \/ SendEof(e, s)
    <3>1. UNCHANGED <<accepted, told, closers>>
      BY <2>4 DEF Flush, SendEof
    <3> QED
      BY <1>1, <1>2, <2>4, <3>1, QuietCalls
  <2> QED
    BY <1>5, <2>1, <2>2, <2>3, <2>4 DEF Consumer
<1>6. ASSUME NEW e \in Endpoint, Open(e) \/ PumpWritable(e) \/ Emit(e)
      PROVE  UNCHANGED Stream!vars
  <2>1. UNCHANGED <<accepted, told, closers>>
    BY <1>6 DEF Open, PumpWritable, Emit, EmitData, EmitSeals, EmitNothing
  <2>2. SameArrived
    <3>1. PumpWritable(e) => channels' = channels /\ delivered' = delivered
      BY DEF PumpWritable
    <3> QED
      BY <1>1, <1>6, <3>1, OpenKeeps, EmitKeeps, ChannelsKept
  <2> QED
    BY <1>2, <2>1, <2>2
<1>7. ASSUME NEW e \in Endpoint, Recv(e)
      PROVE  Stream!Next \/ UNCHANGED Stream!vars
  <2>1. CASE RecvData(e)
    BY <1>1, <1>3, <2>1, RecvDataArrives
  <2>2. CASE RecvEof(e)
    BY <1>1, <1>3, <2>2, RecvEofTells
  <2>3. CASE RecvClose(e)
    BY <1>1, <1>3, <2>3, RecvCloseTells
  <2>4. CASE RecvOpen(e)
    BY <1>1, <1>2, <2>4, OpenKeeps DEF RecvOpen
  <2>5. CASE RecvWindowAdjust(e)
    BY <1>1, <1>2, <2>5, WindowAdjustKeeps DEF RecvWindowAdjust
  <2>6. CASE RecvUnknown(e)
    BY <1>1, <1>2, <2>6, ChannelsKept DEF RecvUnknown
  <2> QED
    BY <1>7, <2>1, <2>2, <2>3, <2>4, <2>5, <2>6 DEF Recv
<1> QED
  BY <1>4, <1>5, <1>6, <1>7 DEF Next

(* Each direction of a channel is an ordered byte stream that loses nothing  *)
(* while the channel is open; REMOTE_EOF and CLOSED are told at most once,   *)
(* REMOTE_EOF only behind the last byte unless somebody closed, CLOSED only   *)
(* after a close or a refusal, and nothing arrives after either: the promise  *)
(* of channel.h:14-50, kept by every interleaving of the two endpoints.       *)
THEOREM ChannelsAreStreams == Spec => ImplementsStream
<1>1. Init => Stream!Init
  BY InitStream
<1>2. TypeInv /\ TypeInv' /\ UniqueIds /\ UniqueIds' /\ OrderInv /\ [Next]_vars
        => [Stream!Next]_(Stream!vars)
  BY StreamStep
<1>3. IdInv => UniqueIds
  BY DEF IdInv
<1> QED
  BY <1>1, <1>2, <1>3, OrderInvariant, PTL DEF Spec, ImplementsStream, Stream!Spec

-----------------------------------------------------------------------------
(* Sums over a wire.                                                        *)

(* A set of naturals has a least element. *)
LEMMA LeastOf ==
  ASSUME NEW T, T \subseteq Nat, T # {}
  PROVE  \E x \in T : \A y \in T : ~(y < x)
<1>1. IsWellFoundedOn(OpToRel(<, Nat), Nat)
  BY NatLessThanWellFounded
<1>2. PICK x \in T : \A y \in T : ~(<<y, x>> \in OpToRel(<, Nat))
  BY <1>1, WFMin
<1>3. \A y \in T : <<y, x>> \in OpToRel(<, Nat) <=> y < x
  BY DEF OpToRel
<1> QED
  BY <1>2, <1>3

(* A set that holds 0, and with every number below n the next one, holds 0 to n. *)
LEMMA CountUp ==
  ASSUME NEW n \in Nat, NEW G, 0 \in G, \A k \in 0 .. n : (k \in G /\ k < n) => k + 1 \in G
  PROVE  \A k \in 0 .. n : k \in G
<1> SUFFICES ASSUME NEW j \in 0 .. n, j \notin G PROVE FALSE
  OBVIOUS
<1> DEFINE T == {i \in 0 .. n : i \notin G}
<1>1. T \subseteq Nat /\ j \in T
  OBVIOUS
<1>2. PICK x \in T : \A y \in T : ~(y < x)
  <2>1. T # {}
    BY <1>1
  <2> HIDE DEF T
  <2> QED
    BY <1>1, <2>1, LeastOf
<1>3. x \in 0 .. n /\ x \notin G /\ x # 0
  BY <1>2
<1>4. x - 1 \in 0 .. n /\ x - 1 < x /\ x - 1 < n /\ (x - 1) + 1 = x
  BY <1>3
<1>5. x - 1 \in G
  BY <1>2, <1>4
<1> QED
  BY <1>3, <1>4, <1>5

(* f[k] is the credit of the first k messages of w for channel id. *)
Sums(f, w, id) ==
  /\ f \in [0 .. Len(w) -> Nat] /\ f[0] = 0
  /\ \A k \in 1 .. Len(w) : f[k] = f[k - 1] + Granted(w[k], id)

LEMMA GrantedType ==
  ASSUME NEW m \in Message, NEW id
  PROVE  Granted(m, id) \in Nat
  BY DEF Granted, Message

(* Such sums are the ones Credit adds up. *)
LEMMA CreditIs ==
  ASSUME NEW w \in Seq(Message), NEW id, NEW f, Sums(f, w, id)
  PROVE  Credit(w, id) = f[Len(w)]
<1> PICK n : n = Len(w)
  OBVIOUS
<1>1. n \in Nat
  BY LenProperties
<1> DEFINE Adds(s) == [k \in 0 .. Len(w) |-> IF k = 0 THEN 0 ELSE s[k - 1] + Granted(w[k], id)]
<1>2. f = Adds(f)
  <2>1. \A k \in 0 .. n : f[k] = IF k = 0 THEN 0 ELSE f[k - 1] + Granted(w[k], id)
    BY <1>1 DEF Sums
  <2> QED
    BY <2>1 DEF Sums
<1>3. PICK s : s = CHOOSE z : z = Adds(z)
  OBVIOUS
<1>4. s = Adds(s)
  BY <1>2, <1>3, Zenon
<1>5. s[0] = 0 /\ \A k \in 1 .. n : s[k] = s[k - 1] + Granted(w[k], id)
  <2>1. \A k \in 0 .. n : Adds(s)[k] = IF k = 0 THEN 0 ELSE s[k - 1] + Granted(w[k], id)
    OBVIOUS
  <2> HIDE DEF Adds
  <2>2. \A k \in 0 .. n : s[k] = IF k = 0 THEN 0 ELSE s[k - 1] + Granted(w[k], id)
    BY <1>4, <2>1
  <2> QED
    BY <1>1, <2>2
<1>6. \A k \in 0 .. n : k \in {i \in 0 .. n : s[i] = f[i]}
  <2> DEFINE G == {i \in 0 .. n : s[i] = f[i]}
  <2>1. 0 \in G
    BY <1>1, <1>5 DEF Sums
  <2>2. ASSUME NEW k \in 0 .. n, k \in G, k < n PROVE k + 1 \in G
    <3>1. k + 1 \in 1 .. n /\ k + 1 \in 0 .. n /\ (k + 1) - 1 = k
      BY <1>1, <2>2
    <3>2. s[k + 1] = s[k] + Granted(w[k + 1], id) /\ f[k + 1] = f[k] + Granted(w[k + 1], id)
      BY <1>5, <3>1 DEF Sums
    <3> QED
      BY <2>2, <3>1, <3>2
  <2> HIDE DEF G
  <2> QED
    BY <1>1, <2>1, <2>2, CountUp DEF G
<1>7. Credit(w, id) = s[Len(w)]
  BY <1>3, Zenon DEF Credit
<1>8. n \in 0 .. n
  BY <1>1
<1> QED
  BY <1>6, <1>7, <1>8

(* Every wire has them. *)
LEMMA HasSums ==
  ASSUME NEW w \in Seq(Message), NEW id
  PROVE  \E f : Sums(f, w, id)
<1> PICK n : n = Len(w)
  OBVIOUS
<1>1. n \in Nat
  BY LenProperties
<1> DEFINE Upto(f, k) == /\ f \in [0 .. k -> Nat] /\ f[0] = 0
                         /\ \A j \in 1 .. k : f[j] = f[j - 1] + Granted(w[j], id)
           G == {k \in 0 .. n : \E f : Upto(f, k)}
<1>2. 0 \in G
  <2>1. Upto([j \in 0 .. 0 |-> 0], 0)
    OBVIOUS
  <2> HIDE DEF Upto
  <2>2. \E f : Upto(f, 0)
    BY <2>1
  <2>3. 0 \in 0 .. n
    BY <1>1
  <2> QED
    BY <2>2, <2>3
<1>3. ASSUME NEW k \in 0 .. n, k \in G, k < n PROVE k + 1 \in G
  <2>1. PICK f : Upto(f, k)
    BY <1>3
  <2>2. k + 1 \in 1 .. n /\ k + 1 \in 0 .. n /\ k \in Nat
    BY <1>1, <1>3
  <2>3. PICK x \in Nat : x = Granted(w[k + 1], id)
    <3>1. w[k + 1] \in Message
      BY <2>2, ElementOfSeq
    <3> QED
      BY <3>1, GrantedType
  <2> DEFINE g == [j \in 0 .. k + 1 |-> IF j = k + 1 THEN f[k] + x ELSE f[j]]
  <2>4. g \in [0 .. k + 1 -> Nat] /\ g[0] = 0
    BY <2>1, <2>2
  <2>5. \A j \in 1 .. k + 1 : g[j] = g[j - 1] + Granted(w[j], id)
    <3> SUFFICES ASSUME NEW j \in 1 .. k + 1 PROVE g[j] = g[j - 1] + Granted(w[j], id)
      OBVIOUS
    <3>1. CASE j = k + 1
      BY <2>2, <2>3, <3>1
    <3>2. CASE j # k + 1
      <4>1. j \in 1 .. k /\ j \in 0 .. k + 1 /\ j - 1 \in 0 .. k + 1 /\ j - 1 # k + 1
        BY <2>2, <3>2
      <4>2. f[j] = f[j - 1] + Granted(w[j], id)
        BY <2>1, <4>1
      <4> QED
        BY <3>2, <4>1, <4>2
    <3> QED
      BY <3>1, <3>2
  <2> HIDE DEF g
  <2> QED
    BY <2>2, <2>4, <2>5
<1> HIDE DEF G
<1>4. n \in G
  BY <1>1, <1>2, <1>3, CountUp
<1>5. PICK f : Upto(f, n)
  BY <1>4 DEF G
<1> QED
  BY <1>5 DEF Sums

LEMMA CreditType ==
  ASSUME NEW w \in Seq(Message), NEW id
  PROVE  Credit(w, id) \in Nat
<1>1. PICK f : Sums(f, w, id)
  BY HasSums
<1>2. Len(w) \in 0 .. Len(w)
  BY LenProperties
<1> QED
  BY <1>1, <1>2, CreditIs DEF Sums

(* A message is appended. *)
LEMMA CreditAppend ==
  ASSUME NEW w \in Seq(Message), NEW m \in Message, NEW id
  PROVE  Credit(Append(w, m), id) = Credit(w, id) + Granted(m, id)
<1> PICK v : v = Append(w, m)
  OBVIOUS
<1> PICK n : n = Len(w)
  OBVIOUS
<1>1. /\ v \in Seq(Message) /\ Len(v) = n + 1 /\ n \in Nat /\ v[n + 1] = m
      /\ \A k \in 1 .. n : v[k] = w[k]
  BY AppendProperties, LenProperties
<1>2. PICK f : Sums(f, w, id)
  BY HasSums
<1>3. PICK x \in Nat : x = Granted(m, id)
  BY GrantedType
<1> DEFINE g == [j \in 0 .. n + 1 |-> IF j = n + 1 THEN f[n] + x ELSE f[j]]
<1>4. g \in [0 .. n + 1 -> Nat] /\ g[0] = 0 /\ g[n + 1] = f[n] + x
  <2>1. f \in [0 .. n -> Nat] /\ f[0] = 0
    BY <1>2 DEF Sums
  <2>2. /\ 0 \in 0 .. n + 1 /\ 0 # n + 1 /\ n + 1 \in 0 .. n + 1 /\ n \in 0 .. n
        /\ \A j \in 0 .. n + 1 : j # n + 1 => j \in 0 .. n
    BY <1>1
  <2>3. f[n] + x \in Nat
    BY <2>1, <2>2
  <2> QED
    BY <2>1, <2>2, <2>3
<1>5. \A j \in 1 .. n + 1 : g[j] = g[j - 1] + Granted(v[j], id)
  <2> SUFFICES ASSUME NEW j \in 1 .. n + 1 PROVE g[j] = g[j - 1] + Granted(v[j], id)
    OBVIOUS
  <2>1. CASE j = n + 1
    BY <1>1, <1>3, <2>1
  <2>2. CASE j # n + 1
    <3>1. j \in 1 .. n /\ j \in 0 .. n + 1 /\ j - 1 \in 0 .. n + 1 /\ j - 1 # n + 1
      BY <1>1, <2>2
    <3>2. f[j] = f[j - 1] + Granted(v[j], id)
      BY <1>1, <1>2, <3>1 DEF Sums
    <3> QED
      BY <2>2, <3>1, <3>2
  <2> QED
    BY <2>1, <2>2
<1> HIDE DEF g
<1>6. Sums(g, v, id)
  BY <1>1, <1>4, <1>5 DEF Sums
<1>7. Credit(v, id) = g[n + 1] /\ Credit(w, id) = f[n]
  <2>1. Credit(v, id) = g[Len(v)] /\ Credit(w, id) = f[Len(w)]
    BY Zenon, <1>1, <1>2, <1>6, CreditIs
  <2> QED
    BY Zenon, <1>1, <2>1
<1> QED
  BY <1>3, <1>4, <1>7

(* The first message is taken off. *)
LEMMA CreditTail ==
  ASSUME NEW w \in Seq(Message), w # <<>>, NEW id
  PROVE  Credit(w, id) = Granted(Head(w), id) + Credit(Tail(w), id)
<1> PICK t : t = Tail(w)
  OBVIOUS
<1> PICK h : h = Head(w)
  OBVIOUS
<1> PICK n : n = Len(w)
  OBVIOUS
<1>1. /\ h \in Message /\ t \in Seq(Message) /\ n \in Nat /\ n >= 1 /\ Len(t) = n - 1
      /\ w[1] = h /\ \A k \in 1 .. n - 1 : t[k] = w[k + 1]
  BY HeadTailFacts
<1>2. PICK f : Sums(f, t, id)
  BY <1>1, HasSums
<1>3. PICK x \in Nat : x = Granted(h, id)
  BY <1>1, GrantedType
<1> DEFINE g == [j \in 0 .. n |-> IF j = 0 THEN 0 ELSE x + f[j - 1]]
<1>f. f \in [0 .. n - 1 -> Nat] /\ f[0] = 0
      /\ \A k \in 1 .. n - 1 : f[k] = f[k - 1] + Granted(t[k], id)
  BY <1>1, <1>2 DEF Sums
<1>4. g \in [0 .. n -> Nat] /\ g[0] = 0 /\ g[n] = x + f[n - 1]
  BY <1>1, <1>f
<1>5. \A j \in 1 .. n : g[j] = g[j - 1] + Granted(w[j], id)
  <2> SUFFICES ASSUME NEW j \in 1 .. n PROVE g[j] = g[j - 1] + Granted(w[j], id)
    OBVIOUS
  <2>1. CASE j = 1
    BY <1>1, <1>3, <1>f, <2>1
  <2>2. CASE j # 1
    <3>1. PICK i : i = j - 1
      OBVIOUS
    <3>2. i \in 1 .. n - 1 /\ i \in 0 .. n /\ i # 0 /\ j = i + 1 /\ i - 1 \in 0 .. n - 1
      BY <1>1, <2>2, <3>1
    <3>a. t[i] = w[j]
      BY <1>1, <3>2
    <3>b. f[i] \in Nat /\ f[i - 1] \in Nat
      <4>1. i \in 0 .. n - 1 /\ i - 1 \in 0 .. n - 1
        BY <1>1, <3>2
      <4>2. f \in [0 .. n - 1 -> Nat]
        BY <1>f
      <4> QED
        BY <4>1, <4>2
    <3>3. f[i] = f[i - 1] + Granted(w[j], id) /\ f[i] \in Nat /\ f[i - 1] \in Nat
      BY <1>f, <3>2, <3>a, <3>b
    <3>4. g[j] = x + f[i] /\ g[i] = x + f[i - 1]
      BY <3>1, <3>2
    <3>5. Granted(w[j], id) \in Nat
      BY <1>1, <3>2, ElementOfSeq, GrantedType
    <3> QED
      BY <3>1, <3>3, <3>4, <3>5
  <2> QED
    BY <2>1, <2>2
<1> HIDE DEF g
<1>6. Sums(g, w, id)
  BY <1>4, <1>5 DEF Sums
<1>7. Credit(w, id) = g[n] /\ Credit(t, id) = f[n - 1]
  BY <1>1, <1>2, <1>6, CreditIs
<1> QED
  BY <1>3, <1>4, <1>7

(* No message, no credit. *)
LEMMA CreditQuiet ==
  ASSUME NEW w \in Seq(Message), NEW id, ~Has(w, "WINDOW_ADJUST", id)
  PROVE  Credit(w, id) = 0
<1>1. Len(w) \in Nat
  BY LenProperties
<1> DEFINE f == [k \in 0 .. Len(w) |-> 0]
<1>2. \A k \in 1 .. Len(w) : Granted(w[k], id) = 0
  BY DEF Has, Granted
<1>3. Sums(f, w, id)
  BY <1>1, <1>2 DEF Sums
<1>4. f[Len(w)] = 0
  BY <1>1
<1> HIDE DEF f
<1> QED
  BY <1>3, <1>4, CreditIs

(* An OPEN of channel id that asks for that window is on wire w. *)
Asks(w, id, window) ==
  \E k \in 1 .. Len(w) : w[k].msg = "OPEN" /\ w[k].id = id /\ w[k].window = window

LEMMA AsksAppend ==
  ASSUME NEW w \in Seq(Message), NEW m \in Message, NEW id, NEW window
  PROVE  Asks(Append(w, m), id, window) <=>
           Asks(w, id, window) \/ (m.msg = "OPEN" /\ m.id = id /\ m.window = window)
<1> PICK v : v = Append(w, m)
  OBVIOUS
<1> PICK n : n = Len(w)
  OBVIOUS
<1>1. /\ Len(v) = n + 1 /\ n \in Nat /\ v[n + 1] = m
      /\ \A k \in 1 .. n : v[k] = w[k]
  BY AppendProperties, LenProperties
<1>2. ASSUME NEW k \in 1 .. n + 1, v[k].msg = "OPEN", v[k].id = id, v[k].window = window
      PROVE  Asks(w, id, window) \/ (m.msg = "OPEN" /\ m.id = id /\ m.window = window)
  <2>1. CASE k = n + 1
    BY <1>1, <1>2, <2>1
  <2>2. CASE k # n + 1
    <3>1. k \in 1 .. n
      BY <1>1, <2>2
    <3>2. v[k] = w[k]
      BY <1>1, <3>1
    <3> QED
      BY <1>2, <3>1, <3>2 DEF Asks
  <2> QED
    BY <2>1, <2>2
<1>3. Asks(w, id, window) => Asks(v, id, window)
  <2>1. \A k \in 1 .. n : k \in 1 .. Len(v)
    BY <1>1
  <2> QED
    BY <1>1, <2>1 DEF Asks
<1>4. (m.msg = "OPEN" /\ m.id = id /\ m.window = window) => Asks(v, id, window)
  <2>1. n + 1 \in 1 .. Len(v)
    BY <1>1
  <2> QED
    BY <1>1, <2>1 DEF Asks
<1>5. Asks(v, id, window) =>
        Asks(w, id, window) \/ (m.msg = "OPEN" /\ m.id = id /\ m.window = window)
  BY <1>1, <1>2 DEF Asks
<1> QED
  BY <1>3, <1>4, <1>5

LEMMA AsksTail ==
  ASSUME NEW w \in Seq(Message), w # <<>>, NEW id, NEW window
  PROVE  Asks(w, id, window) <=>
           \/ Asks(Tail(w), id, window)
           \/ Head(w).msg = "OPEN" /\ Head(w).id = id /\ Head(w).window = window
<1> PICK t, h : t = Tail(w) /\ h = Head(w)
  OBVIOUS
<1> PICK n : n = Len(w)
  OBVIOUS
<1>1. /\ n \in Nat /\ n >= 1 /\ Len(t) = n - 1 /\ w[1] = h
      /\ \A k \in 1 .. n - 1 : t[k] = w[k + 1]
  BY HeadTailFacts
<1>2. ASSUME NEW k \in 1 .. n, w[k].msg = "OPEN", w[k].id = id, w[k].window = window
      PROVE  Asks(t, id, window) \/ (h.msg = "OPEN" /\ h.id = id /\ h.window = window)
  <2>1. CASE k = 1
    BY <1>1, <1>2, <2>1
  <2>2. CASE k # 1
    <3>1. k - 1 \in 1 .. n - 1 /\ t[k - 1] = w[k]
      BY <1>1, <2>2
    <3> QED
      BY <1>1, <1>2, <3>1 DEF Asks
  <2> QED
    BY <2>1, <2>2
<1>3. Asks(t, id, window) => Asks(w, id, window)
  <2>1. \A k \in 1 .. n - 1 : k + 1 \in 1 .. n
    BY <1>1
  <2> QED
    BY <1>1, <2>1 DEF Asks
<1>4. (h.msg = "OPEN" /\ h.id = id /\ h.window = window) => Asks(w, id, window)
  <2>1. 1 \in 1 .. n
    BY <1>1
  <2> QED
    BY <1>1, <2>1 DEF Asks
<1>5. Asks(w, id, window) =>
        Asks(t, id, window) \/ (h.msg = "OPEN" /\ h.id = id /\ h.window = window)
  BY <1>2 DEF Asks
<1> QED
  BY <1>3, <1>4, <1>5

-----------------------------------------------------------------------------
(* The books of a channel.  An end is its slot c, the wire w it ships on and *)
(* the bytes dl its consumer got.                                           *)

(* The offset in its stream up to which the sender may send. *)
Reach(c) == c.send_window + c.outbuf_off

LEMMA ReachType ==
  ASSUME NEW c \in Channel
  PROVE  Reach(c) \in Nat
<1>1. c.send_window \in Nat /\ c.outbuf_off \in Nat
  BY DEF Channel
<1> QED
  BY <1>1 DEF Reach

(* A receiver never owes as much as its window, and until its OPEN has been   *)
(* taken an opener has received and granted nothing and has the default      *)
(* window to send in.                                                       *)
EndOk(c, w, dl, id) ==
  c.in_use =>
    /\ c.recv_consumed < c.recv_window_initial
    /\ \A window \in Nat : Asks(w, id, window) =>
         /\ c.recv_window_initial = OrDefault(window)
         /\ c.recv_consumed = 0 /\ c.inbuf = <<>> /\ dl = <<>> /\ Credit(w, id) = 0
         /\ ~c.close_requested => Reach(c) = WINDOW_DEFAULT

(* What the sender c may send or has sent, what the receiver d has not       *)
(* granted back and what it has granted on its wire w make the window of d   *)
(* and the bytes its consumer got.                                          *)
PairOk(c, d, w, dl, id) ==
  (c.in_use /\ d.in_use /\ Live(c, d)) =>
    Reach(c) + d.recv_consumed + Credit(w, id) = d.recv_window_initial + Len(dl)

CreditInv ==
  \A id \in Id, e \in Endpoint :
    /\ EndOk(Chan(e, id), wire[e], delivered[e][id], id)
    /\ PairOk(Chan(e, id), Chan(Peer(e), id), wire[Peer(e)], delivered[Peer(e)][id], id)

(* One end goes from slot c to c2 as it grants gx, is granted gy and hands n  *)
(* bytes to its consumer.                                                   *)
Moves(c, c2, gx, gy, n) ==
  /\ c2.recv_window_initial = c.recv_window_initial
  /\ c.recv_consumed < c.recv_window_initial => c2.recv_consumed < c.recv_window_initial
  /\ ~c2.close_requested =>
       /\ ~c.close_requested
       /\ Reach(c2) = Reach(c) + gy
  /\ (~c2.close_requested /\ ~CreditMoot(c2)) =>
       ~CreditMoot(c) /\ c2.recv_consumed + gx = c.recv_consumed + n

(* What such a move leaves on the wires and in the history of its bytes. *)
Posted(w, w2, v, v2, dl, dl2, c, c2, gx, gy, n, id) ==
  /\ Credit(w2, id) = Credit(w, id) + gx
  /\ Credit(v, id) = Credit(v2, id) + gy
  /\ Len(dl2) = Len(dl) + n
  /\ \A window \in Nat : Asks(v2, id, window) => Asks(v, id, window)
  /\ \A window \in Nat : Asks(w2, id, window) =>
       /\ Asks(w, id, window) /\ gx = 0 /\ gy = 0 /\ dl2 = dl
       /\ c2.in_use => c2.inbuf = <<>> /\ c2.recv_consumed = c.recv_consumed

(* A slot stays as it is and messages of its channel are taken off the wire. *)
LEMMA DrainedEnd ==
  ASSUME NEW id, NEW d, NEW v \in Seq(Message), NEW v2 \in Seq(Message), NEW dd,
         NEW gy \in Nat, Credit(v, id) = Credit(v2, id) + gy,
         \A window \in Nat : Asks(v2, id, window) => Asks(v, id, window),
         EndOk(d, v, dd, id)
  PROVE  EndOk(d, v2, dd, id)
<1>1. Credit(v, id) = 0 => Credit(v2, id) = 0
  BY CreditType
<1> QED
  BY <1>1 DEF EndOk

(* The moving end stays in order by itself. *)
LEMMA MovedEnd ==
  ASSUME NEW id, NEW c, NEW c2, NEW w, NEW w2, NEW dl, NEW dl2, NEW gx, NEW gy, NEW n,
         EndOk(c, w, dl, id), c.in_use, c2.in_use, Moves(c, c2, gx, gy, n),
         c \in Channel, Credit(w, id) \in Nat,
         Credit(w2, id) = Credit(w, id) + gx,
         \A window \in Nat : Asks(w2, id, window) =>
           /\ Asks(w, id, window) /\ gx = 0 /\ gy = 0 /\ dl2 = dl
           /\ c2.in_use => c2.inbuf = <<>> /\ c2.recv_consumed = c.recv_consumed
  PROVE  EndOk(c2, w2, dl2, id)
<1>1. c2.recv_consumed < c2.recv_window_initial
  BY DEF Moves, EndOk
<1>2. ASSUME NEW window \in Nat, Asks(w2, id, window)
      PROVE  /\ c2.recv_window_initial = OrDefault(window)
             /\ c2.recv_consumed = 0 /\ c2.inbuf = <<>> /\ dl2 = <<>>
             /\ Credit(w2, id) = 0
             /\ ~c2.close_requested => Reach(c2) = WINDOW_DEFAULT
  <2>1. /\ Asks(w, id, window) /\ gx = 0 /\ gy = 0 /\ dl2 = dl
        /\ c2.in_use => c2.inbuf = <<>> /\ c2.recv_consumed = c.recv_consumed
    BY <1>2
  <2>2. /\ c.recv_window_initial = OrDefault(window)
        /\ c.recv_consumed = 0 /\ dl = <<>> /\ Credit(w, id) = 0
        /\ ~c.close_requested => Reach(c) = WINDOW_DEFAULT
    BY <2>1 DEF EndOk
  <2>3. Credit(w2, id) = 0
    BY <2>1, <2>2
  <2>4. ASSUME ~c2.close_requested PROVE Reach(c2) = WINDOW_DEFAULT
    <3>1. ~c.close_requested /\ Reach(c2) = Reach(c) + gy
      BY Zenon, <2>4 DEF Moves
    <3>2. Reach(c) \in Nat
      BY ReachType
    <3> QED
      BY <2>1, <2>2, <3>1, <3>2
  <2>5. c2.recv_window_initial = c.recv_window_initial
    BY DEF Moves
  <2> QED
    BY <2>1, <2>2, <2>3, <2>4, <2>5
<1> QED
  BY <1>1, <1>2 DEF EndOk

(* The mover is the sender of the direction. *)
LEMMA SenderMoved ==
  ASSUME NEW id, NEW c \in Channel, NEW c2 \in Channel, NEW d \in Channel,
         NEW v \in Seq(Message), NEW v2 \in Seq(Message), NEW dd \in Seq(Nat),
         PairOk(c, d, v, dd, id), c.in_use, NEW gx, NEW gy \in Nat, NEW n,
         Credit(v, id) = Credit(v2, id) + gy,
         c2.in_use => Moves(c, c2, gx, gy, n)
  PROVE  PairOk(c2, d, v2, dd, id)
<1> SUFFICES ASSUME c2.in_use, d.in_use, Live(c2, d)
             PROVE  Reach(c2) + d.recv_consumed + Credit(v2, id)
                      = d.recv_window_initial + Len(dd)
  BY DEF PairOk
<1>1. ~c.close_requested /\ Reach(c2) = Reach(c) + gy
  BY DEF Moves, Live
<1>2. Reach(c) + d.recv_consumed + Credit(v, id) = d.recv_window_initial + Len(dd)
  BY <1>1 DEF PairOk, Live
<1>3. Reach(c) \in Nat /\ d.recv_consumed \in Nat /\ Credit(v2, id) \in Nat
  BY ReachType, CreditType DEF Channel
<1> QED
  BY <1>1, <1>2, <1>3

(* The mover is the receiver of the direction. *)
LEMMA ReceiverMoved ==
  ASSUME NEW id, NEW c \in Channel, NEW c2 \in Channel, NEW d \in Channel,
         NEW w \in Seq(Message), NEW w2 \in Seq(Message),
         NEW dl \in Seq(Nat), NEW dl2 \in Seq(Nat),
         PairOk(d, c, w, dl, id), c.in_use, NEW gx \in Nat, NEW gy, NEW n \in Nat,
         Credit(w2, id) = Credit(w, id) + gx, Len(dl2) = Len(dl) + n,
         c2.in_use => Moves(c, c2, gx, gy, n)
  PROVE  PairOk(d, c2, w2, dl2, id)
<1> SUFFICES ASSUME c2.in_use, d.in_use, Live(d, c2)
             PROVE  Reach(d) + c2.recv_consumed + Credit(w2, id)
                      = c2.recv_window_initial + Len(dl2)
  BY DEF PairOk
<1>1. /\ ~c.close_requested /\ ~CreditMoot(c)
      /\ c2.recv_consumed + gx = c.recv_consumed + n
      /\ c2.recv_window_initial = c.recv_window_initial
  BY DEF Moves, Live
<1>2. Reach(d) + c.recv_consumed + Credit(w, id) = c.recv_window_initial + Len(dl)
  BY <1>1 DEF PairOk, Live
<1>3. PICK x, r, r2, i, k, k2, l, l2 \in Nat :
        /\ x = Reach(d) /\ r = c.recv_consumed /\ r2 = c2.recv_consumed
        /\ i = c.recv_window_initial /\ k = Credit(w, id) /\ k2 = Credit(w2, id)
        /\ l = Len(dl) /\ l2 = Len(dl2)
  <2>1. /\ Reach(d) \in Nat /\ c.recv_consumed \in Nat /\ c2.recv_consumed \in Nat
        /\ c.recv_window_initial \in Nat
    BY ReachType DEF Channel
  <2>2. /\ Credit(w, id) \in Nat /\ Credit(w2, id) \in Nat
        /\ Len(dl) \in Nat /\ Len(dl2) \in Nat
    BY CreditType, LenProperties
  <2> QED
    BY Zenon, <2>1, <2>2
<1>4. r2 + gx = r + n /\ k2 = k + gx /\ l2 = l + n /\ x + r + k = i + l
  BY <1>1, <1>2, <1>3
<1>5. x + r2 + k2 = i + l2
  BY <1>4
<1> QED
  BY Zenon, <1>1, <1>3, <1>5

(* Such a move keeps the books of both directions. *)
LEMMA Ledger ==
  ASSUME NEW id, NEW c \in Channel, NEW c2 \in Channel, NEW d \in Channel,
         NEW w \in Seq(Message), NEW w2 \in Seq(Message),
         NEW v \in Seq(Message), NEW v2 \in Seq(Message),
         NEW dl \in Seq(Nat), NEW dl2 \in Seq(Nat), NEW dd \in Seq(Nat),
         EndOk(c, w, dl, id), EndOk(d, v, dd, id),
         PairOk(c, d, v, dd, id), PairOk(d, c, w, dl, id), c.in_use,
         NEW gx \in Nat, NEW gy \in Nat, NEW n \in Nat,
         Posted(w, w2, v, v2, dl, dl2, c, c2, gx, gy, n, id),
         c2.in_use => Moves(c, c2, gx, gy, n)
  PROVE  /\ EndOk(c2, w2, dl2, id) /\ EndOk(d, v2, dd, id)
         /\ PairOk(c2, d, v2, dd, id) /\ PairOk(d, c2, w2, dl2, id)
<1>1. /\ Credit(w2, id) = Credit(w, id) + gx /\ Credit(v, id) = Credit(v2, id) + gy
      /\ Len(dl2) = Len(dl) + n
  BY Zenon DEF Posted
<1>2. \A window \in Nat : Asks(v2, id, window) => Asks(v, id, window)
  BY Zenon DEF Posted
<1>3. \A window \in Nat : Asks(w2, id, window) =>
        /\ Asks(w, id, window) /\ gx = 0 /\ gy = 0 /\ dl2 = dl
        /\ c2.in_use => c2.inbuf = <<>> /\ c2.recv_consumed = c.recv_consumed
  BY Zenon DEF Posted
<1>4. EndOk(c2, w2, dl2, id)
  <2>1. CASE ~c2.in_use
    BY Zenon, <2>1 DEF EndOk
  <2>2. CASE c2.in_use
    <3>1. Credit(w, id) \in Nat
      BY Zenon, CreditType
    <3> QED
      BY Zenon, <1>1, <1>3, <2>2, <3>1, MovedEnd
  <2> QED
    BY Zenon, <2>1, <2>2
<1>5. EndOk(d, v2, dd, id)
  BY Zenon, <1>1, <1>2, DrainedEnd
<1>6. PairOk(c2, d, v2, dd, id)
  BY Zenon, <1>1, SenderMoved
<1>7. PairOk(d, c2, w2, dl2, id)
  BY Zenon, <1>1, ReceiverMoved
<1> QED
  BY Zenon, <1>4, <1>5, <1>6, <1>7

-----------------------------------------------------------------------------
(* The books of all channels.                                               *)

(* What an endpoint ships on channel id at once, and the credit g in it. *)
Pays(msgs, id, g) ==
  \/ msgs = <<>> /\ g = 0
  \/ \E m \in Message : /\ m.id = id /\ m.msg # "OPEN" /\ msgs = <<m>> /\ g = Granted(m, id)
  \/ \E m, m2 \in Message : /\ m.id = id /\ m.msg # "OPEN" /\ m2.id = id /\ m2.msg # "OPEN"
                            /\ msgs = <<m>> \o <<m2>>
                            /\ g = Granted(m, id) + Granted(m2, id)

(* A wire that says the same of channel j. *)
SameBooks(w, w2, j) ==
  /\ Credit(w2, j) = Credit(w, j)
  /\ \A window : Asks(w2, j, window) <=> Asks(w, j, window)

OtherBooks(id) ==
  \A j \in Id \ {id} : \A f \in Endpoint :
    /\ Chan(f, j)' = Chan(f, j)
    /\ SameBooks(wire[f], wire'[f], j)
    /\ delivered'[f][j] = delivered[f][j]

LEMMA AppendOthers ==
  ASSUME NEW w \in Seq(Message), NEW m \in Message, NEW j, j # m.id
  PROVE  SameBooks(w, Append(w, m), j)
<1>1. Granted(m, j) = 0
  BY DEF Granted
<1>2. Credit(Append(w, m), j) = Credit(w, j) + Granted(m, j)
  BY CreditAppend
<1>3. Credit(Append(w, m), j) = Credit(w, j)
  BY <1>1, <1>2, CreditType
<1>4. \A window : Asks(Append(w, m), j, window) <=> Asks(w, j, window)
  BY AsksAppend
<1> QED
  BY <1>3, <1>4 DEF SameBooks

LEMMA AppendBooks ==
  ASSUME NEW w \in Seq(Message), NEW m \in Message, NEW id, m.id = id, m.msg # "OPEN"
  PROVE  /\ Append(w, m) \in Seq(Message)
         /\ Credit(Append(w, m), id) = Credit(w, id) + Granted(m, id)
         /\ \A window : Asks(Append(w, m), id, window) <=> Asks(w, id, window)
         /\ \A j : j # id => SameBooks(w, Append(w, m), j)
<1> PICK v : v = Append(w, m)
  OBVIOUS
<1>1. v \in Seq(Message)
  OBVIOUS
<1>2. Credit(v, id) = Credit(w, id) + Granted(m, id)
  BY CreditAppend
<1>3. \A window : Asks(v, id, window) <=> Asks(w, id, window)
  BY AsksAppend
<1>4. \A j : j # id => SameBooks(w, v, j)
  BY AppendOthers
<1> QED
  BY <1>1, <1>2, <1>3, <1>4

LEMMA PaysBooks ==
  ASSUME NEW w \in Seq(Message), NEW msgs, NEW id, NEW g, Pays(msgs, id, g)
  PROVE  /\ g \in Nat
         /\ Credit(w \o msgs, id) = Credit(w, id) + g
         /\ \A window : Asks(w \o msgs, id, window) <=> Asks(w, id, window)
         /\ \A j : j # id => SameBooks(w, w \o msgs, j)
<1>1. CASE msgs = <<>> /\ g = 0
  <2>1. w \o msgs = w
    BY <1>1, ConcatEmptySeq
  <2>2. Credit(w, id) + 0 = Credit(w, id)
    BY CreditType
  <2> QED
    BY <1>1, <2>1, <2>2 DEF SameBooks
<1>2. ASSUME NEW m \in Message, m.id = id, m.msg # "OPEN", msgs = <<m>>, g = Granted(m, id)
      PROVE  /\ g \in Nat
             /\ Credit(w \o msgs, id) = Credit(w, id) + g
             /\ \A window : Asks(w \o msgs, id, window) <=> Asks(w, id, window)
             /\ \A j : j # id => SameBooks(w, w \o msgs, j)
  <2> PICK u : u = Append(w, m)
    OBVIOUS
  <2>1. w \o msgs = u
    BY <1>2, AppendTwo
  <2>2. g \in Nat
    BY <1>2, GrantedType
  <2>3. /\ Credit(u, id) = Credit(w, id) + Granted(m, id)
        /\ \A window : Asks(u, id, window) <=> Asks(w, id, window)
        /\ \A j : j # id => SameBooks(w, u, j)
    BY <1>2, AppendBooks
  <2> QED
    BY Zenon, <1>2, <2>1, <2>2, <2>3
<1>3. ASSUME NEW m \in Message, NEW m2 \in Message, m.id = id, m.msg # "OPEN",
             m2.id = id, m2.msg # "OPEN", msgs = <<m>> \o <<m2>>,
             g = Granted(m, id) + Granted(m2, id)
      PROVE  /\ g \in Nat
             /\ Credit(w \o msgs, id) = Credit(w, id) + g
             /\ \A window : Asks(w \o msgs, id, window) <=> Asks(w, id, window)
             /\ \A j : j # id => SameBooks(w, w \o msgs, j)
  <2> PICK u : u = Append(w, m)
    OBVIOUS
  <2> PICK v : v = Append(u, m2)
    OBVIOUS
  <2>1. w \o msgs = v
    BY <1>3, AppendTwo
  <2>2. /\ u \in Seq(Message)
        /\ Credit(u, id) = Credit(w, id) + Granted(m, id)
        /\ \A window : Asks(u, id, window) <=> Asks(w, id, window)
        /\ \A j : j # id => SameBooks(w, u, j)
    BY <1>3, AppendBooks
  <2>3. /\ Credit(v, id) = Credit(u, id) + Granted(m2, id)
        /\ \A window : Asks(v, id, window) <=> Asks(u, id, window)
        /\ \A j : j # id => SameBooks(u, v, j)
    BY <1>3, <2>2, AppendBooks
  <2>4. Granted(m, id) \in Nat /\ Granted(m2, id) \in Nat /\ Credit(w, id) \in Nat
    BY GrantedType, CreditType
  <2>5. Credit(v, id) = Credit(w, id) + g /\ g \in Nat
    BY <1>3, <2>2, <2>3, <2>4
  <2>6. \A j : j # id => SameBooks(w, v, j)
    BY <2>2, <2>3 DEF SameBooks
  <2> QED
    BY <2>1, <2>2, <2>3, <2>5, <2>6
<1> QED
  BY <1>1, <1>2, <1>3 DEF Pays

LEMMA TailBooks ==
  ASSUME NEW w \in Seq(Message), w # <<>>, NEW id, Head(w).id = id
  PROVE  /\ Credit(w, id) = Credit(Tail(w), id) + Granted(Head(w), id)
         /\ Granted(Head(w), id) \in Nat
         /\ \A window : Asks(Tail(w), id, window) => Asks(w, id, window)
         /\ \A j : j # id => SameBooks(w, Tail(w), j)
<1>1. Head(w) \in Message /\ Tail(w) \in Seq(Message)
  BY HeadTailFacts
<1>2. Granted(Head(w), id) \in Nat /\ Credit(Tail(w), id) \in Nat
  BY <1>1, GrantedType, CreditType
<1>3. Credit(w, id) = Granted(Head(w), id) + Credit(Tail(w), id)
  BY CreditTail
<1>4. \A window : Asks(Tail(w), id, window) => Asks(w, id, window)
  BY AsksTail
<1>5. ASSUME NEW j, j # id PROVE SameBooks(w, Tail(w), j)
  <2>1. Credit(w, j) = Granted(Head(w), j) + Credit(Tail(w), j)
    BY CreditTail
  <2>2. Granted(Head(w), j) = 0 /\ Credit(Tail(w), j) \in Nat
    BY <1>1, <1>5, CreditType DEF Granted
  <2>3. \A window : Asks(w, j, window) <=> Asks(Tail(w), j, window)
    BY <1>5, AsksTail
  <2> QED
    BY <2>1, <2>2, <2>3 DEF SameBooks
<1>6. Credit(w, id) = Credit(Tail(w), id) + Granted(Head(w), id)
  BY <1>2, <1>3
<1> QED
  BY <1>2, <1>4, <1>5, <1>6

(* What remains to show of a step that concerns one channel. *)
LEMMA OneBook ==
  ASSUME CreditInv, NEW id \in Id, NEW e \in Endpoint, NEW p, p = Peer(e), OtherBooks(id),
         EndOk(Chan(e, id)', wire'[e], delivered'[e][id], id),
         EndOk(Chan(p, id)', wire'[p], delivered'[p][id], id),
         PairOk(Chan(e, id)', Chan(p, id)', wire'[p], delivered'[p][id], id),
         PairOk(Chan(p, id)', Chan(e, id)', wire'[e], delivered'[e][id], id)
  PROVE  CreditInv'
<1> SUFFICES ASSUME NEW j \in Id, NEW f \in Endpoint
             PROVE  /\ EndOk(Chan(f, j)', wire'[f], delivered'[f][j], j)
                    /\ PairOk(Chan(f, j)', Chan(Peer(f), j)', wire'[Peer(f)],
                              delivered'[Peer(f)][j], j)
  BY DEF CreditInv
<1>1. (f = e /\ Peer(f) = p) \/ (f = p /\ Peer(f) = e)
  BY DEF Endpoint, Peer
<1>2. CASE j = id
  BY <1>1, <1>2
<1>3. CASE j # id
  <2> PICK g : g = Peer(f)
    OBVIOUS
  <2>1. g \in Endpoint
    BY PeerEndpoint
  <2>2. /\ EndOk(Chan(f, j), wire[f], delivered[f][j], j)
        /\ PairOk(Chan(f, j), Chan(g, j), wire[g], delivered[g][j], j)
    BY DEF CreditInv
  <2>3. /\ Chan(f, j)' = Chan(f, j) /\ Chan(g, j)' = Chan(g, j)
        /\ SameBooks(wire[f], wire'[f], j) /\ SameBooks(wire[g], wire'[g], j)
        /\ delivered'[f][j] = delivered[f][j] /\ delivered'[g][j] = delivered[g][j]
    BY <1>3, <2>1 DEF OtherBooks
  <2>4. EndOk(Chan(f, j)', wire'[f], delivered'[f][j], j)
    BY <2>2, <2>3 DEF EndOk, SameBooks
  <2>5. PairOk(Chan(f, j)', Chan(g, j)', wire'[g], delivered'[g][j], j)
    BY <2>2, <2>3 DEF PairOk, SameBooks
  <2> QED
    BY <2>4, <2>5
<1> QED
  BY <1>2, <1>3

(* What a step of e posts on the wires of channel id: e grants gx, takes a    *)
(* message that grants it gy, and puts no OPEN of it on a wire.              *)
Billed(e, p, id, gx, gy) ==
  /\ gx \in Nat /\ gy \in Nat
  /\ Credit(wire'[e], id) = Credit(wire[e], id) + gx
  /\ Credit(wire[p], id) = Credit(wire'[p], id) + gy
  /\ \A window : Asks(wire'[e], id, window) => Asks(wire[e], id, window)
  /\ \A window : Asks(wire'[p], id, window) => Asks(wire[p], id, window)
  /\ \A j : j # id => \A f \in Endpoint : SameBooks(wire[f], wire'[f], j)

(* The consumer of e gets n bytes of channel id. *)
HandsOut(e, id, n) == n \in Nat /\ Len(delivered'[e][id]) = Len(delivered[e][id]) + n

(* Slot c becomes c2 and has still received and granted nothing. *)
Untouched(e, id, c, c2, gx, gy) ==
  /\ gx = 0 /\ gy = 0 /\ delivered'[e][id] = delivered[e][id]
  /\ c2.in_use => c2.inbuf = <<>> /\ c2.recv_consumed = c.recv_consumed

(* A tracked channel moves. *)
LEMMA MoveCredit ==
  ASSUME TypeInv, TypeInv', UniqueIds, CreditInv,
         NEW id \in Id, NEW e \in Endpoint, NEW p, p = Peer(e), OtherBooks(id),
         NEW c, c = Chan(e, id), c.in_use, NEW c2 \in Channel, c2 = Chan(e, id)',
         Chan(p, id)' = Chan(p, id), delivered'[p][id] = delivered[p][id],
         NEW gx, NEW gy, NEW n, Billed(e, p, id, gx, gy), HandsOut(e, id, n),
         \A window \in Nat : Asks(wire[e], id, window) => Untouched(e, id, c, c2, gx, gy),
         c2.in_use => Moves(c, c2, gx, gy, n)
  PROVE  CreditInv'
<1> PICK d : d = Chan(p, id)
  OBVIOUS
<1> PICK w, w2, v, v2 : w = wire[e] /\ w2 = wire'[e] /\ v = wire[p] /\ v2 = wire'[p]
  OBVIOUS
<1> PICK dl, dl2, dd : dl = delivered[e][id] /\ dl2 = delivered'[e][id] /\ dd = delivered[p][id]
  OBVIOUS
<1>1. p \in Endpoint /\ Peer(p) = e
  BY PeerEndpoint
<1>2. c \in Channel /\ d \in Channel
  BY <1>1, ChanType
<1>4. /\ w \in Seq(Message) /\ w2 \in Seq(Message) /\ v \in Seq(Message) /\ v2 \in Seq(Message)
      /\ dl \in Seq(Nat) /\ dl2 \in Seq(Nat) /\ dd \in Seq(Nat)
  <2>1. wire \in [Endpoint -> Seq(Message)] /\ delivered \in [Endpoint -> [Id -> Seq(Nat)]]
    BY DEF TypeInv, TypeOK
  <2>2. wire' \in [Endpoint -> Seq(Message)] /\ delivered' \in [Endpoint -> [Id -> Seq(Nat)]]
    BY DEF TypeInv, TypeOK
  <2> QED
    BY <1>1, <2>1, <2>2
<1>5. /\ EndOk(c, w, dl, id) /\ EndOk(d, v, dd, id)
      /\ PairOk(c, d, v, dd, id) /\ PairOk(d, c, w, dl, id)
  BY <1>1 DEF CreditInv
<1>6. /\ Credit(w2, id) = Credit(w, id) + gx /\ Credit(v, id) = Credit(v2, id) + gy
      /\ gx \in Nat /\ gy \in Nat
      /\ \A window \in Nat : Asks(v2, id, window) => Asks(v, id, window)
      /\ \A window \in Nat : Asks(w2, id, window) => Asks(w, id, window)
  BY DEF Billed
<1>7. n \in Nat /\ Len(dl2) = Len(dl) + n
  BY DEF HandsOut
<1>8. \A window \in Nat : Asks(w2, id, window) =>
        /\ Asks(w, id, window) /\ gx = 0 /\ gy = 0 /\ dl2 = dl
        /\ c2.in_use => c2.inbuf = <<>> /\ c2.recv_consumed = c.recv_consumed
  BY <1>6 DEF Untouched
<1>9. Posted(w, w2, v, v2, dl, dl2, c, c2, gx, gy, n, id)
  BY Zenon, <1>6, <1>7, <1>8 DEF Posted
<1>10. /\ EndOk(c2, w2, dl2, id) /\ EndOk(d, v2, dd, id)
       /\ PairOk(c2, d, v2, dd, id) /\ PairOk(d, c2, w2, dl2, id)
  BY <1>2, <1>4, <1>5, <1>6, <1>7, <1>9, Ledger
<1>11. /\ EndOk(Chan(e, id)', wire'[e], delivered'[e][id], id)
       /\ EndOk(Chan(p, id)', wire'[p], delivered'[p][id], id)
       /\ PairOk(Chan(e, id)', Chan(p, id)', wire'[p], delivered'[p][id], id)
       /\ PairOk(Chan(p, id)', Chan(e, id)', wire'[e], delivered'[e][id], id)
  BY Zenon, <1>10
<1> QED
  BY Zenon, <1>11, OneBook

(* A message of a channel the endpoint does not track is taken. *)
LEMMA IdleCredit ==
  ASSUME TypeInv, TypeInv', CreditInv, NEW id \in Id, NEW e \in Endpoint, OtherBooks(id),
         ~Chan(e, id).in_use, Chan(e, id)' = Chan(e, id), NEW p, p = Peer(e),
         Chan(p, id)' = Chan(p, id), delivered' = delivered,
         NEW gx, NEW gy, Billed(e, p, id, gx, gy)
  PROVE  CreditInv'
<1> PICK d : d = Chan(p, id)
  OBVIOUS
<1> PICK c : c = Chan(e, id)
  OBVIOUS
<1> PICK v, v2 : v = wire[p] /\ v2 = wire'[p]
  OBVIOUS
<1> PICK dd : dd = delivered[p][id]
  OBVIOUS
<1>1. p \in Endpoint /\ Peer(p) = e
  BY PeerEndpoint
<1>2. v \in Seq(Message) /\ v2 \in Seq(Message)
  <2>1. wire \in [Endpoint -> Seq(Message)]
    BY TypeInvUse
  <2>2. wire' \in [Endpoint -> Seq(Message)]
    BY DEF TypeInv, TypeOK
  <2> QED
    BY <1>1, <2>1, <2>2
<1>3. /\ gy \in Nat /\ Credit(v, id) = Credit(v2, id) + gy
      /\ \A window : Asks(v2, id, window) => Asks(v, id, window)
  BY DEF Billed
<1>4. EndOk(d, v, dd, id)
  BY <1>1 DEF CreditInv
<1>5. EndOk(d, v2, dd, id)
  BY <1>2, <1>3, <1>4, DrainedEnd
<1>6. /\ EndOk(c, wire'[e], delivered'[e][id], id)
      /\ PairOk(c, d, v2, dd, id) /\ PairOk(d, c, wire'[e], delivered'[e][id], id)
  BY DEF EndOk, PairOk
<1> QED
  BY <1>5, <1>6, OneBook

(* No slot changes. *)
LEMMA SameChans ==
  ASSUME UNCHANGED channels
  PROVE  \A f \in Endpoint, j \in Id : Chan(f, j)' = Chan(f, j)
  BY DEF Chan, Lookup, InUse

(* Nothing changes in the books. *)
LEMMA SameCredit ==
  ASSUME CreditInv, UNCHANGED <<channels, wire, delivered>>
  PROVE  CreditInv'
<1> SUFFICES ASSUME NEW j \in Id, NEW f \in Endpoint
             PROVE  /\ EndOk(Chan(f, j)', wire'[f], delivered'[f][j], j)
                    /\ PairOk(Chan(f, j)', Chan(Peer(f), j)', wire'[Peer(f)],
                              delivered'[Peer(f)][j], j)
  BY DEF CreditInv
<1>1. Chan(f, j)' = Chan(f, j) /\ Chan(Peer(f), j)' = Chan(Peer(f), j)
  BY SameChans, PeerEndpoint
<1> QED
  BY <1>1 DEF CreditInv

(* Messages of one channel are shipped. *)
LEMMA ShipBooks ==
  ASSUME TypeInv, NEW e \in Endpoint, NEW p, p = Peer(e), NEW id, NEW msgs, NEW g,
         Pays(msgs, id, g), Ship(e, msgs)
  PROVE  Billed(e, p, id, g, 0)
<1>1. /\ wire'[e] = wire[e] \o msgs /\ wire[e] \in Seq(Message)
      /\ \A f \in Endpoint \ {e} : wire'[f] = wire[f]
  BY TypeInvUse DEF Ship
<1>2. p \in Endpoint \ {e} /\ wire[p] \in Seq(Message)
  BY PeerEndpoint, TypeInvUse
<1>3. \A j : \A f \in Endpoint \ {e} : SameBooks(wire[f], wire'[f], j)
  BY <1>1 DEF SameBooks
<1> PICK w, w2 : w = wire[e] /\ w2 = wire'[e]
  OBVIOUS
<1>4. /\ g \in Nat /\ Credit(w2, id) = Credit(w, id) + g
      /\ \A window : Asks(w2, id, window) <=> Asks(w, id, window)
      /\ \A j : j # id => SameBooks(w, w2, j)
  BY <1>1, PaysBooks
<1>5. Credit(wire[p], id) = Credit(wire'[p], id) + 0
  BY <1>1, <1>2, CreditType
<1>6. \A j : j # id => \A f \in Endpoint : SameBooks(wire[f], wire'[f], j)
  BY <1>3, <1>4
<1> QED
  BY <1>1, <1>2, <1>4, <1>5, <1>6 DEF Billed

(* The head of the peer's wire is taken too. *)
LEMMA TakeBooks ==
  ASSUME TypeInv, NEW e \in Endpoint, NEW p, p = Peer(e), NEW id, NEW msgs, NEW g,
         Pays(msgs, id, g), TakeAndShip(e, msgs), wire[p] # <<>>, Head(wire[p]).id = id
  PROVE  /\ Billed(e, p, id, g, Granted(Head(wire[p]), id))
         /\ wire'[p] = Tail(wire[p]) /\ wire'[p] \in Seq(Message)
<1>1. /\ p \in Endpoint /\ wire[e] \in Seq(Message) /\ wire[p] \in Seq(Message)
      /\ \A f \in Endpoint : f = e \/ f = p
  <2>1. \A f \in Endpoint : f = e \/ f = Peer(e)
    BY DEF Endpoint, Peer
  <2> QED
    BY <2>1, PeerEndpoint, TypeInvUse
<1>2. wire'[e] = wire[e] \o msgs /\ wire'[p] = Tail(wire[p])
  BY TypeInvUse, PeerEndpoint DEF TakeAndShip
<1> PICK w, w2, v, v2 : w = wire[e] /\ w2 = wire'[e] /\ v = wire[p] /\ v2 = wire'[p]
  OBVIOUS
<1>3. /\ g \in Nat /\ Credit(w2, id) = Credit(w, id) + g
      /\ \A window : Asks(w2, id, window) <=> Asks(w, id, window)
      /\ \A j : j # id => SameBooks(w, w2, j)
  BY <1>1, <1>2, PaysBooks
<1>4. /\ Credit(v, id) = Credit(v2, id) + Granted(Head(v), id)
      /\ Granted(Head(v), id) \in Nat
      /\ \A window : Asks(v2, id, window) => Asks(v, id, window)
      /\ \A j : j # id => SameBooks(v, v2, j)
  BY <1>1, <1>2, TailBooks
<1>5. v2 \in Seq(Message)
  BY <1>1, <1>2, HeadTailFacts
<1>6. \A j : j # id => \A f \in Endpoint : SameBooks(wire[f], wire'[f], j)
  BY <1>1, <1>3, <1>4
<1>7. Billed(e, p, id, g, Granted(Head(wire[p]), id))
  BY <1>3, <1>4, <1>6 DEF Billed
<1> QED
  BY <1>2, <1>5, <1>7

(* The slot of channel id is left as c2, and nothing of the others changes. *)
LEMMA SlotBooks ==
  ASSUME TypeInv, TypeInv', UniqueIds, NEW e \in Endpoint, NEW p, p = Peer(e), NEW id \in Id,
         NEW s, NEW c2, LeavesSlot(e, id, s, c2), OthersKeep(delivered, delivered', e, id),
         NEW gx, NEW gy, Billed(e, p, id, gx, gy)
  PROVE  /\ OtherBooks(id) /\ Chan(e, id) = channels[e][s] /\ channels[e][s].in_use
         /\ channels[e][s] \in Channel /\ Chan(e, id)' = c2 /\ c2 \in Channel
         /\ Chan(p, id)' = Chan(p, id) /\ delivered'[p][id] = delivered[p][id]
<1>1. s \in Lookup(e, id) /\ SetChannel(e, s, c2) /\ (c2 = FreeChannel \/ (c2.in_use /\ c2.id = id))
  BY DEF LeavesSlot
<1>2. /\ Chan(e, id)' = c2
      /\ \A f \in Endpoint : \A j : (f # e \/ j # id) => Chan(f, j)' = Chan(f, j)
  BY <1>1, SetChan
<1>3. p \in Endpoint /\ p # e
  BY PeerEndpoint
<1>4. \A f \in Endpoint, j \in Id : (f # e \/ j # id) => delivered'[f][j] = delivered[f][j]
  <2>1. delivered \in [Endpoint -> [Id -> Seq(Nat)]]
    BY TypeInvUse
  <2> QED
    BY <2>1 DEF OthersKeep
<1>5. OtherBooks(id)
  BY <1>2, <1>4 DEF OtherBooks, Billed
<1>6. Chan(e, id) = channels[e][s]
  BY <1>1, ChanLookup
<1>7. channels[e][s].in_use /\ channels[e][s] \in Channel
  BY <1>1, LookupFacts, SlotFacts
<1>8. c2 \in Channel
  <2>1. channels \in [Endpoint -> [Slot -> Channel]] /\ s \in Slot
    BY <1>1, LookupFacts DEF TypeInv, TypeOK
  <2>2. channels' \in [Endpoint -> [Slot -> Channel]]
    BY DEF TypeInv, TypeOK
  <2>3. channels'[e][s] = c2
    BY <1>1, <2>1 DEF SetChannel
  <2> QED
    BY <2>1, <2>2, <2>3
<1> QED
  BY <1>2, <1>3, <1>4, <1>5, <1>6, <1>7, <1>8

(* A call of the consumer or a step of the scheduler. *)
LEMMA OwnCredit ==
  ASSUME TypeInv, TypeInv', UniqueIds, CreditInv,
         NEW e \in Endpoint, NEW id \in Id, NEW s, NEW c2, LeavesSlot(e, id, s, c2),
         NEW old, old = channels[e][s], NEW msgs, NEW gx, Pays(msgs, id, gx), Ship(e, msgs),
         OthersKeep(delivered, delivered', e, id), NEW n, HandsOut(e, id, n),
         old.inbuf = <<>> => Untouched(e, id, old, c2, gx, 0),
         c2.in_use => Moves(old, c2, gx, 0, n)
  PROVE  CreditInv'
<1> PICK p : p = Peer(e)
  OBVIOUS
<1>1. Billed(e, p, id, gx, 0)
  BY ShipBooks
<1>2. /\ OtherBooks(id) /\ Chan(e, id) = old /\ old.in_use
      /\ old \in Channel /\ Chan(e, id)' = c2 /\ c2 \in Channel
      /\ Chan(p, id)' = Chan(p, id) /\ delivered'[p][id] = delivered[p][id]
  BY <1>1, SlotBooks
<1>3. ASSUME NEW window \in Nat, Asks(wire[e], id, window)
      PROVE  Untouched(e, id, old, c2, gx, 0)
  <2>1. EndOk(Chan(e, id), wire[e], delivered[e][id], id)
    BY DEF CreditInv
  <2>2. old.inbuf = <<>>
    BY <1>2, <1>3, <2>1 DEF EndOk
  <2> QED
    BY <2>2
<1> QED
  BY <1>1, <1>2, <1>3, MoveCredit

(* Nothing is shipped. *)
LEMMA ShipNothing ==
  ASSUME TypeInv, NEW e \in Endpoint, wire' = wire
  PROVE  Ship(e, <<>>)
<1>1. wire[e] \o <<>> = wire[e]
  BY TypeInvUse, ConcatEmptySeq
<1>2. wire = [wire EXCEPT ![e] = wire[e]]
  BY TypeInvUse
<1> QED
  BY <1>1, <1>2 DEF Ship

(* A step that hands out nothing. *)
LEMMA HandsNothing ==
  ASSUME TypeInv, NEW e \in Endpoint, NEW id \in Id, delivered' = delivered
  PROVE  HandsOut(e, id, 0) /\ OthersKeep(delivered, delivered', e, id)
<1>1. Len(delivered[e][id]) \in Nat
  BY TypeInvUse, LenProperties
<1> QED
  BY <1>1 DEF HandsOut, OthersKeep

(* A call that hands out nothing and ships nothing. *)
LEMMA CallCredit ==
  ASSUME TypeInv, TypeInv', UniqueIds, CreditInv,
         NEW e \in Endpoint, NEW s \in Slot, NEW old, old = channels[e][s], old.in_use,
         NEW c2, SetChannel(e, s, c2), c2.in_use, c2.id = old.id, c2.inbuf = old.inbuf,
         c2.recv_consumed = old.recv_consumed, Moves(old, c2, 0, 0, 0),
         wire' = wire, delivered' = delivered
  PROVE  CreditInv'
<1> PICK id : id = old.id
  OBVIOUS
<1>1. id \in Id /\ old \in Channel /\ s \in Lookup(e, id)
  BY SlotFacts
<1>2. LeavesSlot(e, id, s, c2)
  BY <1>1 DEF LeavesSlot
<1>3. Ship(e, <<>>) /\ Pays(<<>>, id, 0)
  BY ShipNothing DEF Pays
<1>4. HandsOut(e, id, 0) /\ OthersKeep(delivered, delivered', e, id)
  BY <1>1, HandsNothing
<1>5. old.inbuf = <<>> => Untouched(e, id, old, c2, 0, 0)
  BY DEF Untouched
<1> QED
  BY <1>1, <1>2, <1>3, <1>4, <1>5, OwnCredit

(* The demux of a message of a channel the endpoint tracks: it is no OPEN,    *)
(* and the endpoint's own OPEN has been taken.                               *)
LEMMA TakeCredit ==
  ASSUME TypeInv, TypeInv', UniqueIds, OrderInv, CreditInv,
         NEW e \in Endpoint, NEW id \in Id, NEW s, NEW c2, LeavesSlot(e, id, s, c2),
         NEW old, old = channels[e][s], NEW msgs, NEW gx, Pays(msgs, id, gx),
         TakeAndShip(e, msgs), Inbound(e) # <<>>, Head(Inbound(e)).id = id,
         OthersKeep(delivered, delivered', e, id), NEW n, HandsOut(e, id, n),
         NEW gy, gy = Granted(Head(Inbound(e)), id),
         c2.in_use => Moves(old, c2, gx, gy, n)
  PROVE  CreditInv'
<1> PICK p : p = Peer(e)
  OBVIOUS
<1>0. Inbound(e) = wire[p] /\ p \in Endpoint /\ wire[p] \in Seq(Message) /\ Peer(p) = e
  BY PeerEndpoint, TypeInvUse DEF Inbound
<1>1. Billed(e, p, id, gx, gy)
  BY <1>0, TakeBooks
<1>2. /\ OtherBooks(id) /\ Chan(e, id) = old /\ old.in_use
      /\ old \in Channel /\ Chan(e, id)' = c2 /\ c2 \in Channel
      /\ Chan(p, id)' = Chan(p, id) /\ delivered'[p][id] = delivered[p][id]
  BY <1>1, SlotBooks
<1>4. ASSUME NEW window, Asks(wire[e], id, window) PROVE FALSE
  <2>1. Has(wire[e], "OPEN", id)
    BY <1>4 DEF Asks, Has
  <2>2. PICK V \in View : IsView(V, id)
    BY ViewExists DEF HaveViews
  <2>3. EndsInv(V, id, e, p)
    BY <2>2 DEF OrderInv, ViewInv
  <2>4. Fresh(V, id, p)
    BY <2>1, <2>2, <2>3 DEF EndsInv, OpenInv, IsView
  <2>5. Quiet(wire[p], id)
    BY <2>2, <2>4 DEF Fresh, IsView
  <2>6. Head(wire[p]) \in Message
    BY <1>0, HeadTailFacts
  <2>7. Has(wire[p], Head(wire[p]).msg, id)
    BY <1>0, TailHas
  <2> QED
    BY <2>5, <2>6, <2>7 DEF Quiet, Message
<1> QED
  BY <1>1, <1>2, <1>4, MoveCredit

-----------------------------------------------------------------------------
(* The actions.                                                             *)

(* Nothing is received or granted, and what is sent was due. *)
LEMMA QuietMove ==
  ASSUME NEW c \in Channel, NEW c2, c2.recv_consumed = c.recv_consumed,
         c2.recv_window_initial = c.recv_window_initial,
         ~c2.close_requested => ~c.close_requested /\ Reach(c2) = Reach(c),
         (~c2.close_requested /\ ~CreditMoot(c2)) => ~CreditMoot(c)
  PROVE  Moves(c, c2, 0, 0, 0)
<1>1. c.recv_consumed \in Nat /\ Reach(c) \in Nat
  BY ReachType DEF Channel
<1>2. c.recv_consumed + 0 = c.recv_consumed /\ Reach(c) + 0 = Reach(c)
  BY <1>1
<1> QED
  BY Zenon, <1>2 DEF Moves

LEMMA WriteCredit ==
  ASSUME TypeInv, TypeInv', UniqueIds, CreditInv,
         NEW e \in Endpoint, NEW s \in Slot,
         Write(e, s) \/ Flush(e, s) \/ SendEof(e, s) \/ Close(e, s)
  PROVE  CreditInv'
<1> PICK old : old = channels[e][s]
  OBVIOUS
<1>1. old.in_use /\ UNCHANGED <<wire, delivered>>
  BY DEF Write, Flush, SendEof, Close
<1>2. old \in Channel
  BY <1>1, SlotFacts
<1>3. PICK c2 : /\ SetChannel(e, s, c2)
                /\ \/ \E n \in Nat : c2 = [old EXCEPT !.written = n]
                   \/ c2 = [old EXCEPT !.flush_mark = old.written]
                   \/ c2 = [old EXCEPT !.flush_mark = old.written, !.eof_requested = TRUE]
                   \/ c2 = DropPending(old)
  <2>1. ASSUME Write(e, s)
        PROVE  \E n \in Nat : SetChannel(e, s, [old EXCEPT !.written = n])
    <3>1. PICK n \in 1 .. MaxBytes[e] : SetChannel(e, s, [old EXCEPT !.written = old.written + n])
      BY <2>1 DEF Write
    <3>2. old.written + n \in Nat
      <4>1. old.written \in Nat
        BY <1>2 DEF Channel
      <4>2. MaxBytes[e] \in Nat
        BY ConstantsAssumption DEF ConstantsAssumption
      <4> QED
        BY <4>1, <4>2
    <3> QED
      BY <3>1, <3>2
  <2>2. ASSUME Flush(e, s) PROVE SetChannel(e, s, [old EXCEPT !.flush_mark = old.written])
    BY <2>2 DEF Flush
  <2>3. ASSUME SendEof(e, s)
        PROVE SetChannel(e, s, [old EXCEPT !.flush_mark = old.written, !.eof_requested = TRUE])
    BY <2>3 DEF SendEof
  <2>4. ASSUME Close(e, s) PROVE SetChannel(e, s, DropPending(old))
    BY <2>4 DEF Close
  <2> QED
    BY <2>1, <2>2, <2>3, <2>4
<1>4. /\ c2.in_use = old.in_use /\ c2.id = old.id /\ c2.inbuf = old.inbuf
      /\ c2.recv_consumed = old.recv_consumed
      /\ c2.recv_window_initial = old.recv_window_initial
      /\ c2.send_window = old.send_window
      /\ ~c2.close_requested => ~old.close_requested /\ c2.outbuf_off = old.outbuf_off
      /\ c2.close_sent = old.close_sent /\ c2.close_rcvd = old.close_rcvd
      /\ c2.remote_eof = old.remote_eof
  BY <1>2, <1>3 DEF Channel, DropPending
<1>5. Moves(old, c2, 0, 0, 0)
  <2>1. /\ ~c2.close_requested => ~old.close_requested /\ Reach(c2) = Reach(old)
        /\ CreditMoot(c2) = CreditMoot(old)
    BY <1>4 DEF Reach, CreditMoot
  <2> QED
    BY <1>2, <1>4, <2>1, QuietMove
<1> QED
  BY <1>1, <1>3, <1>4, <1>5, CallCredit

(* What draining n bytes does: the grant made and what stays owed add up. *)
LEMMA GrantBalance ==
  ASSUME NEW c \in Channel, c.id \in Id, NEW n \in Nat, NEW g, g = GrantCredit(c, n)
  PROVE  \E gx \in Nat :
           /\ Pays(GrantMessages(c, n), c.id, gx)
           /\ g.recv_window_initial = c.recv_window_initial
           /\ g.send_window = c.send_window
           /\ c.recv_consumed < c.recv_window_initial => g.recv_consumed < c.recv_window_initial
           /\ ~CreditMoot(c) => g.recv_consumed + gx = c.recv_consumed + n
<1>1. c.recv_consumed \in Nat /\ c.recv_window_initial \in Nat /\ c.recv_consumed + n \in Nat
  BY DEF Channel
<1>2. \A k \in Nat : /\ [c EXCEPT !.recv_consumed = k].recv_consumed = k
                     /\ [c EXCEPT !.recv_consumed = k].recv_window_initial = c.recv_window_initial
                     /\ [c EXCEPT !.recv_consumed = k].send_window = c.send_window
  BY DEF Channel
<1>3. CASE CreditMoot(c)
  <2>1. g = c /\ GrantMessages(c, n) = <<>>
    BY <1>3 DEF GrantCredit, GrantMessages, GrantDue
  <2>2. Pays(<<>>, c.id, 0)
    BY DEF Pays
  <2> QED
    BY <1>3, <2>1, <2>2
<1>4. CASE GrantDue(c, n)
  <2> PICK x \in Nat : x = c.recv_consumed + n
    BY <1>1
  <2> PICK m : m = Control("WINDOW_ADJUST", c.id, x)
    OBVIOUS
  <2>1. g = [c EXCEPT !.recv_consumed = 0] /\ GrantMessages(c, n) = <<m>>
    BY <1>4 DEF GrantCredit, GrantMessages, GrantDue
  <2>2. m \in Message /\ m.msg = "WINDOW_ADJUST" /\ m.id = c.id
    BY MessageFacts DEF MsgKind
  <2>3. Granted(m, c.id) = x
    BY <2>2 DEF Granted, Control
  <2>4. Pays(<<m>>, c.id, x)
    BY <2>2, <2>3 DEF Pays
  <2>5. g.recv_consumed = 0 /\ g.recv_window_initial = c.recv_window_initial
        /\ g.send_window = c.send_window
    BY <1>2, <2>1
  <2> QED
    BY <1>1, <2>1, <2>4, <2>5
<1>5. CASE ~CreditMoot(c) /\ ~GrantDue(c, n)
  <2> PICK x \in Nat : x = c.recv_consumed + n
    BY <1>1
  <2> PICK i \in Nat : i = c.recv_window_initial
    BY <1>1
  <2>1. g = [c EXCEPT !.recv_consumed = x] /\ GrantMessages(c, n) = <<>>
    BY <1>5 DEF GrantCredit, GrantMessages
  <2>2. x < i \div 2
    BY <1>1, <1>5 DEF GrantDue
  <2>3. x < i
    BY <2>2
  <2>4. Pays(<<>>, c.id, 0)
    BY DEF Pays
  <2>5. g.recv_consumed = x /\ g.recv_window_initial = c.recv_window_initial
        /\ g.send_window = c.send_window
    BY <1>2, <2>1
  <2> QED
    BY <1>1, <2>1, <2>3, <2>4, <2>5
<1> QED
  BY <1>3, <1>4, <1>5

(* The scheduler ships DATA within the window. *)
LEMMA EmitDataCredit ==
  ASSUME TypeInv, TypeInv', UniqueIds, CreditInv,
         NEW e \in Endpoint, EmitData(e)
  PROVE  CreditInv'
<1> PICK s : s = PumpSlot(e)
  OBVIOUS
<1> PICK old : old = channels[e][s]
  OBVIOUS
<1> PICK id : id = old.id
  OBVIOUS
<1> PICK n : n = Chunk(old)
  OBVIOUS
<1>1. s \in Slot /\ old.in_use
  BY PumpSlotType DEF EmitData, TypeInv
<1>2. old \in Channel /\ id \in Id /\ s \in Lookup(e, id)
  BY <1>1, SlotFacts
<1>3. n \in Nat /\ n <= old.send_window /\ n > 0
  BY <1>2, ChunkBound DEF EmitData
<1>4. PICK m : m = Data(id, NextBytes(old, n))
  OBVIOUS
<1>5. m \in Message /\ m.msg = "DATA" /\ m.id = id
  <2>1. \A k \in 1 .. n : old.outbuf_off + k \in Nat
    BY <1>2 DEF Channel
  <2>2. NextBytes(old, n) \in Seq(Nat)
    BY <1>3, <2>1 DEF NextBytes
  <2> QED
    BY <1>2, <1>4, <2>2, MessageFacts
<1>6. PICK o, w : o = old.outbuf_off + n /\ w = old.send_window - n
  OBVIOUS
<1>7. w + o = old.send_window + old.outbuf_off
  <2>1. old.outbuf_off \in Nat /\ old.send_window \in Nat
    BY <1>2 DEF Channel
  <2> QED
    BY <1>3, <1>6, <2>1
<1>8. PICK c2 : c2 = [old EXCEPT !.outbuf_off = o, !.send_window = w]
  OBVIOUS
<1>9. SetChannel(e, s, c2) /\ Ship(e, <<m>>) /\ delivered' = delivered
  BY <1>4, <1>6, <1>8 DEF EmitData
<1>10. /\ c2.in_use = old.in_use /\ c2.id = old.id /\ c2.inbuf = old.inbuf
       /\ c2.recv_consumed = old.recv_consumed
       /\ c2.recv_window_initial = old.recv_window_initial
       /\ c2.send_window = w /\ c2.outbuf_off = o
       /\ c2.close_requested = old.close_requested /\ c2.close_sent = old.close_sent
       /\ c2.close_rcvd = old.close_rcvd /\ c2.remote_eof = old.remote_eof
  BY <1>2, <1>8 DEF Channel
<1>11. Moves(old, c2, 0, 0, 0)
  <2>1. Reach(c2) = Reach(old) /\ CreditMoot(c2) = CreditMoot(old)
    BY <1>7, <1>10 DEF Reach, CreditMoot
  <2> QED
    BY <1>2, <1>10, <2>1, QuietMove
<1>12. Pays(<<m>>, id, 0)
  <2>1. Granted(m, id) = 0
    BY <1>5 DEF Granted
  <2> QED
    BY <1>5, <2>1 DEF Pays
<1>13. LeavesSlot(e, id, s, c2)
  BY <1>1, <1>2, <1>9, <1>10 DEF LeavesSlot
<1>14. HandsOut(e, id, 0) /\ OthersKeep(delivered, delivered', e, id)
  BY <1>2, <1>9, HandsNothing
<1>15. old.inbuf = <<>> => Untouched(e, id, old, c2, 0, 0)
  BY <1>9, <1>10 DEF Untouched
<1> QED
  BY <1>2, <1>9, <1>11, <1>12, <1>13, <1>14, <1>15, OwnCredit

(* A drained slot ships its seals: one it has closed is no longer accounted for. *)
LEMMA EmitSealsCredit ==
  ASSUME TypeInv, TypeInv', UniqueIds, OrderInv, CreditInv,
         NEW e \in Endpoint, EmitSeals(e)
  PROVE  CreditInv'
<1> PICK s : s = PumpSlot(e)
  OBVIOUS
<1> PICK old : old = channels[e][s]
  OBVIOUS
<1> PICK id : id = old.id
  OBVIOUS
<1>1. s \in Slot /\ old.in_use
  BY PumpSlotType DEF EmitSeals, TypeInv
<1>2. old \in Channel /\ id \in Id /\ s \in Lookup(e, id)
  BY <1>1, SlotFacts
<1>3. PICK g : g = [old EXCEPT !.eof_sent = old.eof_requested,
                               !.close_sent = old.close_requested]
  OBVIOUS
<1>4. PICK c2 : c2 = MaybeRelease(g)
  OBVIOUS
<1>5. PICK k : k = IF old.eof_requested /\ ~old.eof_sent
                     THEN <<Control("EOF", id, 0)>> ELSE <<>>
  OBVIOUS
<1>6. PICK l : l = IF old.close_requested /\ ~old.close_sent
                     THEN <<Control("CLOSE", id, 0)>> ELSE <<>>
  OBVIOUS
<1>a. SetChannel(e, s, MaybeRelease(g)) /\ Ship(e, k \o l) /\ delivered' = delivered
  BY <1>3, <1>5, <1>6 DEF EmitSeals
<1> PICK msgs : msgs = k \o l
  OBVIOUS
<1> PICK x, y : x = Control("EOF", id, 0) /\ y = Control("CLOSE", id, 0)
  OBVIOUS
<1>7. SetChannel(e, s, c2) /\ Ship(e, msgs) /\ delivered' = delivered
  BY Zenon, <1>4, <1>a
<1>8. /\ x \in Message /\ x.msg = "EOF" /\ x.id = id /\ Granted(x, id) = 0
      /\ y \in Message /\ y.msg = "CLOSE" /\ y.id = id /\ Granted(y, id) = 0
  <2>1. /\ x \in Message /\ x.msg = "EOF" /\ x.id = id
        /\ y \in Message /\ y.msg = "CLOSE" /\ y.id = id
    BY <1>2, MessageFacts DEF MsgKind
  <2> QED
    BY <2>1 DEF Granted
<1>9. Pays(msgs, id, 0)
  <2>1. /\ \A u \in Seq(Message) : u \o <<>> = u /\ <<>> \o u = u
        /\ <<x>> \in Seq(Message) /\ <<y>> \in Seq(Message) /\ <<>> \in Seq(Message)
    BY <1>8, ConcatEmptySeq, EmptySeq
  <2>2. msgs = <<>> \/ msgs = <<x>> \/ msgs = <<y>> \/ msgs = <<x>> \o <<y>>
    <3>1. (k = <<>> \/ k = <<x>>) /\ (l = <<>> \/ l = <<y>>)
      BY Zenon, <1>5, <1>6
    <3>2. k \o <<>> = k /\ <<>> \o l = l
      BY Zenon, <2>1, <3>1
    <3> QED
      BY Zenon, <3>1, <3>2
  <2>3. 0 = Granted(x, id) + Granted(y, id)
    BY <1>8
  <2>4. msgs = <<>> => Pays(msgs, id, 0)
    BY DEF Pays
  <2>5. (msgs = <<x>> \/ msgs = <<y>>) => Pays(msgs, id, 0)
    BY <1>8 DEF Pays
  <2>6. msgs = <<x>> \o <<y>> => Pays(msgs, id, 0)
    BY Zenon, <1>8, <2>3 DEF Pays
  <2> QED
    BY <2>2, <2>4, <2>5, <2>6
<1>10. /\ g.in_use = old.in_use /\ g.id = old.id /\ g.inbuf = old.inbuf
       /\ g.recv_consumed = old.recv_consumed
       /\ g.recv_window_initial = old.recv_window_initial
       /\ g.send_window = old.send_window /\ g.outbuf_off = old.outbuf_off
       /\ g.close_requested = old.close_requested /\ g.close_sent = old.close_requested
       /\ g.close_rcvd = old.close_rcvd /\ g.remote_eof = old.remote_eof
  BY <1>2, <1>3 DEF Channel
<1>11. c2 = FreeChannel \/ c2 = g
  BY <1>4 DEF MaybeRelease
<1>12. c2.in_use => Moves(old, c2, 0, 0, 0)
  <2> SUFFICES ASSUME c2.in_use PROVE Moves(old, c2, 0, 0, 0)
    OBVIOUS
  <2>1. c2 = g
    BY <1>11 DEF FreeChannel
  <2>2. old.close_sent => old.close_requested
    BY <1>1, SlotHolds DEF SlotInv
  <2>3. ~c2.close_requested => ~old.close_requested /\ Reach(c2) = Reach(old)
    BY <1>10, <2>1 DEF Reach
  <2>4. (~c2.close_requested /\ ~CreditMoot(c2)) => ~CreditMoot(old)
    BY <1>10, <2>1, <2>2 DEF CreditMoot
  <2> QED
    BY <1>2, <1>10, <2>1, <2>3, <2>4, QuietMove
<1>13. LeavesSlot(e, id, s, c2)
  BY <1>1, <1>2, <1>7, <1>10, <1>11 DEF LeavesSlot
<1>14. HandsOut(e, id, 0) /\ OthersKeep(delivered, delivered', e, id)
  BY <1>2, <1>7, HandsNothing
<1>15. old.inbuf = <<>> => Untouched(e, id, old, c2, 0, 0)
  <2>1. c2.in_use => c2 = g
    BY <1>11 DEF FreeChannel
  <2> QED
    BY <1>7, <1>10, <2>1 DEF Untouched
<1> QED
  BY <1>2, <1>7, <1>9, <1>12, <1>13, <1>14, <1>15, OwnCredit

(* Draining n bytes is such a move: it grants what it ships. *)
LEMMA GrantMove ==
  ASSUME NEW c \in Channel, c.id \in Id, NEW n \in Nat, NEW g, g = GrantCredit(c, n)
  PROVE  /\ KeepsSlot(c, g) /\ g.inbuf = c.inbuf
         /\ \E gx : Pays(GrantMessages(c, n), c.id, gx) /\ Moves(c, g, gx, 0, n)
<1>1. KeepsSlot(c, g) /\ g.inbuf = c.inbuf
  BY GrantKeeps
<1>2. PICK gx \in Nat :
        /\ Pays(GrantMessages(c, n), c.id, gx)
        /\ g.recv_window_initial = c.recv_window_initial
        /\ g.send_window = c.send_window
        /\ c.recv_consumed < c.recv_window_initial => g.recv_consumed < c.recv_window_initial
        /\ ~CreditMoot(c) => g.recv_consumed + gx = c.recv_consumed + n
  BY GrantBalance
<1>3. /\ g.close_requested = c.close_requested /\ CreditMoot(g) = CreditMoot(c)
      /\ Reach(g) = Reach(c)
  BY <1>1, <1>2 DEF KeepsSlot, CreditMoot, Reach
<1>4. Reach(c) + 0 = Reach(c)
  BY ReachType
<1>5. Moves(c, g, gx, 0, n)
  BY Zenon, <1>2, <1>3, <1>4 DEF Moves
<1> QED
  BY <1>1, <1>2, <1>5

(* The consumer reads n bytes, and they are granted back sooner or later. *)
LEMMA ReadCredit ==
  ASSUME ~ShipMayFail, TypeInv, TypeInv', UniqueIds, CreditInv,
         NEW e \in Endpoint, NEW s \in Slot, Read(e, s)
  PROVE  CreditInv'
<1> PICK old : old = channels[e][s]
  OBVIOUS
<1> PICK id : id = old.id
  OBVIOUS
<1>1. old.in_use /\ old \in Channel /\ id \in Id /\ s \in Lookup(e, id)
  BY SlotFacts DEF Read
<1>2. PICK n \in 1 .. Len(old.inbuf), ok \in IF ShipMayFail THEN BOOLEAN ELSE {TRUE} :
        LET taken == [old EXCEPT !.inbuf = SubSeq(old.inbuf, n + 1, Len(old.inbuf))]
        IN  /\ SetChannel(e, s, MaybeRelease(GrantCredit(taken, n)))
            /\ Ship(e, IF ok THEN GrantMessages(taken, n) ELSE <<>>)
            /\ delivered' = [delivered EXCEPT ![e][id] =
                                delivered[e][id] \o SubSeq(old.inbuf, 1, n)]
  BY Zenon DEF Read
<1>k. ok
  OBVIOUS
<1>3. PICK read : read = SubSeq(old.inbuf, 1, n)
  OBVIOUS
<1>4. PICK rest : rest = SubSeq(old.inbuf, n + 1, Len(old.inbuf))
  OBVIOUS
<1>5. PICK taken : taken = [old EXCEPT !.inbuf = rest]
  OBVIOUS
<1>6. PICK g : g = GrantCredit(taken, n)
  OBVIOUS
<1>7. PICK c : c = MaybeRelease(g)
  OBVIOUS
<1>m. PICK msgs : msgs = GrantMessages(taken, n)
  OBVIOUS
<1>8. /\ SetChannel(e, s, c) /\ Ship(e, msgs)
      /\ delivered' = [delivered EXCEPT ![e][id] = delivered[e][id] \o read]
  BY Zenon, <1>2, <1>k, <1>3, <1>4, <1>5, <1>6, <1>7, <1>m
<1>9. old.inbuf \in Seq(Nat) /\ n \in 1 .. Len(old.inbuf) /\ delivered[e][id] \in Seq(Nat)
  BY <1>1, TypeInvUse DEF Channel
<1>10. n \in Nat /\ n # 0 /\ read \in Seq(Nat) /\ rest \in Seq(Nat)
  BY <1>3, <1>4, <1>9, SplitType
<1>11. /\ taken \in Channel /\ taken.inbuf = rest /\ taken.in_use /\ taken.id = id
       /\ taken.recv_consumed = old.recv_consumed
       /\ taken.recv_window_initial = old.recv_window_initial
       /\ taken.send_window = old.send_window /\ taken.outbuf_off = old.outbuf_off
       /\ taken.close_requested = old.close_requested /\ taken.close_sent = old.close_sent
       /\ taken.close_rcvd = old.close_rcvd /\ taken.remote_eof = old.remote_eof
  BY <1>1, <1>5, <1>10 DEF Channel
<1>12. KeepsSlot(taken, g) /\ \E gx : Pays(msgs, id, gx) /\ Moves(taken, g, gx, 0, n)
  BY <1>1, <1>6, <1>m, <1>10, <1>11, GrantMove
<1>13. PICK gx : Pays(msgs, id, gx) /\ Moves(taken, g, gx, 0, n)
  BY <1>12
<1>14. Moves(old, g, gx, 0, n)
  BY <1>11, <1>13 DEF Moves, CreditMoot, Reach
<1>15. g.in_use /\ g.id = id
  BY <1>11, <1>12 DEF KeepsSlot
<1>16. c = FreeChannel \/ (c.in_use /\ c.id = id)
  BY <1>7, <1>15, ReleaseFacts
<1>17. c.in_use => Moves(old, c, gx, 0, n)
  BY <1>7, <1>14, ReleaseFacts
<1>18. LeavesSlot(e, id, s, c) /\ OthersKeep(delivered, delivered', e, id)
  BY Zenon, <1>1, <1>8, <1>16 DEF LeavesSlot, OthersKeep
<1>19. HandsOut(e, id, n)
  <2>1. PICK d : d = delivered[e][id] \o read
    OBVIOUS
  <2>2. Len(read) = n
    <3>1. \A k \in 1 .. n : old.inbuf[k] \in Nat
      BY <1>9, ElementOfSeq
    <3>2. Len(SubSeq(old.inbuf, 1, n)) = IF 1 <= n THEN n - 1 + 1 ELSE 0
      BY <1>10, <3>1, SubSeqProperties
    <3> QED
      BY <1>3, <1>10, <3>2
  <2>3. Len(d) = Len(delivered[e][id]) + n
    BY <1>9, <1>10, <2>1, <2>2, ConcatProperties
  <2>4. delivered'[e][id] = d
    <3>1. delivered' = [delivered EXCEPT ![e][id] = d]
      BY Zenon, <1>8, <2>1
    <3>2. delivered \in [Endpoint -> [Id -> Seq(Nat)]]
      BY TypeInvUse
    <3> QED
      BY <1>1, <3>1, <3>2
  <2> QED
    BY <1>10, <2>3, <2>4 DEF HandsOut
<1>20. old.inbuf = <<>> => Untouched(e, id, old, c, gx, 0)
  BY <1>9
<1>21. Ship(e, msgs) /\ Pays(msgs, id, gx)
  BY Zenon, <1>8, <1>13
<1> QED
  BY Zenon, <1>1, <1>17, <1>18, <1>19, <1>20, <1>21, OwnCredit

(* The message being demuxed. *)
LEMMA Demuxed ==
  ASSUME TypeInv, NEW e \in Endpoint, NEW kind, Arriving(e, kind),
         NEW m, m = Head(Inbound(e))
  PROVE  Inbound(e) # <<>> /\ m \in Message /\ m.id \in Id /\ m.msg = kind
<1>1. Inbound(e) # <<>> /\ m.msg = kind
  BY DEF Arriving
<1>2. Inbound(e) \in Seq(Message)
  BY PeerEndpoint, TypeInvUse DEF Inbound
<1>3. m \in Message
  BY <1>1, <1>2, HeadTailFacts
<1> QED
  BY <1>1, <1>3 DEF Message

(* A message that grants nothing is taken, and nothing handed out. *)
LEMMA QuietTake ==
  ASSUME TypeInv, TypeInv', UniqueIds, OrderInv, CreditInv,
         NEW e \in Endpoint, NEW kind, Arriving(e, kind), kind # "WINDOW_ADJUST",
         NEW id, id = Head(Inbound(e)).id, NEW s, NEW c2, LeavesSlot(e, id, s, c2),
         NEW msgs, Pays(msgs, id, 0), TakeAndShip(e, msgs), delivered' = delivered,
         c2.in_use => Moves(channels[e][s], c2, 0, 0, 0)
  PROVE  CreditInv'
<1> PICK m : m = Head(Inbound(e))
  OBVIOUS
<1>1. Inbound(e) # <<>> /\ id \in Id /\ m.msg = kind /\ m.id = id
  BY Demuxed
<1>2. 0 = Granted(m, id)
  BY <1>1 DEF Granted
<1>3. HandsOut(e, id, 0) /\ OthersKeep(delivered, delivered', e, id)
  BY <1>1, HandsNothing
<1> PICK old : old = channels[e][s]
  OBVIOUS
<1>4. c2.in_use => Moves(old, c2, 0, 0, 0)
  OBVIOUS
<1>5. Head(Inbound(e)).id = id /\ 0 = Granted(Head(Inbound(e)), id)
  BY <1>1, <1>2
<1> QED
  BY Zenon, <1>1, <1>3, <1>4, <1>5, TakeCredit

LEMMA RecvDataCredit ==
  ASSUME TypeInv, TypeInv', UniqueIds, OrderInv, CreditInv,
         NEW e \in Endpoint, RecvData(e)
  PROVE  CreditInv'
<1> PICK m : m = Head(Inbound(e))
  OBVIOUS
<1> PICK id : id = m.id
  OBVIOUS
<1>0. Arriving(e, "DATA")
  BY Zenon DEF RecvData
<1>1. Inbound(e) # <<>> /\ m \in Message /\ id \in Id /\ m.msg = "DATA"
  BY <1>0, Demuxed
<1>2. PICK s \in Lookup(e, id) :
        \/ /\ TakeAndShip(e, <<>>)
           /\ UNCHANGED <<channels, delivered>>
        \/ /\ SetChannel(e, s, [channels[e][s] EXCEPT !.inbuf = channels[e][s].inbuf \o m.data])
           /\ TakeAndShip(e, <<>>)
           /\ UNCHANGED delivered
        \/ /\ SetChannel(e, s, GrantCredit(channels[e][s], Len(m.data)))
           /\ TakeAndShip(e, GrantMessages(channels[e][s], Len(m.data)))
           /\ delivered' = [delivered EXCEPT ![e][id] = delivered[e][id] \o m.data]
  BY Zenon DEF RecvData
<1> PICK old : old = channels[e][s]
  OBVIOUS
<1> PICK data : data = m.data
  OBVIOUS
<1>3. s \in Slot /\ old.in_use /\ old \in Channel /\ old.id = id
  BY LookupFacts, SlotFacts
<1>4. data \in Seq(Nat) /\ Len(data) \in Nat
  <2>1. data \in Seq(Nat)
    BY <1>1 DEF Message
  <2> QED
    BY <2>1, LenProperties
<1>5. Pays(<<>>, id, 0)
  BY DEF Pays
<1>6. CASE TakeAndShip(e, <<>>) /\ UNCHANGED <<channels, delivered>>
  <2>1. SetChannel(e, s, old)
    BY <1>3, <1>6, TypeInvUse DEF SetChannel
  <2>2. LeavesSlot(e, id, s, old)
    BY <1>3, <2>1 DEF LeavesSlot
  <2>3. Moves(old, old, 0, 0, 0)
    BY <1>3, QuietMove
  <2> QED
    BY <1>0, <1>5, <1>6, <2>2, <2>3, QuietTake
<1>7. CASE /\ SetChannel(e, s, [old EXCEPT !.inbuf = old.inbuf \o data])
           /\ TakeAndShip(e, <<>>) /\ delivered' = delivered
  <2> PICK b : b = old.inbuf \o data
    OBVIOUS
  <2> PICK c2 : c2 = [old EXCEPT !.inbuf = b]
    OBVIOUS
  <2>1. SetChannel(e, s, c2)
    BY Zenon, <1>7
  <2>2. /\ c2.in_use = old.in_use /\ c2.id = old.id
        /\ c2.recv_consumed = old.recv_consumed
        /\ c2.recv_window_initial = old.recv_window_initial
        /\ c2.send_window = old.send_window /\ c2.outbuf_off = old.outbuf_off
        /\ c2.close_requested = old.close_requested /\ c2.close_sent = old.close_sent
        /\ c2.close_rcvd = old.close_rcvd /\ c2.remote_eof = old.remote_eof
    BY <1>3 DEF Channel
  <2>3. LeavesSlot(e, id, s, c2)
    BY <1>3, <2>1, <2>2 DEF LeavesSlot
  <2>4. Reach(c2) = Reach(old) /\ CreditMoot(c2) = CreditMoot(old)
    BY <2>2 DEF Reach, CreditMoot
  <2>5. Moves(old, c2, 0, 0, 0)
    BY <1>3, <2>2, <2>4, QuietMove
  <2> QED
    BY <1>0, <1>5, <1>7, <2>3, <2>5, QuietTake
<1>8. CASE /\ SetChannel(e, s, GrantCredit(old, Len(data)))
           /\ TakeAndShip(e, GrantMessages(old, Len(data)))
           /\ delivered' = [delivered EXCEPT ![e][id] = delivered[e][id] \o data]
  <2> PICK n : n = Len(data)
    OBVIOUS
  <2> PICK c2 : c2 = GrantCredit(old, n)
    OBVIOUS
  <2> PICK msgs : msgs = GrantMessages(old, n)
    OBVIOUS
  <2>1. SetChannel(e, s, c2) /\ TakeAndShip(e, msgs)
    BY Zenon, <1>8
  <2>2. KeepsSlot(old, c2) /\ \E gx : Pays(msgs, id, gx) /\ Moves(old, c2, gx, 0, n)
    BY <1>1, <1>3, <1>4, GrantMove
  <2>3. PICK gx : Pays(msgs, id, gx) /\ Moves(old, c2, gx, 0, n)
    BY <2>2
  <2>4. LeavesSlot(e, id, s, c2)
    BY <1>3, <2>1, <2>2 DEF LeavesSlot, KeepsSlot
  <2>5. OthersKeep(delivered, delivered', e, id)
    BY Zenon, <1>8 DEF OthersKeep
  <2>6. HandsOut(e, id, n)
    <3>1. PICK d : d = delivered[e][id] \o data
      OBVIOUS
    <3>2. delivered[e][id] \in Seq(Nat)
      BY <1>1, TypeInvUse
    <3>3. Len(d) = Len(delivered[e][id]) + n
      BY <1>4, <3>1, <3>2, ConcatProperties
    <3>4. delivered'[e][id] = d
      <4>1. delivered' = [delivered EXCEPT ![e][id] = d]
        BY Zenon, <1>8, <3>1
      <4>2. delivered \in [Endpoint -> [Id -> Seq(Nat)]]
        BY TypeInvUse
      <4> QED
        BY <1>1, <4>1, <4>2
    <3> QED
      BY <1>4, <3>3, <3>4 DEF HandsOut
  <2>7. 0 = Granted(Head(Inbound(e)), id) /\ Head(Inbound(e)).id = id
    BY <1>1 DEF Granted
  <2>8. c2.in_use => Moves(old, c2, gx, 0, n)
    BY <2>3
  <2>9. Pays(msgs, id, gx)
    BY <2>3
  <2> QED
    BY Zenon, <1>1, <2>1, <2>4, <2>5, <2>6, <2>7, <2>8, <2>9, TakeCredit
<1> QED
  BY Zenon, <1>2, <1>6, <1>7, <1>8

LEMMA RecvEofCredit ==
  ASSUME TypeInv, TypeInv', UniqueIds, OrderInv, CreditInv,
         NEW e \in Endpoint, RecvEof(e)
  PROVE  CreditInv'
<1> PICK id : id = Head(Inbound(e)).id
  OBVIOUS
<1>0. Arriving(e, "EOF") /\ TakeAndShip(e, <<>>) /\ delivered' = delivered
  BY Zenon DEF RecvEof
<1>1. PICK s \in Lookup(e, id) : SetChannel(e, s, [channels[e][s] EXCEPT !.remote_eof = TRUE])
  BY Zenon DEF RecvEof
<1> PICK old : old = channels[e][s]
  OBVIOUS
<1> PICK c2 : c2 = [old EXCEPT !.remote_eof = TRUE]
  OBVIOUS
<1>2. s \in Slot /\ old.in_use /\ old \in Channel /\ old.id = id
  BY LookupFacts, SlotFacts
<1>3. SetChannel(e, s, c2)
  BY Zenon, <1>1
<1>4. /\ c2.in_use = old.in_use /\ c2.id = old.id
      /\ c2.recv_consumed = old.recv_consumed
      /\ c2.recv_window_initial = old.recv_window_initial
      /\ c2.send_window = old.send_window /\ c2.outbuf_off = old.outbuf_off
      /\ c2.close_requested = old.close_requested /\ c2.remote_eof
  BY <1>2 DEF Channel
<1>5. LeavesSlot(e, id, s, c2)
  BY <1>2, <1>3, <1>4 DEF LeavesSlot
<1>6. Moves(old, c2, 0, 0, 0)
  <2>1. Reach(c2) = Reach(old) /\ CreditMoot(c2)
    BY <1>4 DEF Reach, CreditMoot
  <2> QED
    BY <1>2, <1>4, <2>1, QuietMove
<1>7. Pays(<<>>, id, 0)
  BY DEF Pays
<1> QED
  BY <1>0, <1>5, <1>6, <1>7, QuietTake

LEMMA RecvCloseCredit ==
  ASSUME TypeInv, TypeInv', UniqueIds, OrderInv, CreditInv,
         NEW e \in Endpoint, RecvClose(e)
  PROVE  CreditInv'
<1> PICK id : id = Head(Inbound(e)).id
  OBVIOUS
<1>0. Arriving(e, "CLOSE") /\ delivered' = delivered
  BY Zenon DEF RecvClose
<1>1. PICK s \in Lookup(e, id) :
        LET c == [channels[e][s] EXCEPT !.close_rcvd = TRUE]
        IN  /\ SetChannel(e, s, MaybeRelease(
                 IF c.close_sent THEN c ELSE [DropPending(c) EXCEPT !.close_sent = TRUE]))
            /\ TakeAndShip(e, CloseReply(c))
  BY Zenon DEF RecvClose
<1> PICK old : old = channels[e][s]
  OBVIOUS
<1> PICK c : c = [old EXCEPT !.close_rcvd = TRUE]
  OBVIOUS
<1> PICK g : g = IF c.close_sent THEN c ELSE [DropPending(c) EXCEPT !.close_sent = TRUE]
  OBVIOUS
<1> PICK c2 : c2 = MaybeRelease(g)
  OBVIOUS
<1> PICK msgs : msgs = CloseReply(c)
  OBVIOUS
<1>2. SetChannel(e, s, c2) /\ TakeAndShip(e, msgs)
  BY Zenon, <1>1
<1>3. s \in Slot /\ old.in_use /\ old \in Channel /\ old.id = id
  BY LookupFacts, SlotFacts
<1>4. /\ c.in_use = old.in_use /\ c.id = old.id
      /\ c.recv_consumed = old.recv_consumed
      /\ c.recv_window_initial = old.recv_window_initial
      /\ c.close_requested = old.close_requested /\ c.close_sent = old.close_sent
      /\ c \in Channel
  BY <1>3 DEF Channel
<1>5. /\ g.in_use = old.in_use /\ g.id = old.id
      /\ g.recv_consumed = old.recv_consumed
      /\ g.recv_window_initial = old.recv_window_initial
      /\ g.close_requested
  <2>1. CASE c.close_sent
    <3>1. old.close_requested
      BY <1>3, <1>4, <2>1, SlotHolds DEF SlotInv
    <3> QED
      BY <1>4, <2>1, <3>1
  <2>2. CASE ~c.close_sent
    BY <1>4, <2>2 DEF Channel, DropPending
  <2> QED
    BY <2>1, <2>2
<1>6. c2 = FreeChannel \/ c2 = g
  BY DEF MaybeRelease
<1>7. LeavesSlot(e, id, s, c2)
  BY <1>2, <1>3, <1>5, <1>6 DEF LeavesSlot
<1>8. c2.in_use => Moves(old, c2, 0, 0, 0)
  <2>1. c2.in_use => c2 = g
    BY <1>6 DEF FreeChannel
  <2> QED
    BY <1>3, <1>5, <2>1, QuietMove
<1>9. Pays(msgs, id, 0)
  <2>1. CASE c.close_sent
    BY <2>1 DEF CloseReply, Pays
  <2>2. CASE ~c.close_sent
    <3> PICK m : m = Control("CLOSE", id, 0)
      OBVIOUS
    <3>1. id \in Id
      BY <1>0, Demuxed
    <3>2. m \in Message /\ m.msg = "CLOSE" /\ m.id = id
      BY <3>1, MessageFacts DEF MsgKind
    <3>3. 0 = Granted(m, id)
      BY <3>2 DEF Granted
    <3>4. msgs = <<m>>
      BY <1>3, <1>4, <2>2 DEF CloseReply
    <3> QED
      BY <3>2, <3>3, <3>4 DEF Pays
  <2> QED
    BY <2>1, <2>2
<1> QED
  BY <1>0, <1>2, <1>7, <1>8, <1>9, QuietTake

LEMMA RecvWindowAdjustCredit ==
  ASSUME TypeInv, TypeInv', UniqueIds, OrderInv, CreditInv,
         NEW e \in Endpoint, RecvWindowAdjust(e)
  PROVE  CreditInv'
<1> PICK m : m = Head(Inbound(e))
  OBVIOUS
<1> PICK id : id = m.id
  OBVIOUS
<1>0. Arriving(e, "WINDOW_ADJUST") /\ TakeAndShip(e, <<>>) /\ delivered' = delivered
  BY Zenon DEF RecvWindowAdjust
<1>1. PICK s \in Lookup(e, id) :
        SetChannel(e, s, [channels[e][s] EXCEPT !.send_window =
                            channels[e][s].send_window + m.window])
  BY Zenon DEF RecvWindowAdjust
<1>2. Inbound(e) # <<>> /\ m \in Message /\ id \in Id /\ m.msg = "WINDOW_ADJUST"
  BY <1>0, Demuxed
<1> PICK old : old = channels[e][s]
  OBVIOUS
<1> PICK n : n = m.window
  OBVIOUS
<1> PICK x : x = old.send_window + n
  OBVIOUS
<1> PICK c2 : c2 = [old EXCEPT !.send_window = x]
  OBVIOUS
<1>3. SetChannel(e, s, c2)
  BY Zenon, <1>1
<1>4. s \in Slot /\ old.in_use /\ old \in Channel /\ old.id = id
  BY LookupFacts, SlotFacts
<1>5. /\ n \in Nat /\ n = Granted(m, id)
  BY <1>2 DEF Message, Granted
<1>6. /\ c2.in_use = old.in_use /\ c2.id = old.id
      /\ c2.recv_consumed = old.recv_consumed
      /\ c2.recv_window_initial = old.recv_window_initial
      /\ c2.send_window = x /\ c2.outbuf_off = old.outbuf_off
      /\ c2.close_requested = old.close_requested /\ c2.close_sent = old.close_sent
      /\ c2.close_rcvd = old.close_rcvd /\ c2.remote_eof = old.remote_eof
  BY <1>4 DEF Channel
<1>7. LeavesSlot(e, id, s, c2)
  BY <1>3, <1>4, <1>6 DEF LeavesSlot
<1>8. Moves(old, c2, 0, n, 0)
  <2>1. old.send_window \in Nat /\ old.outbuf_off \in Nat /\ old.recv_consumed \in Nat
    BY <1>4 DEF Channel
  <2>2. Reach(c2) = Reach(old) + n
    <3>1. x + old.outbuf_off = old.send_window + old.outbuf_off + n
      BY <1>5, <2>1
    <3> QED
      BY Zenon, <1>6, <3>1 DEF Reach
  <2>3. old.recv_consumed + 0 = old.recv_consumed
    BY <2>1
  <2>4. CreditMoot(c2) = CreditMoot(old)
    BY <1>6 DEF CreditMoot
  <2> QED
    BY Zenon, <1>6, <2>2, <2>3, <2>4 DEF Moves
<1>9. HandsOut(e, id, 0) /\ OthersKeep(delivered, delivered', e, id)
  BY <1>0, <1>2, HandsNothing
<1>10. Pays(<<>>, id, 0)
  BY DEF Pays
<1>11. n = Granted(Head(Inbound(e)), id) /\ Head(Inbound(e)).id = id /\ Inbound(e) # <<>>
  BY <1>2, <1>5
<1> QED
  BY Zenon, <1>0, <1>2, <1>7, <1>8, <1>9, <1>10, <1>11, TakeCredit

(* A message of a channel the endpoint does not track is dropped or refused. *)
LEMMA UntrackedTake ==
  ASSUME TypeInv, TypeInv', UniqueIds, CreditInv, NEW e \in Endpoint,
         Inbound(e) # <<>>, NEW id, id = Head(Inbound(e)).id, ~Chan(e, id).in_use,
         NEW msgs, Pays(msgs, id, 0), TakeAndShip(e, msgs), UNCHANGED <<channels, delivered>>
  PROVE  CreditInv'
<1> PICK p : p = Peer(e)
  OBVIOUS
<1>1. Inbound(e) = wire[p] /\ p \in Endpoint /\ wire[p] \in Seq(Message)
  BY PeerEndpoint, TypeInvUse DEF Inbound
<1>2. id \in Id
  <2>1. Head(Inbound(e)) \in Message
    BY <1>1, HeadTailFacts
  <2> QED
    BY <2>1 DEF Message
<1> PICK gy : gy = Granted(Head(wire[p]), id)
  OBVIOUS
<1>3. wire[p] # <<>> /\ Head(wire[p]).id = id
  BY <1>1
<1>4. Billed(e, p, id, 0, gy)
  BY Zenon, <1>3, TakeBooks
<1>5. \A f \in Endpoint, j \in Id : Chan(f, j)' = Chan(f, j)
  BY SameChans
<1>6. OtherBooks(id)
  BY <1>4, <1>5 DEF OtherBooks, Billed
<1> QED
  BY <1>1, <1>2, <1>4, <1>5, <1>6, IdleCredit

LEMMA RecvUnknownCredit ==
  ASSUME TypeInv, TypeInv', UniqueIds, CreditInv, NEW e \in Endpoint, RecvUnknown(e)
  PROVE  CreditInv'
<1> PICK id : id = Head(Inbound(e)).id
  OBVIOUS
<1>1. /\ Inbound(e) # <<>> /\ Lookup(e, id) = {} /\ TakeAndShip(e, <<>>)
      /\ UNCHANGED <<channels, delivered>>
  BY Zenon DEF RecvUnknown
<1>2. ~Chan(e, id).in_use
  BY <1>1 DEF Chan, FreeChannel
<1>3. Pays(<<>>, id, 0)
  BY DEF Pays
<1> QED
  BY <1>1, <1>2, <1>3, UntrackedTake

(* Endpoint e has no trace of channel id. *)
NoTrace(e, id) ==
  Chan(e, id) = FreeChannel /\ Quiet(wire[e], id) /\ delivered[e][id] = <<>>

(* Before an OPEN is taken the acceptor has none, and before it is shipped nobody has. *)
LEMMA TracelessEnds ==
  ASSUME TypeInv, UniqueIds, OrderInv, NEW e \in Endpoint, NEW p, p = Peer(e), NEW id \in Id
  PROVE  /\ Has(wire[p], "OPEN", id) => NoTrace(e, id)
         /\ ~Allocated(id, next_dynamic_offset) => NoTrace(e, id) /\ NoTrace(p, id)
<1>1. p \in Endpoint /\ Peer(p) = e
  BY PeerEndpoint
<1>2. PICK V \in View : IsView(V, id)
  BY ViewExists DEF HaveViews
<1>3. EndsInv(V, id, e, p) /\ EndsInv(V, id, p, e)
  BY <1>1, <1>2 DEF OrderInv, ViewInv
<1>4. Has(wire[p], "OPEN", id) => Fresh(V, id, e)
  BY <1>2, <1>3 DEF EndsInv, OpenInv, IsView
<1>5. ~Allocated(id, next_dynamic_offset) => Fresh(V, id, e) /\ Fresh(V, id, p)
  BY <1>2, <1>3 DEF EndsInv, KnownInv, IsView
<1>6. \A f \in Endpoint : Fresh(V, id, f) => NoTrace(f, id)
  BY <1>2 DEF Fresh, NoTrace, IsView
<1> QED
  BY <1>1, <1>4, <1>5, <1>6

(* Nothing asks for or grants anything on a quiet wire. *)
LEMMA QuietBooks ==
  ASSUME NEW w \in Seq(Message), NEW id, Quiet(w, id)
  PROVE  Credit(w, id) = 0 /\ \A window : ~Asks(w, id, window)
<1>1. ~Has(w, "WINDOW_ADJUST", id) /\ ~Has(w, "OPEN", id)
  BY DEF Quiet, MsgKind
<1>2. Credit(w, id) = 0
  BY <1>1, CreditQuiet
<1> QED
  BY <1>1, <1>2 DEF Has, Asks

LEMMA DefaultWindow ==
  ASSUME NEW window \in Nat
  PROVE  OrDefault(window) \in Nat /\ OrDefault(window) > 0
  BY ConstantsAssumption DEF OrDefault, ConstantsAssumption

LEMMA OpenCredit ==
  ASSUME TypeInv, TypeInv', UniqueIds, OrderInv, CreditInv, NEW e \in Endpoint, Open(e)
  PROVE  CreditInv'
<1> PICK id : id = DYNAMIC_BASE + next_dynamic_offset[e] + Parity(e)
  OBVIOUS
<1> PICK p : p = Peer(e)
  OBVIOUS
<1>1. p \in Endpoint /\ p # e
  BY PeerEndpoint
<1>2. id \in OwnId(e) /\ id \in Id
  BY NewIdType DEF Open
<1>3. PICK s \in Slot, window \in InitialWindows, sink \in Sinks :
        /\ IsFirstFree(e, s)
        /\ SetChannel(e, s, DynamicChannel(id, sink, WINDOW_DEFAULT, OrDefault(window)))
        /\ Ship(e, <<Control("OPEN", id, window)>>)
  BY DEF Open
<1> PICK recv : recv = OrDefault(window)
  OBVIOUS
<1> PICK c : c = DynamicChannel(id, sink, WINDOW_DEFAULT, recv)
  OBVIOUS
<1> PICK m : m = Control("OPEN", id, window)
  OBVIOUS
<1>4. window \in Nat /\ recv \in Nat /\ recv > 0
  <2>1. window \in Nat
    BY ConstantsAssumption DEF ConstantsAssumption
  <2> QED
    BY <2>1, DefaultWindow
<1>5. m \in Message /\ m.msg = "OPEN" /\ m.id = id /\ m.window = window
  BY <1>2, <1>4, MessageFacts DEF MsgKind, Control
<1>6. SetChannel(e, s, c) /\ Ship(e, <<m>>) /\ s \in FreeSlots(e)
  BY <1>3 DEF IsFirstFree
<1>7. /\ wire[e] \in Seq(Message) /\ wire'[e] = Append(wire[e], m) /\ wire'[p] = wire[p]
      /\ \A f \in Endpoint : f = e \/ f = p
  <2>1. wire \in [Endpoint -> Seq(Message)]
    BY TypeInvUse
  <2>2. wire'[e] = wire[e] \o <<m>> /\ wire'[p] = wire[p]
    BY <1>1, <1>6, <2>1 DEF Ship
  <2>3. \A f \in Endpoint : f = e \/ f = p
    BY DEF Endpoint, Peer
  <2> QED
    BY <1>5, <2>1, <2>2, <2>3, AppendTwo
<1>8. ~Allocated(id, next_dynamic_offset)
  <2>1. next_dynamic_offset \in [Endpoint -> Nat]
    BY DEF TypeInv, TypeOK
  <2> QED
    BY <1>2, <2>1 DEF Allocated, Parity, DYNAMIC_BASE
<1>9. Lookup(e, id) = {}
  BY <1>8 DEF Lookup, UniqueIds, Allocated
<1>10. NoTrace(e, id) /\ NoTrace(p, id)
  BY <1>2, <1>8, TracelessEnds
<1>11. delivered' = delivered
  BY DEF Open
<1>12. /\ c.in_use /\ c.id = id /\ c.inbuf = <<>> /\ c.recv_consumed = 0
       /\ c.recv_window_initial = recv /\ c.send_window = WINDOW_DEFAULT /\ c.outbuf_off = 0
  BY DEF DynamicChannel, FreeChannel
<1>13. /\ Chan(e, id)' = c
       /\ \A f \in Endpoint : \A j : (f # e \/ j # id) => Chan(f, j)' = Chan(f, j)
  BY <1>6, <1>9, <1>12, AddChan
<1>14. OtherBooks(id)
  <2> SUFFICES ASSUME NEW j \in Id \ {id}, NEW f \in Endpoint
               PROVE  SameBooks(wire[f], wire'[f], j)
    BY <1>11, <1>13 DEF OtherBooks
  <2>1. SameBooks(wire[p], wire'[p], j)
    BY <1>7 DEF SameBooks
  <2>2. SameBooks(wire[e], wire'[e], j)
    BY <1>5, <1>7, AppendOthers
  <2> QED
    BY <1>7, <2>1, <2>2
<1> PICK w, w2 : w = wire[e] /\ w2 = wire'[e]
  OBVIOUS
<1>15. /\ w \in Seq(Message) /\ Credit(w2, id) = 0
       /\ \A x : Asks(w2, id, x) => x = window
  <2>1. w \in Seq(Message) /\ w2 = Append(w, m) /\ Quiet(w, id)
    BY <1>7, <1>10 DEF NoTrace
  <2>2. Credit(w, id) = 0 /\ \A x : ~Asks(w, id, x)
    BY <2>1, QuietBooks
  <2>3. Credit(w2, id) = Credit(w, id) + Granted(m, id)
    BY <1>5, <2>1, CreditAppend
  <2>4. Granted(m, id) = 0
    BY <1>5 DEF Granted
  <2>5. \A x : Asks(w2, id, x) => x = window
    BY <1>5, <2>1, <2>2, AsksAppend
  <2> QED
    BY <2>1, <2>2, <2>3, <2>4, <2>5
<1>16. Reach(c) = WINDOW_DEFAULT
  BY <1>12, ConstantsAssumption DEF Reach, ConstantsAssumption
<1> PICK dl : dl = delivered'[e][id]
  OBVIOUS
<1>17. dl = <<>>
  BY <1>10, <1>11 DEF NoTrace
<1>18. EndOk(c, w2, dl, id)
  BY <1>4, <1>12, <1>15, <1>16, <1>17 DEF EndOk
<1> PICK d : d = Chan(p, id)
  OBVIOUS
<1>19. ~d.in_use /\ Chan(p, id)' = d
  BY <1>1, <1>10, <1>13 DEF NoTrace, FreeChannel
<1>20. /\ EndOk(d, wire'[p], delivered'[p][id], id)
       /\ PairOk(c, d, wire'[p], delivered'[p][id], id)
       /\ PairOk(d, c, w2, dl, id)
  BY <1>19 DEF EndOk, PairOk
<1> QED
  BY <1>2, <1>13, <1>14, <1>18, <1>19, <1>20, OneBook

(* An OPEN is accepted: the acceptor may send what the opener asked to get,   *)
(* and the opener what it has from the start, the acceptor's default window.  *)
LEMMA AcceptCredit ==
  ASSUME TypeInv, TypeInv', UniqueIds, OrderInv, CreditInv, NEW e \in Endpoint,
         Arriving(e, "OPEN"), NEW m, m = Head(Inbound(e)), NEW id, id = m.id,
         Lookup(e, id) = {}, NEW s, s \in FreeSlots(e), NEW sink, NEW c,
         c = DynamicChannel(id, sink, OrDefault(m.window), WINDOW_DEFAULT),
         SetChannel(e, s, c), TakeAndShip(e, <<>>), delivered' = delivered
  PROVE  CreditInv'
<1> PICK p : p = Peer(e)
  OBVIOUS
<1>1. p \in Endpoint /\ p # e
  BY PeerEndpoint
<1>2. Inbound(e) # <<>> /\ m \in Message /\ id \in Id /\ m.msg = "OPEN"
  BY Demuxed
<1>3. /\ wire[p] \in Seq(Message) /\ wire[e] \in Seq(Message) /\ wire[p] # <<>>
      /\ m = Head(wire[p])
  BY <1>1, <1>2, TypeInvUse DEF Inbound
<1> PICK window, send : window = m.window /\ send = OrDefault(m.window)
  OBVIOUS
<1>4. window \in Nat /\ send = OrDefault(window) /\ send \in Nat
  BY <1>2, DefaultWindow DEF Message
<1>5. Billed(e, p, id, 0, 0)
  <2>1. Pays(<<>>, id, 0)
    BY DEF Pays
  <2>2. Granted(Head(wire[p]), id) = 0
    BY <1>2, <1>3 DEF Granted
  <2>3. Billed(e, p, id, 0, Granted(Head(wire[p]), id))
    BY Zenon, <1>3, <2>1, TakeBooks
  <2> QED
    BY Zenon, <2>2, <2>3
<1>6. Has(wire[p], "OPEN", id) /\ Asks(wire[p], id, window)
  <2>1. Has(wire[p], "OPEN", id)
    BY <1>2, <1>3, TailHas
  <2>2. Asks(wire[p], id, window)
    BY <1>2, <1>3, AsksTail
  <2> QED
    BY <2>1, <2>2
<1>7. NoTrace(e, id)
  BY <1>2, <1>6, TracelessEnds
<1>8. /\ c.in_use /\ c.id = id /\ c.inbuf = <<>> /\ c.recv_consumed = 0
      /\ c.recv_window_initial = WINDOW_DEFAULT /\ c.send_window = send /\ c.outbuf_off = 0
  BY DEF DynamicChannel, FreeChannel
<1>9. /\ Chan(e, id)' = c
      /\ \A f \in Endpoint : \A j : (f # e \/ j # id) => Chan(f, j)' = Chan(f, j)
  BY <1>8, AddChan
<1>10. OtherBooks(id)
  BY <1>5, <1>9 DEF OtherBooks, Billed
<1> PICK w, w2, v, v2 : w = wire[e] /\ w2 = wire'[e] /\ v = wire[p] /\ v2 = wire'[p]
  OBVIOUS
<1> PICK dl, dd : dl = delivered[e][id] /\ dd = delivered[p][id]
  OBVIOUS
<1> PICK d : d = Chan(p, id)
  OBVIOUS
<1>11. /\ w \in Seq(Message) /\ v \in Seq(Message) /\ v2 \in Seq(Message)
       /\ dl = <<>> /\ d \in Channel
  <2>1. wire' \in [Endpoint -> Seq(Message)]
    BY DEF TypeInv, TypeOK
  <2> QED
    BY <1>1, <1>3, <1>7, <2>1, ChanType DEF NoTrace
<1>12. Credit(w2, id) = 0 /\ \A x : ~Asks(w2, id, x)
  <2>1. Credit(w, id) = 0 /\ \A x : ~Asks(w, id, x)
    BY <1>3, <1>7, QuietBooks DEF NoTrace
  <2>2. Credit(w2, id) = Credit(w, id) + 0 /\ \A x : Asks(w2, id, x) => Asks(w, id, x)
    BY <1>5 DEF Billed
  <2> QED
    BY <2>1, <2>2
<1>13. /\ Credit(v, id) = Credit(v2, id) + 0
       /\ \A x : Asks(v2, id, x) => Asks(v, id, x)
  BY <1>5 DEF Billed
<1>14. EndOk(d, v, dd, id)
  <2>1. EndOk(Chan(p, id), wire[p], delivered[p][id], id)
    BY <1>2, PeerEndpoint DEF CreditInv
  <2> QED
    BY Zenon, <2>1
<1>15. EndOk(d, v2, dd, id)
  BY <1>11, <1>13, <1>14, DrainedEnd
<1>16. EndOk(c, w2, dl, id)
  BY <1>8, <1>12, ConstantsAssumption DEF EndOk, ConstantsAssumption
<1>17. d.in_use =>
         /\ d.recv_window_initial = send /\ d.recv_consumed = 0 /\ dd = <<>>
         /\ Credit(v, id) = 0
         /\ ~d.close_requested => Reach(d) = WINDOW_DEFAULT
  BY <1>4, <1>6, <1>14 DEF EndOk
<1>18. PairOk(c, d, v2, dd, id)
  <2> SUFFICES ASSUME d.in_use
               PROVE  Reach(c) + d.recv_consumed + Credit(v2, id)
                        = d.recv_window_initial + Len(dd)
    BY DEF PairOk
  <2>1. Credit(v2, id) = 0
    BY <1>11, <1>13, <1>17, CreditType
  <2>2. Reach(c) = send
    BY <1>4, <1>8 DEF Reach
  <2>3. Len(dd) = 0
    BY <1>17
  <2> QED
    BY <1>4, <1>17, <2>1, <2>2, <2>3
<1>19. PairOk(d, c, w2, dl, id)
  <2> SUFFICES ASSUME d.in_use, Live(d, c)
               PROVE  Reach(d) + c.recv_consumed + Credit(w2, id)
                        = c.recv_window_initial + Len(dl)
    BY DEF PairOk
  <2>1. Reach(d) = WINDOW_DEFAULT
    BY <1>17 DEF Live
  <2>2. Len(dl) = 0
    BY <1>11
  <2>3. WINDOW_DEFAULT \in Nat
    BY ConstantsAssumption DEF ConstantsAssumption
  <2> QED
    BY <1>8, <1>12, <2>1, <2>2, <2>3
<1>20. Chan(p, id)' = d /\ delivered'[e][id] = dl /\ delivered'[p][id] = dd
  BY <1>1, <1>9
<1> QED
  BY <1>2, <1>9, <1>10, <1>15, <1>16, <1>18, <1>19, <1>20, OneBook

LEMMA RecvOpenCredit ==
  ASSUME TypeInv, TypeInv', UniqueIds, OrderInv, CreditInv, NEW e \in Endpoint, RecvOpen(e)
  PROVE  CreditInv'
<1> PICK m : m = Head(Inbound(e))
  OBVIOUS
<1> PICK id : id = m.id
  OBVIOUS
<1> PICK p : p = Peer(e)
  OBVIOUS
<1>1. Arriving(e, "OPEN") /\ delivered' = delivered
  BY Zenon DEF RecvOpen
<1>2. Inbound(e) # <<>> /\ m \in Message /\ id \in Id /\ m.msg = "OPEN"
  BY <1>1, Demuxed
<1>3. CASE /\ Lookup(e, id) = {}
           /\ \E s \in Slot, sink \in Sinks :
                /\ IsFirstFree(e, s)
                /\ SetChannel(e, s, DynamicChannel(id, sink, OrDefault(m.window),
                                                   WINDOW_DEFAULT))
           /\ TakeAndShip(e, <<>>)
  <2>1. PICK s \in Slot, sink \in Sinks :
          /\ IsFirstFree(e, s)
          /\ SetChannel(e, s, DynamicChannel(id, sink, OrDefault(m.window), WINDOW_DEFAULT))
    BY <1>3
  <2>2. s \in FreeSlots(e)
    BY <2>1 DEF IsFirstFree
  <2> PICK c : c = DynamicChannel(id, sink, OrDefault(m.window), WINDOW_DEFAULT)
    OBVIOUS
  <2>3. SetChannel(e, s, c)
    BY Zenon, <2>1
  <2> QED
    BY Zenon, <1>1, <1>3, <2>2, <2>3, AcceptCredit
<1>4. CASE UNCHANGED channels /\ TakeAndShip(e, <<Control("CLOSE", id, 0)>>)
  <2>1. Has(wire[p], "OPEN", id)
    <3>1. wire[p] \in Seq(Message) /\ wire[p] # <<>> /\ m = Head(wire[p])
      BY <1>2, PeerEndpoint, TypeInvUse DEF Inbound
    <3> QED
      BY <1>2, <3>1, TailHas
  <2>2. ~Chan(e, id).in_use
    BY <1>2, <2>1, TracelessEnds DEF NoTrace, FreeChannel
  <2> PICK k : k = Control("CLOSE", id, 0)
    OBVIOUS
  <2>3. k \in Message /\ k.msg = "CLOSE" /\ k.id = id
    BY <1>2, MessageFacts DEF MsgKind
  <2>4. Pays(<<k>>, id, 0)
    <3>1. 0 = Granted(k, id)
      BY <2>3 DEF Granted
    <3> QED
      BY <2>3, <3>1 DEF Pays
  <2>5. TakeAndShip(e, <<k>>)
    BY Zenon, <1>4
  <2> QED
    BY <1>1, <1>2, <1>4, <2>2, <2>4, <2>5, UntrackedTake
<1> QED
  BY Zenon, <1>3, <1>4 DEF RecvOpen

-----------------------------------------------------------------------------
(* The invariant.                                                           *)

LEMMA InitCredit == Init => CreditInv
<1> SUFFICES ASSUME Init PROVE CreditInv
  OBVIOUS
<1>1. \A e \in Endpoint, id \in Id : ~Chan(e, id).in_use
  BY DEF Init, Chan, Lookup, InUse, FreeChannel
<1>2. \A e \in Endpoint : Peer(e) \in Endpoint
  BY PeerEndpoint
<1> QED
  BY <1>1, <1>2 DEF CreditInv, EndOk, PairOk

LEMMA CreditStep ==
  ASSUME ~ShipMayFail, TypeInv, TypeInv', UniqueIds, OrderInv, CreditInv, [Next]_vars
  PROVE  CreditInv'
<1>1. CASE UNCHANGED vars
  BY <1>1, SameCredit DEF vars
<1>2. ASSUME NEW e \in Endpoint, NEW s \in Slot, Consumer(e, s) PROVE CreditInv'
  <2>1. CASE Read(e, s)
    BY <2>1, ReadCredit
  <2>2. CASE Write(e, s) \/ Flush(e, s) \/ SendEof(e, s) \/ Close(e, s)
    BY <2>2, WriteCredit
  <2> QED
    BY <1>2, <2>1, <2>2 DEF Consumer
<1>3. ASSUME NEW e \in Endpoint, PumpWritable(e) \/ EmitNothing(e) PROVE CreditInv'
  <2>1. UNCHANGED <<channels, wire, delivered>>
    BY <1>3 DEF PumpWritable, EmitNothing
  <2> QED
    BY <2>1, SameCredit
<1>4. ASSUME NEW e \in Endpoint, Emit(e) PROVE CreditInv'
  BY <1>3, <1>4, EmitDataCredit, EmitSealsCredit DEF Emit
<1>5. ASSUME NEW e \in Endpoint, Recv(e) PROVE CreditInv'
  BY <1>5, RecvOpenCredit, RecvDataCredit, RecvEofCredit, RecvCloseCredit,
     RecvWindowAdjustCredit, RecvUnknownCredit DEF Recv
<1> QED
  BY <1>1, <1>2, <1>3, <1>4, <1>5, OpenCredit DEF Next

LEMMA CreditInvariant ==
  ASSUME ~ShipMayFail
  PROVE  Spec => [](TypeInv /\ IdInv /\ OrderInv /\ CreditInv)
<1>1. Init => CreditInv
  BY InitCredit
<1>2. TypeInv /\ IdInv /\ OrderInv /\ CreditInv /\ [Next]_vars /\ (TypeInv /\ IdInv /\ OrderInv)'
        => CreditInv'
  BY CreditStep DEF IdInv
<1> QED
  BY <1>1, <1>2, OrderInvariant, PTL DEF Spec

(* The books of a channel both tables hold, in numbers: the sender's window,  *)
(* what it has sent, what the receiver owes, the credit under way, the window  *)
(* and what the consumer got.                                                 *)
Books(c, d, w, dl, id) ==
  /\ c.send_window \in Nat /\ c.outbuf_off \in Nat
  /\ d.recv_consumed \in Nat /\ d.recv_window_initial \in Nat
  /\ Credit(w, id) \in Nat /\ Len(dl) \in Nat
  /\ c.send_window + c.outbuf_off + d.recv_consumed + Credit(w, id)
       = d.recv_window_initial + Len(dl)
  /\ d.recv_consumed < d.recv_window_initial

(* They balance, and a sender without a window has something coming. *)
Balanced(c, d, w, dl, id) ==
  c.send_window + (c.outbuf_off - Len(dl)) + d.recv_consumed + Credit(w, id)
    = d.recv_window_initial

LEMMA BooksAdd ==
  ASSUME NEW sw \in Nat, NEW sent \in Nat, NEW owed \in Nat, NEW credit \in Nat,
         NEW window \in Nat, NEW read \in Nat,
         sw + sent + owed + credit = window + read, owed < window
  PROVE  /\ sw + (sent - read) + owed + credit = window
         /\ sw = 0 => sent > read \/ credit > 0
  OBVIOUS

LEMMA BooksBalance ==
  ASSUME NEW c, NEW d, NEW w, NEW dl, NEW id, Books(c, d, w, dl, id)
  PROVE  /\ Balanced(c, d, w, dl, id)
         /\ c.send_window = 0 => c.outbuf_off > Len(dl) \/ Credit(w, id) > 0
<1>1. PICK sw, sent, owed, credit, window, read :
        /\ sw = c.send_window /\ sent = c.outbuf_off /\ owed = d.recv_consumed
        /\ credit = Credit(w, id) /\ window = d.recv_window_initial /\ read = Len(dl)
  OBVIOUS
<1>2. /\ sw \in Nat /\ sent \in Nat /\ owed \in Nat
      /\ credit \in Nat /\ window \in Nat /\ read \in Nat
  BY Zenon, <1>1 DEF Books
<1>3. sw + sent + owed + credit = window + read /\ owed < window
  BY Zenon, <1>1 DEF Books
<1>4. sw + (sent - read) + owed + credit = window
  BY <1>2, <1>3, BooksAdd
<1>5. sw = 0 => sent > read \/ credit > 0
  BY <1>2, <1>3, BooksAdd
<1> QED
  BY Zenon, <1>1, <1>4, <1>5 DEF Balanced

LEMMA BothEnds ==
  ASSUME TypeInv, UniqueIds, CreditInv, NEW e \in Endpoint, NEW s \in InUse(e),
         NEW t \in Lookup(Peer(e), channels[e][s].id),
         Live(channels[e][s], channels[Peer(e)][t])
  PROVE  /\ Books(channels[e][s], channels[Peer(e)][t], wire[Peer(e)],
                  delivered[Peer(e)][channels[e][s].id], channels[e][s].id)
         /\ channels[e][s].id \in Id /\ Peer(e) \in Endpoint
         /\ Chan(Peer(e), channels[e][s].id) = channels[Peer(e)][t]
         /\ delivered[Peer(e)][channels[e][s].id] \in Seq(Nat)
<1> PICK p, id : p = Peer(e) /\ id = channels[e][s].id
  OBVIOUS
<1>1. p \in Endpoint /\ s \in Slot /\ channels[e][s].in_use /\ t \in Lookup(p, id)
  BY PeerEndpoint DEF InUse
<1>2. id \in Id /\ channels[e][s] \in Channel /\ Chan(e, id) = channels[e][s]
  BY <1>1, SlotFacts
<1>3. t \in Slot /\ channels[p][t].in_use /\ Chan(p, id) = channels[p][t]
  BY <1>1, LookupFacts, ChanLookup
<1>4. channels[p][t] \in Channel
  BY <1>1, <1>3, ChanType
<1>5. delivered[p][id] \in Seq(Nat) /\ wire[p] \in Seq(Message)
  BY <1>1, <1>2, TypeInvUse
<1> PICK c, d, w, dl : /\ c = channels[e][s] /\ d = channels[p][t]
                       /\ w = wire[p] /\ dl = delivered[p][id]
  OBVIOUS
<1>6. PairOk(c, d, w, dl, id) /\ EndOk(d, w, dl, id)
  <2>1. PairOk(Chan(e, id), Chan(Peer(e), id), wire[Peer(e)], delivered[Peer(e)][id], id)
    BY <1>2 DEF CreditInv
  <2>2. EndOk(Chan(p, id), wire[p], delivered[p][id], id)
    BY <1>1, <1>2 DEF CreditInv
  <2> QED
    BY Zenon, <1>2, <1>3, <2>1, <2>2
<1>7. c.in_use /\ d.in_use /\ Live(c, d)
  BY <1>1, <1>3
<1>8. Reach(c) + d.recv_consumed + Credit(w, id) = d.recv_window_initial + Len(dl)
  BY Zenon, <1>6, <1>7 DEF PairOk
<1>9. d.recv_consumed < d.recv_window_initial
  BY Zenon, <1>6, <1>7 DEF EndOk
<1>10. c \in Channel /\ d \in Channel /\ w \in Seq(Message) /\ dl \in Seq(Nat)
  BY <1>2, <1>4, <1>5
<1>11. Books(c, d, w, dl, id)
  <2>1. /\ c.send_window \in Nat /\ c.outbuf_off \in Nat
        /\ d.recv_consumed \in Nat /\ d.recv_window_initial \in Nat
    BY <1>10 DEF Channel
  <2>2. Credit(w, id) \in Nat /\ Len(dl) \in Nat
    BY <1>10, CreditType, LenProperties
  <2>3. c.send_window + c.outbuf_off + d.recv_consumed + Credit(w, id)
          = d.recv_window_initial + Len(dl)
    BY Zenon, <1>8 DEF Reach
  <2> QED
    BY Zenon, <1>9, <2>1, <2>2, <2>3 DEF Books
<1> QED
  BY Zenon, <1>1, <1>2, <1>3, <1>5, <1>11

(* No credit is lost or invented between a sender and its receiver while     *)
(* neither closes (connection.c:416-446, 705-737): the sender's window, its   *)
(* bytes under way, what the receiver drained without granting it back and    *)
(* the grants on the wire are the receiver's window, whatever the windows     *)
(* and the messages.                                                         *)
THEOREM CreditIsConserved ==
  ASSUME ~ShipMayFail
  PROVE  Spec => []CreditConserved
<1>1. TypeInv /\ IdInv /\ CreditInv => CreditConserved
  <2> SUFFICES ASSUME TypeInv, IdInv, CreditInv, NEW e \in Endpoint, NEW s \in InUse(e),
                      NEW t \in Lookup(Peer(e), channels[e][s].id),
                      Live(channels[e][s], channels[Peer(e)][t])
               PROVE  Balanced(channels[e][s], channels[Peer(e)][t], wire[Peer(e)],
                               delivered[Peer(e)][channels[e][s].id], channels[e][s].id)
    BY Zenon DEF CreditConserved, CreditInFlight, Balanced
  <2>1. UniqueIds
    BY DEF IdInv
  <2>2. Books(channels[e][s], channels[Peer(e)][t], wire[Peer(e)],
              delivered[Peer(e)][channels[e][s].id], channels[e][s].id)
    BY Zenon, <2>1, BothEnds
  <2> QED
    BY Zenon, <2>2, BooksBalance
<1> QED
  BY <1>1, CreditInvariant, PTL

(* Deferring grants to half a window never starves a sender                   *)
(* (connection.c:334-337, 450-453, 720-737): one without credit has bytes      *)
(* under way or unread, or a grant on its way to it.                          *)
THEOREM BlockedSendersAreWoken ==
  ASSUME ~ShipMayFail
  PROVE  Spec => []BlockedSenderIsWoken
<1>1. TypeInv /\ IdInv /\ CreditInv => BlockedSenderIsWoken
  <2> SUFFICES ASSUME TypeInv, IdInv, CreditInv, NEW e \in Endpoint, NEW s \in InUse(e),
                      NEW t \in Lookup(Peer(e), channels[e][s].id),
                      Live(channels[e][s], channels[Peer(e)][t]),
                      channels[e][s].send_window = 0,
                      channels[Peer(e)][t].inbuf = <<>>
               PROVE  \/ channels[e][s].outbuf_off > Len(Arrived(Peer(e), channels[e][s].id))
                      \/ Credit(wire[Peer(e)], channels[e][s].id) > 0
    BY Zenon DEF BlockedSenderIsWoken, CreditInFlight
  <2>1. UniqueIds
    BY DEF IdInv
  <2>2. /\ Books(channels[e][s], channels[Peer(e)][t], wire[Peer(e)],
                 delivered[Peer(e)][channels[e][s].id], channels[e][s].id)
        /\ channels[e][s].id \in Id /\ Peer(e) \in Endpoint
        /\ Chan(Peer(e), channels[e][s].id) = channels[Peer(e)][t]
        /\ delivered[Peer(e)][channels[e][s].id] \in Seq(Nat)
    BY Zenon, <2>1, BothEnds
  <2> PICK p, id : p = Peer(e) /\ id = channels[e][s].id
    OBVIOUS
  <2>3. Arrived(p, id) = delivered[p][id]
    <3>1. Arrived(p, id) = delivered[p][id] \o Chan(p, id).inbuf
      BY Zenon, <2>1, <2>2, ArrivedChan DEF ArrivedIs
    <3>2. Chan(p, id).inbuf = <<>>
      BY Zenon, <2>2
    <3>3. delivered[p][id] \in Seq(Nat)
      BY Zenon, <2>2
    <3>4. delivered[p][id] \o <<>> = delivered[p][id]
      BY <3>3, ConcatEmptySeq
    <3> QED
      BY Zenon, <3>1, <3>2, <3>4
  <2>4. \/ channels[e][s].outbuf_off > Len(delivered[Peer(e)][channels[e][s].id])
        \/ Credit(wire[Peer(e)], channels[e][s].id) > 0
    BY Zenon, <2>2, BooksBalance
  <2> QED
    BY Zenon, <2>3, <2>4
<1> QED
  BY <1>1, CreditInvariant, PTL

=============================================================================
