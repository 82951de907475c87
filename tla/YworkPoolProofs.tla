-------------------------- MODULE YworkPoolProofs --------------------------
(***************************************************************************)
(* Theorems about YworkPool, for any number of submitters, slots, jobs and *)
(* faults.  The inductive invariant has four parts: the types, the order   *)
(* of the jobs, what idle_count counts, and who holds a slot.              *)
(***************************************************************************)
EXTENDS YworkPool, FiniteSetTheorems, TLAPS

State == {"unborn", "lock", "wait", "woken", "run", "post", "notify", "exit"}

Standing == [at : {"idle", "spawn", "rollback"}, slot : Int]

\* live may be anything once a creation has failed: the slots are then counted
\* again by the rollback.
Typed ==
  /\ queue \in Seq(Nat) /\ started \in Seq(Nat) /\ next \in Nat
  /\ live \in Int /\ joining \in Nat /\ faults \in Nat
  /\ shutdown \in BOOLEAN /\ freed \in BOOLEAN
  /\ handle \in [Slots -> Nat]
  /\ worker \in [Threads -> State]
  /\ submitter \in [Submitters -> Standing]

\* The queue is sorted, and what was started comes before it.
InOrder ==
  /\ StartedInOrder
  /\ \A i, j \in DOMAIN queue : i < j => queue[i] < queue[j]
  /\ \A i \in DOMAIN started, j \in DOMAIN queue : started[i] < queue[j]
  /\ \A i \in DOMAIN started : started[i] < next
  /\ \A i \in DOMAIN queue : queue[i] < next

\* idle_count is the number of workers that wait or have been woken.
Sleepers == {t \in Threads : worker[t] \in {"wait", "woken"}}
IdleCounts == idle = Cardinality(Sleepers)

Active(t) == worker[t] \notin {"unborn", "exit"}
Claims(s, k) == submitter[s].at = "spawn" /\ submitter[s].slot = k

\* While no creation has failed: a claimed slot is free and claimed by one
\* submitter; every slot below live_count is claimed or has a thread, which has
\* been created; every active worker is in a slot that destroy has still to join.
SlotsHeld ==
  /\ live \in 0..MAX_THREADS
  /\ \A s \in Submitters : submitter[s].at # "rollback"
  /\ \A s \in Submitters, k \in Int : Claims(s, k) => k \in 1..live /\ handle[k] = 0
  /\ \A r, s \in Submitters, k \in Int : Claims(r, k) /\ Claims(s, k) => r = s
  /\ \A k \in Slots : k > live => handle[k] = 0
  /\ \A k \in Slots : handle[k] # 0 => handle[k] \in Threads /\ worker[handle[k]] # "unborn"
  /\ \A t \in Threads : Active(t) => \E k \in Slots : joining <= k /\ handle[k] = t
  /\ ~shutdown => \A k \in 1..live : handle[k] # 0 \/ \E s \in Submitters : Claims(s, k)

\* Destroy begins with every submitter idle; until then no worker leaves.
Closing ==
  /\ shutdown <=> joining # 0
  /\ shutdown => \A s \in Submitters : submitter[s].at = "idle"
  /\ ~shutdown => \A t \in Threads : worker[t] # "exit"
  /\ freed => shutdown /\ joining = live + 1

Safe == Typed /\ InOrder /\ IdleCounts /\ Closing /\ (faults = 0 => SlotsHeld)
IInv == Safe /\ QueuedJobIsAttended /\ PostedIsNotified

-----------------------------------------------------------------------------
(* Types *)

LEMMA IdleStanding == Idle \in Standing
BY DEF Idle, Standing

LEMMA ExceptType ==
  ASSUME NEW S, NEW T, NEW f \in [S -> T], NEW x, NEW v \in T
  PROVE  [f EXCEPT ![x] = v] \in [S -> T]
  OBVIOUS

LEMMA InitTyped == Init => Typed
<1> SUFFICES ASSUME Init PROVE Typed
  OBVIOUS
<1>1. queue \in Seq(Nat) /\ started \in Seq(Nat) /\ next \in Nat
  <2>1. <<>> \in Seq(Nat)
    OBVIOUS
  <2> QED
    BY <2>1 DEF Init
<1>2. live \in Int /\ joining \in Nat /\ faults \in Nat
  BY DEF Init
<1>3. shutdown \in BOOLEAN /\ freed \in BOOLEAN
  BY Zenon DEF Init
<1>4. handle \in [Slots -> Nat]
  BY DEF Init
<1>5. worker \in [Threads -> State]
  BY DEF Init, State
<1>6. submitter \in [Submitters -> Standing]
  BY IdleStanding DEF Init
<1> QED
  BY <1>1, <1>2, <1>3, <1>4, <1>5, <1>6 DEF Typed

\* A step of a worker with the lock in its hand.
LEMMA DequeueTyped ==
  ASSUME Typed, NEW t \in Threads, NEW n, Dequeue(t, n)
  PROVE  /\ queue' \in Seq(Nat) /\ started' \in Seq(Nat)
         /\ worker' \in [Threads -> State]
<1>1. CASE queue # <<>> /\ worker' = [worker EXCEPT ![t] = "run"]
           /\ queue' = Tail(queue) /\ started' = Append(started, Head(queue))
  BY <1>1 DEF Typed, State
<1>2. CASE UNCHANGED <<queue, started>> /\ worker' = [worker EXCEPT ![t] = "wait"]
  BY <1>2 DEF Typed, State
<1>3. CASE UNCHANGED <<queue, started>> /\ worker' = [worker EXCEPT ![t] = "exit"]
  BY <1>3 DEF Typed, State
<1> QED
  BY <1>1, <1>2, <1>3 DEF Dequeue, Pop

LEMMA TypedStep == Typed /\ [Next]_vars => Typed'
<1> SUFFICES ASSUME Typed, [Next]_vars PROVE Typed'
  OBVIOUS
<1> USE PoolAssumption
<1>1. ASSUME NEW s \in Submitters, Submit(s) PROVE Typed'
  <2>1. next \in Nat /\ queue' \in Seq(Nat) /\ next' \in Nat
    BY <1>1 DEF Submit, Push, Typed
  <2>2. worker' \in [Threads -> State]
    BY <1>1 DEF Submit, Signal, Typed, State
  <2>3. live' \in Int
    BY <1>1 DEF Submit, Typed
  <2>4. submitter' \in [Submitters -> Standing]
    <3>1. [at |-> "spawn", slot |-> live + 1] \in Standing
      BY <2>1 DEF Typed, Standing
    <3> QED
      BY <1>1, <3>1 DEF Submit, Typed
  <2> QED
    BY <1>1, <2>1, <2>2, <2>3, <2>4 DEF Submit, Typed
<1>2. ASSUME NEW s \in Submitters, Spawn(s) PROVE Typed'
  <2>1. Threads \subseteq Nat
    BY DEF Threads
  <2>2. worker' \in [Threads -> State]
    BY <1>2 DEF Spawn, Typed, State
  <2>3. handle' \in [Slots -> Nat]
    <3>1. handle \in [Slots -> Nat] /\ \E h \in Nat : handle' = [handle EXCEPT ![submitter[s].slot] = h]
      BY <1>2, <2>1 DEF Spawn, Typed
    <3> QED
      BY <3>1, ExceptType
  <2>4. submitter' \in [Submitters -> Standing]
    <3>0. submitter[s] \in Standing
      BY DEF Typed
    <3>1. [submitter[s] EXCEPT !.at = "rollback"] \in Standing
      BY <3>0 DEF Standing
    <3> QED
      BY <1>2, <3>1, IdleStanding DEF Spawn, Typed
  <2>5. faults' \in Nat
    BY <1>2 DEF Spawn, Typed
  <2> QED
    BY <1>2, <2>2, <2>3, <2>4, <2>5 DEF Spawn, Typed
<1>3. ASSUME NEW s \in Submitters, Rollback(s) PROVE Typed'
  BY <1>3, IdleStanding DEF Rollback, Typed
<1>4. ASSUME NEW t \in Threads, WorkerLocks(t) PROVE Typed'
  BY <1>4, DequeueTyped DEF WorkerLocks, Typed
<1>5. ASSUME NEW t \in Threads, WorkerWakes(t) PROVE Typed'
  BY <1>5, DequeueTyped DEF WorkerWakes, Typed
<1>6. ASSUME NEW t \in Threads, SpuriousWakeup(t) \/ RunReturns(t) \/ Post(t) \/ Notify(t)
      PROVE  Typed'
  <2>1. worker' \in [Threads -> State] /\ faults' \in Nat
    BY SMTT(40), <1>6 DEF SpuriousWakeup, RunReturns, Post, Notify, Typed, State
  <2> QED
    BY <1>6, <2>1 DEF SpuriousWakeup, RunReturns, Post, Notify, poolVars, Typed
<1>7. CASE LoopDetaches \/ LoopRuns
  BY <1>7 DEF LoopDetaches, LoopRuns, poolVars, Typed
<1>8. CASE Join \/ Free
  <2>1. <<>> \in Seq(Nat)
    OBVIOUS
  <2>2. handle' \in [Slots -> Nat]
    <3>1. handle \in [Slots -> Nat]
      BY DEF Typed
    <3>2. UNCHANGED handle \/ handle' = [handle EXCEPT ![joining] = 0]
      BY <1>8 DEF Join, Free
    <3> QED
      BY <3>1, <3>2, ExceptType
  <2>3. queue' \in Seq(Nat)
    BY <1>8, <2>1 DEF Join, Free, Typed
  <2>4. joining' \in Nat
    BY <1>8 DEF Join, Free, Typed
  <2> QED
    BY <1>8, <2>2, <2>3, <2>4 DEF Join, Free, Typed
<1>9. CASE Destroy
  <2>1. worker' \in [Threads -> State]
    BY <1>9 DEF Destroy, Typed, State
  <2> QED
    BY <1>9, <2>1 DEF Destroy, Typed
<1>10. CASE UNCHANGED vars
  BY <1>10 DEF vars, poolVars, Typed
<1> QED
  BY <1>1, <1>2, <1>3, <1>4, <1>5, <1>6, <1>7, <1>8, <1>9, <1>10
  DEF Next, SubmitterStep, WorkerStep, LoopStep

-----------------------------------------------------------------------------
(* The order of the jobs *)

LEMMA InitOrder == Init => InOrder
BY DEF Init, InOrder, StartedInOrder

LEMMA AppendFacts ==
  ASSUME NEW q \in Seq(Nat), NEW j \in Nat
  PROVE  /\ Append(q, j) \in Seq(Nat)
         /\ DOMAIN Append(q, j) = 1 .. Len(q) + 1 /\ DOMAIN q = 1 .. Len(q) /\ Len(q) \in Nat
         /\ \A i \in 1 .. Len(q) : Append(q, j)[i] = q[i]
         /\ Append(q, j)[Len(q) + 1] = j
  OBVIOUS

LEMMA TailFacts ==
  ASSUME NEW q \in Seq(Nat), q # <<>>
  PROVE  /\ Tail(q) \in Seq(Nat) /\ Head(q) = q[1] /\ Head(q) \in Nat
         /\ 1 \in DOMAIN q /\ DOMAIN q \subseteq Nat
         /\ \A i \in DOMAIN Tail(q) : i + 1 \in DOMAIN q /\ 1 < i + 1 /\ Tail(q)[i] = q[i + 1]
         /\ DOMAIN Tail(q) \subseteq Nat
  OBVIOUS

LEMMA PushOrder ==
  ASSUME Typed, InOrder, queue' = Append(queue, next), next' = next + 1, UNCHANGED started
  PROVE  InOrder'
<1>1. queue \in Seq(Nat) /\ next \in Nat
  BY DEF Typed
<1>2. /\ \A i \in DOMAIN started : started[i] \in Nat
      /\ \A i \in DOMAIN queue : queue[i] \in Nat /\ i \in Nat
  BY DEF Typed
<1>3. /\ DOMAIN queue' = DOMAIN queue \cup {Len(queue) + 1}
      /\ \A i \in DOMAIN queue : queue'[i] = queue[i] /\ i < Len(queue) + 1
      /\ queue'[Len(queue) + 1] = next /\ Len(queue) \in Nat
  BY <1>1, AppendFacts
<1>4. \A i, j \in DOMAIN queue' : i < j => queue'[i] < queue'[j]
  BY <1>1, <1>2, <1>3 DEF InOrder
<1>5. \A i \in DOMAIN queue' : queue'[i] < next'
  BY <1>1, <1>2, <1>3 DEF InOrder
<1>6. \A i \in DOMAIN started, j \in DOMAIN queue' : started[i] < queue'[j]
  BY <1>1, <1>2, <1>3 DEF InOrder
<1>7. \A i \in DOMAIN started : started[i] < next'
  BY <1>1, <1>2 DEF InOrder
<1> QED
  BY <1>4, <1>5, <1>6, <1>7 DEF InOrder, StartedInOrder

LEMMA PopOrder ==
  ASSUME Typed, InOrder, queue # <<>>, queue' = Tail(queue),
         started' = Append(started, Head(queue)), UNCHANGED next
  PROVE  InOrder'
<1>1. queue \in Seq(Nat) /\ started \in Seq(Nat) /\ next \in Nat /\ Head(queue) \in Nat
  BY TailFacts DEF Typed
<1>2. /\ 1 \in DOMAIN queue /\ Head(queue) = queue[1]
      /\ \A i \in DOMAIN queue' : /\ i + 1 \in DOMAIN queue /\ 1 < i + 1 /\ i \in Nat
                                  /\ queue'[i] = queue[i + 1]
  BY <1>1, TailFacts
<1>3. /\ DOMAIN started' = DOMAIN started \cup {Len(started) + 1}
      /\ \A i \in DOMAIN started : started'[i] = started[i] /\ i \in Nat /\ i < Len(started) + 1
      /\ started'[Len(started) + 1] = Head(queue) /\ Len(started) \in Nat
  BY SMTT(40), <1>1, AppendFacts
<1>4. \A i \in DOMAIN started : started[i] < Head(queue)
  BY <1>2 DEF InOrder
<1>5. Head(queue) < next /\ \A j \in DOMAIN queue' : Head(queue) < queue'[j]
  BY <1>1, <1>2 DEF InOrder
<1>6. StartedInOrder'
  BY <1>3, <1>4 DEF InOrder, StartedInOrder
<1>7. \A i, j \in DOMAIN queue' : i < j => queue'[i] < queue'[j]
  BY <1>2 DEF InOrder
<1>8. \A i \in DOMAIN started', j \in DOMAIN queue' : started'[i] < queue'[j]
  BY <1>2, <1>3, <1>5 DEF InOrder
<1>9. \A i \in DOMAIN started' : started'[i] < next'
  BY <1>3, <1>5 DEF InOrder
<1>10. \A i \in DOMAIN queue' : queue'[i] < next'
  BY <1>2 DEF InOrder
<1> QED
  BY <1>6, <1>7, <1>8, <1>9, <1>10 DEF InOrder

LEMMA OrderStep == Typed /\ InOrder /\ [Next]_vars => InOrder'
<1> SUFFICES ASSUME Typed, InOrder, [Next]_vars PROVE InOrder'
  OBVIOUS
<1>1. ASSUME UNCHANGED <<queue, started, next>> PROVE InOrder'
  BY <1>1 DEF InOrder, StartedInOrder
<1>2. ASSUME NEW t \in Threads, NEW n, Dequeue(t, n), UNCHANGED next PROVE InOrder'
  BY <1>1, <1>2, PopOrder DEF Dequeue, Pop
<1>3. ASSUME queue' = <<>>, UNCHANGED <<started, next>> PROVE InOrder'
  BY <1>3 DEF InOrder, StartedInOrder
<1>4. ASSUME NEW s \in Submitters, Submit(s) PROVE InOrder'
  BY <1>4, PushOrder DEF Submit, Push
<1>5. ASSUME NEW t \in Threads, WorkerLocks(t) \/ WorkerWakes(t) PROVE InOrder'
  BY <1>2, <1>5 DEF WorkerLocks, WorkerWakes
<1>6. CASE Free
  BY <1>3, <1>6 DEF Free
<1>7. ASSUME NEW s \in Submitters, SubmitterStep(s) PROVE InOrder'
  BY <1>1, <1>7 DEF SubmitterStep, Spawn, Rollback
<1>8. ASSUME NEW t \in Threads, SpuriousWakeup(t) \/ RunReturns(t) \/ Post(t) \/ Notify(t)
      PROVE  InOrder'
  BY <1>1, <1>8 DEF SpuriousWakeup, RunReturns, Post, Notify, poolVars
<1>9. CASE LoopDetaches \/ LoopRuns \/ Join \/ Destroy \/ UNCHANGED vars
  BY <1>1, <1>9 DEF LoopDetaches, LoopRuns, Join, Destroy, vars, poolVars
<1> QED
  BY <1>4, <1>5, <1>6, <1>7, <1>8, <1>9 DEF Next, WorkerStep, LoopStep

-----------------------------------------------------------------------------
(* What idle_count counts *)

LEMMA ThreadsFinite == IsFiniteSet(Threads)
BY PoolAssumption, FS_Interval DEF Threads

LEMMA SleepersFinite == IsFiniteSet(Sleepers) /\ Cardinality(Sleepers) \in Nat
BY ThreadsFinite, FS_Subset, FS_CardinalityType DEF Sleepers

LEMMA InitIdle == Init => IdleCounts
<1> SUFFICES ASSUME Init PROVE IdleCounts
  OBVIOUS
<1>1. Sleepers = {}
  BY DEF Init, Sleepers
<1> QED
  BY <1>1, FS_EmptySet DEF Init, IdleCounts

\* A worker with the lock in its hand has been counted out; it goes back to
\* sleep or not.
LEMMA DequeueIdle ==
  ASSUME Typed, NEW t \in Threads, NEW n \in Int, Dequeue(t, n),
         n = Cardinality(Sleepers \ {t})
  PROVE  IdleCounts'
<1>1. IsFiniteSet(Sleepers \ {t}) /\ t \notin Sleepers \ {t}
  BY SleepersFinite, FS_RemoveElement
<1>2. CASE worker' = [worker EXCEPT ![t] = "wait"] /\ idle' = n + 1
  <2>1. Sleepers' = (Sleepers \ {t}) \cup {t}
    BY <1>2 DEF Sleepers, Typed
  <2>2. Cardinality((Sleepers \ {t}) \cup {t}) = Cardinality(Sleepers \ {t}) + 1
    BY <1>1, FS_AddElement
  <2> QED
    BY <1>2, <2>1, <2>2 DEF IdleCounts
<1>3. CASE idle' = n /\ \E w \in {"run", "exit"} : worker' = [worker EXCEPT ![t] = w]
  <2>1. Sleepers' = Sleepers \ {t}
    BY <1>3 DEF Sleepers, Typed
  <2> QED
    BY <1>3, <2>1 DEF IdleCounts
<1> QED
  BY <1>2, <1>3 DEF Dequeue

LEMMA IdleStep == Typed /\ IdleCounts /\ [Next]_vars => IdleCounts'
<1> SUFFICES ASSUME Typed, IdleCounts, [Next]_vars PROVE IdleCounts'
  OBVIOUS
<1>1. ASSUME Sleepers' = Sleepers, UNCHANGED idle PROVE IdleCounts'
  BY <1>1 DEF IdleCounts
<1>2. ASSUME NEW s \in Submitters, Submit(s) PROVE IdleCounts'
  <2>1. Sleepers' = Sleepers
    BY <1>2 DEF Submit, Signal, Waiting, Sleepers, Typed
  <2> QED
    BY <1>1, <1>2, <2>1 DEF Submit
<1>3. ASSUME NEW t \in Threads, WorkerLocks(t) PROVE IdleCounts'
  <2>1. Sleepers \ {t} = Sleepers
    BY <1>3 DEF WorkerLocks, Sleepers
  <2>2. idle \in Int /\ idle = Cardinality(Sleepers \ {t})
    BY <2>1, SleepersFinite DEF IdleCounts
  <2> QED
    BY <1>3, <2>2, DequeueIdle DEF WorkerLocks
<1>4. ASSUME NEW t \in Threads, WorkerWakes(t) PROVE IdleCounts'
  <2>1. t \in Sleepers
    BY <1>4 DEF WorkerWakes, Sleepers
  <2>2. idle - 1 \in Int /\ idle - 1 = Cardinality(Sleepers \ {t})
    <3>1. Cardinality(Sleepers \ {t}) = Cardinality(Sleepers) - 1
      BY <2>1, SleepersFinite, FS_RemoveElement
    <3> QED
      BY <3>1, SleepersFinite DEF IdleCounts
  <2> QED
    BY <1>4, <2>2, DequeueIdle DEF WorkerWakes
<1>5. ASSUME NEW t \in Threads, SpuriousWakeup(t) \/ RunReturns(t) \/ Post(t) \/ Notify(t)
      PROVE  IdleCounts'
  <2>1. Sleepers' = Sleepers
    BY <1>5 DEF SpuriousWakeup, RunReturns, Post, Notify, Sleepers, Typed
  <2> QED
    BY <1>1, <1>5, <2>1 DEF SpuriousWakeup, RunReturns, Post, Notify, poolVars
<1>6. ASSUME NEW s \in Submitters, SubmitterStep(s) PROVE IdleCounts'
  <2>1. Sleepers' = Sleepers
    BY <1>6 DEF SubmitterStep, Spawn, Rollback, Sleepers, Typed
  <2> QED
    BY <1>1, <1>6, <2>1 DEF SubmitterStep, Spawn, Rollback
<1>7. CASE Destroy
  <2>1. Sleepers' = Sleepers
    BY <1>7 DEF Destroy, Sleepers, Typed
  <2> QED
    BY <1>1, <1>7, <2>1 DEF Destroy
<1>8. CASE LoopStep \/ UNCHANGED vars
  BY <1>1, <1>8 DEF LoopStep, LoopDetaches, LoopRuns, Join, Free, vars, poolVars, Sleepers
<1> QED
  BY <1>2, <1>3, <1>4, <1>5, <1>6, <1>7, <1>8 DEF Next, WorkerStep

-----------------------------------------------------------------------------
(* Callbacks are announced *)

LEMMA InitNotified == Init => PostedIsNotified
BY DEF Init, PostedIsNotified

LEMMA NotifiedStep == Typed /\ PostedIsNotified /\ [Next]_vars => PostedIsNotified'
<1> SUFFICES ASSUME Typed, PostedIsNotified, [Next]_vars PROVE PostedIsNotified'
  OBVIOUS
\* A step that leaves the list, the wake-up and the announcing workers alone.
<1>1. ASSUME UNCHANGED <<posted, wake>>,
             \A t \in Threads : worker[t] = "notify" => worker'[t] = "notify"
      PROVE  PostedIsNotified'
  BY <1>1 DEF PostedIsNotified
<1>2. ASSUME NEW s \in Submitters, Submit(s) \/ SubmitterStep(s) PROVE PostedIsNotified'
  <2>1. \A t \in Threads : worker[t] = "notify" => worker'[t] = "notify"
    BY <1>2 DEF Submit, Signal, Waiting, SubmitterStep, Spawn, Rollback, Typed
  <2> QED
    BY <1>1, <1>2, <2>1 DEF Submit, SubmitterStep, Spawn, Rollback, loopVars
<1>3. ASSUME NEW t \in Threads, WorkerLocks(t) \/ WorkerWakes(t) PROVE PostedIsNotified'
  <2>1. \A u \in Threads : worker[u] = "notify" => worker'[u] = "notify"
    BY <1>3 DEF WorkerLocks, WorkerWakes, Dequeue, Typed
  <2> QED
    BY <1>1, <1>3, <2>1 DEF WorkerLocks, WorkerWakes, loopVars
<1>4. ASSUME NEW t \in Threads, SpuriousWakeup(t) \/ RunReturns(t) PROVE PostedIsNotified'
  <2>1. \A u \in Threads : worker[u] = "notify" => worker'[u] = "notify"
    BY <1>4 DEF SpuriousWakeup, RunReturns, Typed
  <2> QED
    BY <1>1, <1>4, <2>1 DEF SpuriousWakeup, RunReturns, loopVars
<1>5. ASSUME NEW t \in Threads, Post(t) PROVE PostedIsNotified'
  BY <1>5 DEF Post, PostedIsNotified, Typed
<1>6. ASSUME NEW t \in Threads, Notify(t) PROVE PostedIsNotified'
  BY <1>6 DEF Notify, PostedIsNotified
<1>7. CASE LoopDetaches
  BY <1>7 DEF LoopDetaches, PostedIsNotified
<1>8. CASE LoopRuns \/ Join \/ Free \/ UNCHANGED vars
  BY <1>1, <1>8 DEF LoopRuns, Join, Free, vars, loopVars
<1>9. CASE Destroy
  <2>1. \A u \in Threads : worker[u] = "notify" => worker'[u] = "notify"
    BY <1>9 DEF Destroy, Typed
  <2> QED
    BY <1>1, <1>9, <2>1 DEF Destroy, loopVars
<1> QED
  BY <1>2, <1>3, <1>4, <1>5, <1>6, <1>7, <1>8, <1>9 DEF Next, WorkerStep, LoopStep

-----------------------------------------------------------------------------
(* Destroy and the submitters *)

LEMMA InitClosing == Init => Closing
BY DEF Init, Closing, Idle

LEMMA ClosingStep == Typed /\ Closing /\ [Next]_vars => Closing'
<1> SUFFICES ASSUME Typed, Closing, [Next]_vars PROVE Closing'
  OBVIOUS
<1>1. ASSUME NEW s \in Submitters, Submit(s) PROVE Closing'
  <2>1. ~shutdown /\ UNCHANGED <<shutdown, joining, freed>> /\ ~freed
    BY <1>1 DEF Submit, Closing
  <2> QED
    BY <1>1, <2>1 DEF Submit, Signal, Waiting, Closing, Typed
<1>2. ASSUME NEW s \in Submitters, Spawn(s) PROVE Closing'
  <2>1. ~shutdown /\ UNCHANGED <<shutdown, joining, freed, live>>
    BY <1>2 DEF Spawn, Closing
  <2>2. \A t \in Threads : worker'[t] # "exit"
    BY <1>2, <2>1 DEF Spawn, Closing, Typed
  <2> QED
    BY <2>1, <2>2 DEF Closing
<1>3. ASSUME NEW s \in Submitters, Rollback(s) PROVE Closing'
  BY <1>3 DEF Rollback, Closing
<1>4. ASSUME NEW t \in Threads, WorkerLocks(t) \/ WorkerWakes(t) PROVE Closing'
  <2>1. ~shutdown => \A u \in Threads : worker'[u] # "exit"
    BY <1>4 DEF WorkerLocks, WorkerWakes, Dequeue, Closing, Typed
  <2> QED
    BY <1>4, <2>1 DEF WorkerLocks, WorkerWakes, Closing
<1>5. ASSUME NEW t \in Threads, SpuriousWakeup(t) \/ RunReturns(t) \/ Post(t) \/ Notify(t)
      PROVE  Closing'
  <2>1. ~shutdown => \A u \in Threads : worker'[u] # "exit"
    BY <1>5 DEF SpuriousWakeup, RunReturns, Post, Notify, Closing, Typed
  <2> QED
    BY <1>5, <2>1 DEF SpuriousWakeup, RunReturns, Post, Notify, poolVars, Closing
<1>6. CASE Destroy
  BY <1>6 DEF Destroy, Closing, Typed
<1>7. CASE Join
  <2>1. shutdown /\ joining' # 0 /\ ~freed
    BY <1>7 DEF Join, Closing, Typed
  <2> QED
    BY <1>7, <2>1 DEF Join, Closing
<1>8. CASE LoopDetaches \/ LoopRuns \/ Free \/ UNCHANGED vars
  BY <1>8 DEF LoopDetaches, LoopRuns, Free, vars, poolVars, Closing
<1> QED
  BY <1>1, <1>2, <1>3, <1>4, <1>5, <1>6, <1>7, <1>8
  DEF Next, SubmitterStep, WorkerStep, LoopStep

-----------------------------------------------------------------------------
(* Slots, while no creation has failed *)

LEMMA InitSlots == Init => SlotsHeld
<1> SUFFICES ASSUME Init PROVE SlotsHeld
  OBVIOUS
<1>1. \A s \in Submitters : submitter[s].at = "idle"
  BY DEF Init, Idle
<1>2. \A k \in Slots : handle[k] = 0
  BY DEF Init
<1>3. \A t \in Threads : ~Active(t)
  BY DEF Init, Active
<1>4. live = 0 /\ live \in 0..MAX_THREADS /\ ~shutdown
  BY PoolAssumption DEF Init
<1> QED
  BY <1>1, <1>2, <1>3, <1>4 DEF SlotsHeld, Claims

\* Steps of the workers: nobody is created, nobody returns from the exit.
LEMMA SameSlots ==
  ASSUME Typed, SlotsHeld, UNCHANGED <<live, handle, shutdown, submitter, joining>>,
         \A t \in Threads : /\ worker[t] # "unborn" => worker'[t] # "unborn"
                            /\ Active(t)' => Active(t)
  PROVE  SlotsHeld'
BY DEF SlotsHeld, Claims

LEMMA SubmitSlots ==
  ASSUME Typed, SlotsHeld, Closing, NEW s \in Submitters, Submit(s)
  PROVE  SlotsHeld'
<1>1. /\ \A t \in Threads : (worker[t] # "unborn" => worker'[t] # "unborn")
      /\ \A t \in Threads : Active(t)' => Active(t)
  BY DEF Submit, Signal, Waiting, Active, Typed
<1>2. UNCHANGED <<handle, shutdown, joining>> /\ ~shutdown
  BY DEF Submit
<1>3. CASE UNCHANGED <<live, submitter>>
  BY <1>1, <1>2, <1>3, SameSlots
<1>4. CASE /\ live < MAX_THREADS /\ live' = live + 1
           /\ submitter' = [submitter EXCEPT ![s] = [at |-> "spawn", slot |-> live + 1]]
  <2>1. live \in Nat /\ live \in Int /\ live' \in 0..MAX_THREADS /\ live' \in Slots
    BY <1>4, PoolAssumption DEF SlotsHeld, Slots
  <2>2. submitter[s].at = "idle"
    BY DEF Submit
  <2>3. /\ submitter'[s].at = "spawn" /\ submitter'[s].slot = live + 1
        /\ \A r \in Submitters \ {s} : submitter'[r] = submitter[r]
    BY <1>4 DEF Typed
  <2>4. \A r \in Submitters, k \in Int :
          Claims(r, k)' <=> (r = s /\ k = live + 1) \/ (r # s /\ Claims(r, k))
    BY <2>1, <2>3 DEF Claims
  <2>5. handle[live + 1] = 0
    BY <1>4, <2>1 DEF SlotsHeld
  <2>6. \A r \in Submitters, k \in Int : Claims(r, k) => k \in 1..live /\ handle[k] = 0
    BY DEF SlotsHeld
  <2>7. \A r \in Submitters : submitter'[r].at # "rollback"
    BY <2>3 DEF SlotsHeld
  <2>8. \A r \in Submitters, k \in Int : Claims(r, k)' => k \in 1..live' /\ handle'[k] = 0
    BY <1>2, <1>4, <2>1, <2>4, <2>5, <2>6
  <2>9. \A r, u \in Submitters, k \in Int : Claims(r, k)' /\ Claims(u, k)' => r = u
    BY <2>1, <2>4, <2>6 DEF SlotsHeld
  <2>10. \A k \in Slots : k > live' => handle'[k] = 0
    BY <1>2, <1>4, <2>1 DEF SlotsHeld, Slots
  <2>11. \A k \in Slots : handle'[k] # 0 => handle'[k] \in Threads /\ worker'[handle'[k]] # "unborn"
    BY <1>1, <1>2 DEF SlotsHeld
  <2>12. \A t \in Threads : Active(t)' => \E k \in Slots : joining' <= k /\ handle'[k] = t
    BY <1>1, <1>2 DEF SlotsHeld
  <2>13. \A k \in 1..live' : handle'[k] # 0 \/ \E r \in Submitters : Claims(r, k)'
    <3> SUFFICES ASSUME NEW k \in 1..live', handle'[k] = 0
                 PROVE  \E r \in Submitters : Claims(r, k)'
      OBVIOUS
    <3>1. CASE k = live + 1
      BY <2>1, <2>4, <3>1
    <3>2. CASE k # live + 1
      <4>1. k \in 1..live
        BY <1>4, <2>1, <3>2
      <4>2. PICK r \in Submitters : Claims(r, k)
        BY <1>2, <4>1 DEF SlotsHeld
      <4>3. r # s
        BY <2>2, <4>2 DEF Claims
      <4> QED
        BY <2>4, <4>2, <4>3
    <3> QED
      BY <3>1, <3>2
  <2> QED
    BY <2>1, <2>7, <2>8, <2>9, <2>10, <2>11, <2>12, <2>13 DEF SlotsHeld
<1> QED
  BY <1>3, <1>4 DEF Submit

LEMMA SpawnSlots ==
  ASSUME Typed, SlotsHeld, Closing, NEW s \in Submitters, Spawn(s), faults' = 0
  PROVE  SlotsHeld'
<1> DEFINE n == submitter[s].slot
<1>1. Claims(s, n) /\ n \in Int
  BY DEF Spawn, Claims, Typed, Standing
<1>2. n \in 1..live /\ handle[n] = 0 /\ n \in Slots /\ live \in Nat
  BY <1>1, PoolAssumption DEF SlotsHeld, Slots
<1>3. UNCHANGED faults /\ faults = 0
  BY DEF Spawn, Typed
<1>4. PICK t \in Threads : /\ worker[t] = "unborn"
                           /\ worker' = [worker EXCEPT ![t] = "lock"]
                           /\ handle' = [handle EXCEPT ![n] = t]
                           /\ submitter' = [submitter EXCEPT ![s] = Idle]
  BY <1>3 DEF Spawn, Typed
<1>5. t # 0 /\ t \in Nat
  BY DEF Threads
<1> HIDE DEF n
<1>6. /\ handle'[n] = t
      /\ \A k \in Slots \ {n} : handle'[k] = handle[k]
  BY <1>2, <1>4 DEF Typed
<1>7. /\ worker'[t] = "lock" /\ Active(t)'
      /\ \A u \in Threads \ {t} : worker'[u] = worker[u] /\ (Active(u)' => Active(u))
  BY <1>4 DEF Active, Typed
<1>8. \A r \in Submitters, k \in Int : Claims(r, k)' <=> r # s /\ Claims(r, k)
  BY <1>4 DEF Claims, Typed, Idle
<1>9. UNCHANGED <<live, shutdown, joining>> /\ joining = 0 /\ ~shutdown
  BY <1>1 DEF Spawn, Closing, Claims
<1>10. \A r \in Submitters : submitter'[r].at # "rollback"
  BY <1>4 DEF SlotsHeld, Typed, Idle
<1>11. \A r \in Submitters, k \in Int : Claims(r, k)' => k \in 1..live' /\ handle'[k] = 0
  <2> SUFFICES ASSUME NEW r \in Submitters, NEW k \in Int, Claims(r, k)'
               PROVE  k \in 1..live' /\ handle'[k] = 0
    OBVIOUS
  <2>1. r # s /\ Claims(r, k)
    BY <1>8
  <2>2. k \in 1..live /\ handle[k] = 0 /\ k # n /\ k \in Slots
    BY <1>1, <2>1, PoolAssumption DEF SlotsHeld, Slots
  <2> QED
    BY <1>6, <1>9, <2>2
<1>12. \A r, u \in Submitters, k \in Int : Claims(r, k)' /\ Claims(u, k)' => r = u
  BY <1>8 DEF SlotsHeld
<1>13. \A k \in Slots : k > live' => handle'[k] = 0
  BY <1>2, <1>6, <1>9 DEF SlotsHeld, Slots
<1>14. \A k \in Slots : handle'[k] # 0 => handle'[k] \in Threads /\ worker'[handle'[k]] # "unborn"
  BY <1>2, <1>4, <1>6, <1>7 DEF SlotsHeld
<1>15. \A u \in Threads : Active(u)' => \E k \in Slots : joining' <= k /\ handle'[k] = u
  <2> SUFFICES ASSUME NEW u \in Threads, Active(u)'
               PROVE  \E k \in Slots : joining' <= k /\ handle'[k] = u
    OBVIOUS
  <2>1. CASE u = t
    BY <1>2, <1>6, <1>9, <2>1
  <2>2. CASE u # t
    <3>1. PICK k \in Slots : joining <= k /\ handle[k] = u
      BY <1>7, <2>2 DEF SlotsHeld
    <3>2. k # n
      BY <1>2, <3>1 DEF Threads
    <3> QED
      BY <1>6, <1>9, <3>1, <3>2
  <2> QED
    BY <2>1, <2>2
<1>16. \A k \in 1..live' : handle'[k] # 0 \/ \E r \in Submitters : Claims(r, k)'
  <2> SUFFICES ASSUME NEW k \in 1..live, k # n
               PROVE  handle'[k] # 0 \/ \E r \in Submitters : Claims(r, k)'
    BY <1>5, <1>6, <1>9
  <2>1. k \in Slots /\ handle'[k] = handle[k]
    BY <1>6, PoolAssumption DEF SlotsHeld, Slots
  <2>2. CASE handle[k] = 0
    <3>1. PICK r \in Submitters : Claims(r, k)
      BY <1>9, <2>2 DEF SlotsHeld
    <3>2. r # s
      BY <1>1, <3>1 DEF Claims
    <3> QED
      BY <1>8, <3>1, <3>2
  <2> QED
    BY <2>1, <2>2
<1>17. live' \in 0..MAX_THREADS
  BY <1>9 DEF SlotsHeld
<1> QED
  BY <1>10, <1>11, <1>12, <1>13, <1>14, <1>15, <1>16, <1>17 DEF SlotsHeld

LEMMA SlotsStep ==
  Typed /\ Closing /\ (faults = 0 => SlotsHeld) /\ [Next]_vars => (faults' = 0 => SlotsHeld')
<1> SUFFICES ASSUME Typed, Closing, faults = 0 => SlotsHeld, [Next]_vars, faults' = 0
             PROVE  SlotsHeld'
  OBVIOUS
<1>0. faults = 0 /\ SlotsHeld
  <2>1. faults \in Nat /\ faults' \in {faults, faults + 1}
    BY DEF Typed, Next, Submit, SubmitterStep, Spawn, Rollback, WorkerStep, WorkerLocks,
           WorkerWakes, RunReturns, Post, Notify, SpuriousWakeup, LoopStep, LoopDetaches,
           LoopRuns, Join, Free, Destroy, vars
  <2> QED
    BY <2>1
<1>1. ASSUME NEW s \in Submitters, Submit(s) PROVE SlotsHeld'
  BY <1>0, <1>1, SubmitSlots
<1>2. ASSUME NEW s \in Submitters, SubmitterStep(s) PROVE SlotsHeld'
  BY <1>0, <1>2, SpawnSlots DEF SubmitterStep, Rollback, SlotsHeld
<1>3. ASSUME NEW t \in Threads, WorkerLocks(t) \/ WorkerWakes(t) PROVE SlotsHeld'
  <2>1. \A u \in Threads : /\ worker[u] # "unborn" => worker'[u] # "unborn"
                           /\ Active(u)' => Active(u)
    BY <1>3 DEF WorkerLocks, WorkerWakes, Dequeue, Active, Typed
  <2> QED
    BY <1>0, <1>3, <2>1, SameSlots DEF WorkerLocks, WorkerWakes
<1>4. ASSUME NEW t \in Threads, SpuriousWakeup(t) \/ RunReturns(t) \/ Post(t) \/ Notify(t)
      PROVE  SlotsHeld'
  <2>1. \A u \in Threads : /\ worker[u] # "unborn" => worker'[u] # "unborn"
                           /\ Active(u)' => Active(u)
    BY <1>4 DEF SpuriousWakeup, RunReturns, Post, Notify, Active, Typed
  <2> QED
    BY <1>0, <1>4, <2>1, SameSlots DEF SpuriousWakeup, RunReturns, Post, Notify, poolVars
<1>5. CASE Destroy
  <2>1. \A u \in Threads : /\ worker[u] # "unborn" => worker'[u] # "unborn"
                           /\ Active(u)' => Active(u)
    BY <1>5 DEF Destroy, Active, Typed
  <2>2. joining = 0 /\ joining' = 1 /\ shutdown' /\ \A k \in Slots : joining' <= k
    BY <1>5 DEF Destroy, Slots
  <2> QED
    BY <1>0, <1>5, <2>1, <2>2 DEF Destroy, SlotsHeld, Claims
\* Only the slot of a worker that has left, or of none, is given up.
<1>6. CASE Join
  <2>1. shutdown /\ \A s \in Submitters : submitter[s].at = "idle"
    BY <1>6 DEF Join, Closing, Typed
  <2>2. joining \in Slots /\ joining \in Nat /\ live \in Nat
    BY <1>0, <1>6, PoolAssumption DEF Join, SlotsHeld, Slots
  <2>3. /\ handle'[joining] = 0
        /\ \A k \in Slots \ {joining} : handle'[k] = handle[k]
    BY <1>6, <2>2 DEF Join, Typed
  <2>4. \A t \in Threads : Active(t)' => \E k \in Slots : joining' <= k /\ handle'[k] = t
    <3> SUFFICES ASSUME NEW t \in Threads, Active(t)'
                 PROVE  \E k \in Slots : joining' <= k /\ handle'[k] = t
      OBVIOUS
    <3>1. Active(t) /\ t # 0
      BY <1>6 DEF Join, Active, Threads
    <3>2. PICK k \in Slots : joining <= k /\ handle[k] = t
      BY <1>0, <3>1 DEF SlotsHeld
    <3>3. k # joining
      BY <1>6, <3>1, <3>2 DEF Join, HasLeft, Active
    <3>4. joining' <= k
      BY <1>6, <2>2, <3>2, <3>3 DEF Join, Slots
    <3> QED
      BY <2>3, <3>2, <3>3, <3>4
  <2>5. UNCHANGED <<live, shutdown, submitter, worker>>
    BY <1>6 DEF Join
  <2>6. \A k \in Slots : handle'[k] # 0 => handle'[k] = handle[k]
    BY <2>3
  <2>7. \A s \in Submitters, k \in Int : ~Claims(s, k)'
    BY <2>1, <2>5 DEF Claims
  <2>8. \A k \in Slots : k > live' => handle'[k] = 0
    BY <1>0, <2>3, <2>5 DEF SlotsHeld
  <2>9. \A k \in Slots : handle'[k] # 0 => handle'[k] \in Threads /\ worker'[handle'[k]] # "unborn"
    BY <1>0, <2>5, <2>6 DEF SlotsHeld
  <2>10. live' \in 0..MAX_THREADS /\ \A s \in Submitters : submitter'[s].at # "rollback"
    BY <1>0, <2>5 DEF SlotsHeld
  <2> QED
    BY <2>1, <2>4, <2>5, <2>7, <2>8, <2>9, <2>10 DEF SlotsHeld
<1>7. CASE LoopDetaches \/ LoopRuns \/ Free \/ UNCHANGED vars
  <2>1. UNCHANGED <<live, handle, shutdown, submitter, joining, worker>>
    BY <1>7 DEF LoopDetaches, LoopRuns, Free, vars, poolVars
  <2> QED
    BY <1>0, <2>1, SameSlots DEF Active
<1> QED
  BY <1>1, <1>2, <1>3, <1>4, <1>5, <1>6, <1>7 DEF Next, WorkerStep, LoopStep

-----------------------------------------------------------------------------
(* A queued job is attended *)

Attended == \/ \E t \in Threads : worker[t] \notin {"unborn", "wait", "exit"}
            \/ \E s \in Submitters : submitter[s].at = "spawn"

LEMMA InitAttended == Init => QueuedJobIsAttended
BY DEF Init, QueuedJobIsAttended

\* After a submit somebody is up: the worker just woken, one woken before, the
\* submitter itself, or, with every slot taken and nobody asleep, any worker.
LEMMA SubmitAttended ==
  ASSUME Typed, IdleCounts, Closing, SlotsHeld, NEW s \in Submitters, Submit(s)
  PROVE  Attended'
<1>1. CASE idle > 0 /\ Signal /\ UNCHANGED <<live, submitter>>
  <2>1. Sleepers # {}
    BY <1>1, FS_EmptySet DEF IdleCounts
  <2>2. CASE Waiting = {}
    BY <1>1, <2>1, <2>2 DEF Signal, Sleepers, Waiting, Attended
  <2>3. CASE Waiting # {}
    BY <1>1, <2>3 DEF Signal, Waiting, Attended, Typed
  <2> QED
    BY <2>2, <2>3
<1>2. CASE submitter' = [submitter EXCEPT ![s] = [at |-> "spawn", slot |-> live + 1]]
  BY <1>2 DEF Attended, Typed
<1>3. CASE idle = 0 /\ live = MAX_THREADS /\ UNCHANGED <<live, submitter, worker>>
  <2>1. Sleepers = {}
    BY <1>3, SleepersFinite, ThreadsFinite, FS_EmptySet, FS_Subset DEF IdleCounts, Sleepers
  <2>2. ~shutdown /\ 1 \in 1..live /\ 1 \in Slots
    BY <1>3, PoolAssumption DEF Submit, Slots
  <2>3. CASE handle[1] # 0
    <3>1. handle[1] \in Threads /\ worker[handle[1]] # "unborn" /\ worker[handle[1]] # "exit"
      BY <2>2, <2>3 DEF SlotsHeld, Closing
    <3>2. worker[handle[1]] # "wait"
      BY <2>1, <3>1 DEF Sleepers
    <3> QED
      BY <1>3, <3>1, <3>2 DEF Attended
  <2>4. CASE handle[1] = 0
    BY <1>3, <2>2, <2>4 DEF SlotsHeld, Claims, Attended
  <2> QED
    BY <2>3, <2>4
<1> QED
  BY <1>1, <1>2, <1>3 DEF Submit

LEMMA AttendedStep ==
  Safe /\ QueuedJobIsAttended /\ [Next]_vars => QueuedJobIsAttended'
<1> SUFFICES ASSUME Safe, QueuedJobIsAttended, [Next]_vars,
                    queue' # <<>>, faults' = 0, ~freed'
             PROVE  Attended'
  BY DEF QueuedJobIsAttended, Attended
<1>0. Typed /\ IdleCounts /\ Closing /\ faults = 0 /\ SlotsHeld /\ ~freed
  <2>1. Typed /\ faults \in Nat /\ faults' \in {faults, faults + 1}
    BY DEF Safe, Typed, Next, Submit, SubmitterStep, Spawn, Rollback, WorkerStep, WorkerLocks,
           WorkerWakes, RunReturns, Post, Notify, SpuriousWakeup, LoopStep, LoopDetaches,
           LoopRuns, Join, Free, Destroy, vars
  <2>2. freed => freed'
    BY DEF Next, Submit, SubmitterStep, Spawn, Rollback, WorkerStep, WorkerLocks,
           WorkerWakes, RunReturns, Post, Notify, SpuriousWakeup, LoopStep, LoopDetaches,
           LoopRuns, Join, Free, Destroy, vars
  <2>3. faults = 0
    BY <2>1
  <2> QED
    BY <2>1, <2>2, <2>3 DEF Safe
<1>1. queue # <<>> => Attended
  BY <1>0 DEF QueuedJobIsAttended, Attended
<1>2. ASSUME NEW s \in Submitters, Submit(s) PROVE Attended'
  BY <1>0, <1>2, SubmitAttended
<1>3. ASSUME NEW s \in Submitters, Spawn(s) PROVE Attended'
  <2>1. \E t \in Threads : worker' = [worker EXCEPT ![t] = "lock"]
    BY <1>0, <1>3 DEF Spawn, Typed
  <2> QED
    BY <1>0, <2>1 DEF Attended, Typed
<1>4. ASSUME NEW s \in Submitters, Rollback(s) PROVE FALSE
  BY <1>0, <1>4 DEF Rollback, SlotsHeld
<1>5. ASSUME NEW t \in Threads, WorkerLocks(t) \/ WorkerWakes(t) PROVE Attended'
  <2>1. worker' = [worker EXCEPT ![t] = "run"]
    BY <1>5 DEF WorkerLocks, WorkerWakes, Dequeue
  <2> QED
    BY <1>0, <2>1 DEF Attended, Typed
<1>6. ASSUME NEW t \in Threads, SpuriousWakeup(t) \/ RunReturns(t) \/ Post(t) \/ Notify(t)
      PROVE  Attended'
  <2>1. \E w \in {"woken", "post", "notify", "lock"} : worker' = [worker EXCEPT ![t] = w]
    BY <1>6 DEF SpuriousWakeup, RunReturns, Post, Notify
  <2> QED
    BY <1>0, <2>1 DEF Attended, Typed
<1>7. CASE Destroy
  <2>1. Attended /\ UNCHANGED submitter
    BY <1>1, <1>7 DEF Destroy
  <2>2. \A t \in Threads : worker[t] \notin {"unborn", "wait", "exit"} => worker'[t] = worker[t]
    BY <1>0, <1>7 DEF Destroy
  <2> QED
    BY <2>1, <2>2 DEF Attended
<1>8. CASE LoopDetaches \/ LoopRuns \/ Join \/ UNCHANGED vars
  BY <1>1, <1>8 DEF LoopDetaches, LoopRuns, Join, vars, poolVars, Attended
<1>9. CASE Free
  BY <1>9 DEF Free
<1> QED
  BY <1>2, <1>3, <1>4, <1>5, <1>6, <1>7, <1>8, <1>9
  DEF Next, SubmitterStep, WorkerStep, LoopStep

-----------------------------------------------------------------------------
(* The theorems *)

LEMMA InitInv == Init => IInv
BY InitTyped, InitOrder, InitIdle, InitClosing, InitSlots, InitAttended, InitNotified
DEF IInv, Safe

LEMMA InvStep == IInv /\ [Next]_vars => IInv'
<1> SUFFICES ASSUME IInv, [Next]_vars PROVE IInv'
  OBVIOUS
<1>1. Typed' /\ InOrder' /\ IdleCounts'
  BY TypedStep, OrderStep, IdleStep DEF IInv, Safe
<1>2. Closing' /\ (faults' = 0 => SlotsHeld')
  BY ClosingStep, SlotsStep DEF IInv, Safe
<1>3. QueuedJobIsAttended' /\ PostedIsNotified'
  BY AttendedStep, NotifiedStep DEF IInv, Safe
<1> QED
  BY <1>1, <1>2, <1>3 DEF IInv, Safe

LEMMA Invariant == Spec => []IInv
BY InitInv, InvStep, PTL DEF Spec

(* While no thread creation fails, a queued job never waits on sleeping        *)
(* workers only (default.c 202-206: submit wakes a worker because idle_count    *)
(* says so), for any number of threads, slots and jobs.                        *)
THEOREM NoLostWakeup == Spec => []QueuedJobIsAttended
<1>1. IInv => QueuedJobIsAttended
  BY DEF IInv
<1> QED
  BY <1>1, Invariant, PTL

(* Jobs start in the order they were submitted, and none twice, whichever      *)
(* worker pops them (default.c 65-88, 114).                                    *)
THEOREM JobsStartInOrder == Spec => []StartedInOrder
<1>1. IInv => StartedInOrder
  BY DEF IInv, Safe, InOrder
<1> QED
  BY <1>1, Invariant, PTL

(* A posted callback always has its wake-up, although the list and the wake-up *)
(* are not updated together (libuv-event-loop/default.c 848-877).              *)
THEOREM PostsAreNotified == Spec => []PostedIsNotified
<1>1. IInv => PostedIsNotified
  BY DEF IInv
<1> QED
  BY <1>1, Invariant, PTL

(* While no thread creation fails, destroy frees the pool only when every      *)
(* worker has left it (default.c 236-271).                                     *)
THEOREM WorkersLeaveFirst == Spec => []PoolOutlivesWorkers
<1>1. IInv => PoolOutlivesWorkers
  <2> SUFFICES ASSUME IInv, freed, faults = 0, NEW t \in Threads, Active(t)
               PROVE  FALSE
    BY DEF PoolOutlivesWorkers, Active
  <2>1. Typed /\ SlotsHeld /\ joining = live + 1
    BY DEF IInv, Safe, Closing
  <2>2. PICK k \in Slots : joining <= k /\ handle[k] = t
    BY <2>1 DEF SlotsHeld
  <2>3. k > live /\ t # 0
    BY <2>1, <2>2 DEF Typed, Slots, Threads
  <2> QED
    BY <2>1, <2>2, <2>3 DEF SlotsHeld
<1> QED
  BY <1>1, Invariant, PTL
=============================================================================
