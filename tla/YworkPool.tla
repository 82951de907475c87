----------------------------- MODULE YworkPool -----------------------------
(***************************************************************************)
(* The lazy worker pool of yplatform (yworkpool/default.c) and the         *)
(* cross-thread callback queue of the libuv event loop that brings each    *)
(* job's done() back to the loop thread (libuv-event-loop/default.c).      *)
(*                                                                         *)
(* Threads: the submitting threads, one of which is the event loop, and    *)
(* the workers the pool spawns.  A region the code runs under pool->lock   *)
(* (or post_mutex) touches nothing the other threads see outside that      *)
(* lock, so it is one action; the code between two regions is another.     *)
(* pthread_cond_wait is the pair of regions around its release of the      *)
(* lock: a waiter is "wait" until a signal, a broadcast or a spurious      *)
(* wakeup makes it "woken", and it looks at the queue again when it has    *)
(* the lock back.                                                          *)
(*                                                                         *)
(* Faults: pthread_create may fail (the code rolls its bookkeeping back)   *)
(* and the callback node's malloc may fail (the code drops the callback);  *)
(* at most MaxFaults of them.  Jobs are numbered in the order their nodes  *)
(* are pushed.                                                             *)
(***************************************************************************)
EXTENDS Integers, Sequences, FiniteSets, Functions

CONSTANTS
  Submitters,    \* the threads that call yworkpool_submit
  Loop,          \* the one of them that runs the event loop
  MAX_THREADS,   \* pool->max_threads
  MaxJobs,       \* bound: jobs submitted in one behaviour
  MaxFaults      \* bound: allocation and thread-creation failures

ASSUME PoolAssumption ==
  /\ Loop \in Submitters
  /\ MAX_THREADS \in Nat \ {0}
  /\ MaxJobs \in Nat
  /\ MaxFaults \in Nat

VARIABLES
  queue,      \* pool->head .. tail: the jobs no worker has popped
  live,       \* pool->live_count
  idle,       \* pool->idle_count
  shutdown,   \* pool->shutdown
  handle,     \* slot -> workers[slot].thread, 0 when NULL
  worker,     \* thread -> where worker_main stands, "unborn" before it is created
  job,        \* thread -> the job it popped last
  submitter,  \* submitting thread -> where yworkpool_submit stands, and its slot
  posted,     \* post_head .. post_tail: callbacks for the loop thread
  wake,       \* post_async has been signalled and not been handled
  batch,      \* the callbacks on_post_async detached and has not invoked
  joining,    \* 0, or the slot yworkpool_destroy joins next
  freed,      \* the pool's memory has been freed
  next,       \* number of the next job
  started,    \* history: jobs in the order their run() began
  done,       \* history: jobs in the order their done() ran
  dropped,    \* history: jobs whose callback was dropped
  faults      \* faults so far

poolVars == <<queue, live, idle, shutdown, handle>>
loopVars == <<posted, wake, batch>>
vars == <<poolVars, worker, job, submitter, loopVars, joining, freed,
          next, started, done, dropped, faults>>

Jobs    == 1..MaxJobs
Threads == 1..MaxJobs     \* no submit creates more than one thread
Slots   == 1..MAX_THREADS

Idle == [at |-> "idle", slot |-> 0]

Init ==
  /\ queue = <<>> /\ live = 0 /\ idle = 0 /\ shutdown = FALSE
  /\ handle = [s \in Slots |-> 0]
  /\ worker = [t \in Threads |-> "unborn"]
  /\ job = [t \in Threads |-> 0]
  /\ submitter = [s \in Submitters |-> Idle]
  /\ posted = <<>> /\ wake = FALSE /\ batch = <<>>
  /\ joining = 0 /\ freed = FALSE
  /\ next = 1 /\ started = <<>> /\ done = <<>> /\ dropped = {}
  /\ faults = 0

-----------------------------------------------------------------------------
(* yworkpool_submit *)

Waiting == {t \in Threads : worker[t] = "wait"}

SignalLost == UNCHANGED worker
\* pthread_cond_signal: one waiter becomes runnable; with none it is lost.
Signal ==
  IF Waiting = {} THEN UNCHANGED worker
  ELSE \E t \in Waiting : worker' = [worker EXCEPT ![t] = "woken"]

Push(q, j) == Append(q, j)

\* The first locked region: push, then signal, claim a slot or leave it queued.
Submit(s) ==
  /\ submitter[s].at = "idle"
  /\ ~shutdown
  /\ next <= MaxJobs
  /\ queue' = Push(queue, next)
  /\ next' = next + 1
  /\ \/ /\ idle > 0
        /\ Signal
        /\ UNCHANGED <<live, submitter>>
     \/ /\ idle = 0 /\ live < MAX_THREADS
        /\ live' = live + 1
        /\ submitter' = [submitter EXCEPT ![s] = [at |-> "spawn", slot |-> live + 1]]
        /\ UNCHANGED worker
     \/ /\ idle = 0 /\ live = MAX_THREADS
        /\ UNCHANGED <<live, submitter, worker>>
  /\ UNCHANGED <<idle, shutdown, handle, job, loopVars, joining, freed,
                 started, done, dropped, faults>>

\* ythread_create, outside the lock.
Spawn(s) ==
  /\ submitter[s].at = "spawn"
  /\ \/ \E t \in Threads :
           /\ worker[t] = "unborn"
           /\ \A v \in Threads : v < t => worker[v] # "unborn"
           /\ worker' = [worker EXCEPT ![t] = "lock"]
           /\ handle' = [handle EXCEPT ![submitter[s].slot] = t]
           /\ submitter' = [submitter EXCEPT ![s] = Idle]
           /\ UNCHANGED faults
     \/ /\ faults < MaxFaults
        /\ faults' = faults + 1
        /\ handle' = [handle EXCEPT ![submitter[s].slot] = 0]
        /\ submitter' = [submitter EXCEPT ![s].at = "rollback"]
        /\ UNCHANGED worker
  /\ UNCHANGED <<queue, live, idle, shutdown, job, loopVars, joining, freed,
                 next, started, done, dropped>>

\* The second locked region, after a failed creation: the error return.
Rollback(s) ==
  /\ submitter[s].at = "rollback"
  /\ live' = live - 1
  /\ submitter' = [submitter EXCEPT ![s] = Idle]
  /\ UNCHANGED <<queue, idle, shutdown, handle, worker, job, loopVars, joining,
                 freed, next, started, done, dropped, faults>>

-----------------------------------------------------------------------------
(* worker_main *)

Pop(q) == Tail(q)

\* What a worker does with the lock in its hand; idleNow is the idle count
\* without this worker.
Dequeue(t, idleNow) ==
  \/ /\ queue # <<>>
     /\ job' = [job EXCEPT ![t] = Head(queue)]
     /\ queue' = Pop(queue)
     /\ started' = Append(started, Head(queue))
     /\ worker' = [worker EXCEPT ![t] = "run"]
     /\ idle' = idleNow
  \/ /\ queue = <<>> /\ ~shutdown
     /\ worker' = [worker EXCEPT ![t] = "wait"]
     /\ idle' = idleNow + 1
     /\ UNCHANGED <<job, queue, started>>
  \/ /\ queue = <<>> /\ shutdown
     /\ worker' = [worker EXCEPT ![t] = "exit"]
     /\ idle' = idleNow
     /\ UNCHANGED <<job, queue, started>>

WorkerLocks(t) ==
  /\ worker[t] = "lock"
  /\ Dequeue(t, idle)
  /\ UNCHANGED <<live, shutdown, handle, submitter, loopVars, joining, freed,
                 next, done, dropped, faults>>

WorkerWakes(t) ==
  /\ worker[t] = "woken"
  /\ Dequeue(t, idle - 1)
  /\ UNCHANGED <<live, shutdown, handle, submitter, loopVars, joining, freed,
                 next, done, dropped, faults>>

\* pthread_cond_wait may return without a signal.
SpuriousWakeup(t) ==
  /\ worker[t] = "wait"
  /\ worker' = [worker EXCEPT ![t] = "woken"]
  /\ UNCHANGED <<poolVars, job, submitter, loopVars, joining, freed,
                 next, started, done, dropped, faults>>

\* job.run() returns.
RunReturns(t) ==
  /\ worker[t] = "run"
  /\ worker' = [worker EXCEPT ![t] = "post"]
  /\ UNCHANGED <<poolVars, job, submitter, loopVars, joining, freed,
                 next, started, done, dropped, faults>>

\* libuv_post_to_loop: the node is linked under post_mutex, or dropped when it
\* cannot be allocated.
Post(t) ==
  /\ worker[t] = "post"
  /\ \/ /\ posted' = Append(posted, job[t])
        /\ worker' = [worker EXCEPT ![t] = "notify"]
        /\ UNCHANGED <<dropped, faults>>
     \/ /\ faults < MaxFaults
        /\ faults' = faults + 1
        /\ dropped' = dropped \cup {job[t]}
        /\ worker' = [worker EXCEPT ![t] = "lock"]
        /\ UNCHANGED posted
  /\ UNCHANGED <<poolVars, job, submitter, wake, batch, joining, freed,
                 next, started, done>>

\* ... and uv_async_send after the mutex is released.
Notify(t) ==
  /\ worker[t] = "notify"
  /\ wake' = TRUE
  /\ worker' = [worker EXCEPT ![t] = "lock"]
  /\ UNCHANGED <<poolVars, job, submitter, posted, batch, joining, freed,
                 next, started, done, dropped, faults>>

-----------------------------------------------------------------------------
(* The loop thread.  It runs callbacks while it is in neither submit nor     *)
(* destroy; a callback may itself submit, between two LoopRuns.             *)

LoopFree == submitter[Loop].at = "idle" /\ (joining = 0 \/ freed)

\* libuv calls on_post_async, which detaches the whole list.
LoopDetaches ==
  /\ LoopFree /\ batch = <<>> /\ wake
  /\ wake' = FALSE
  /\ batch' = posted
  /\ posted' = <<>>
  /\ UNCHANGED <<poolVars, worker, job, submitter, joining, freed,
                 next, started, done, dropped, faults>>

LoopRuns ==
  /\ LoopFree /\ batch # <<>>
  /\ done' = Append(done, Head(batch))
  /\ batch' = Tail(batch)
  /\ UNCHANGED <<poolVars, worker, job, submitter, posted, wake, joining, freed,
                 next, started, dropped, faults>>

-----------------------------------------------------------------------------
(* yworkpool_destroy, on the loop thread.  Its callers stop submitting first: *)
(* nothing in the pool protects a submit that overlaps it.                    *)

DestroySignalsOne ==
  /\ joining = 0
  /\ \A s \in Submitters : submitter[s].at = "idle"
  /\ shutdown' = TRUE
  /\ Signal
  /\ joining' = 1
  /\ UNCHANGED <<queue, live, idle, handle, job, submitter, loopVars, freed,
                 next, started, done, dropped, faults>>

Destroy ==
  /\ joining = 0
  /\ \A s \in Submitters : submitter[s].at = "idle"
  /\ shutdown' = TRUE
  /\ worker' = [t \in Threads |-> IF worker[t] = "wait" THEN "woken" ELSE worker[t]]
  /\ joining' = 1
  /\ UNCHANGED <<queue, live, idle, handle, job, submitter, loopVars, freed,
                 next, started, done, dropped, faults>>

\* pthread_join returns once the slot's thread has left worker_main.
HasNoJob(t) == worker[t] \in {"exit", "lock", "wait", "woken"}
HasLeft(t) == worker[t] = "exit"

Join ==
  /\ joining \in 1..live
  /\ \/ handle[joining] = 0
     \/ handle[joining] # 0 /\ HasLeft(handle[joining])
  /\ handle' = [handle EXCEPT ![joining] = 0]
  /\ joining' = joining + 1
  /\ UNCHANGED <<queue, live, idle, shutdown, worker, job, submitter, loopVars,
                 freed, next, started, done, dropped, faults>>

\* The jobs left in the list are freed without run() or done(), then the pool.
Free ==
  /\ joining # 0 /\ joining = live + 1 /\ ~freed
  /\ queue' = <<>>
  /\ freed' = TRUE
  /\ UNCHANGED <<live, idle, shutdown, handle, worker, job, submitter, loopVars,
                 joining, next, started, done, dropped, faults>>

-----------------------------------------------------------------------------
WorkerStep(t) == \/ WorkerLocks(t) \/ WorkerWakes(t) \/ RunReturns(t)
                 \/ Post(t) \/ Notify(t)
SubmitterStep(s) == Spawn(s) \/ Rollback(s)
LoopStep == LoopDetaches \/ LoopRuns \/ Join \/ Free

Next ==
  \/ \E s \in Submitters : Submit(s) \/ SubmitterStep(s)
  \/ \E t \in Threads : WorkerStep(t) \/ SpuriousWakeup(t)
  \/ LoopStep
  \/ Destroy

Spec == Init /\ [][Next]_vars

\* The scheduler runs every thread that can run, a job's run() returns, and
\* the loop keeps dispatching (also after the pool is gone).  Nobody is
\* obliged to submit or to destroy.
FairSpec ==
  /\ Spec
  /\ \A t \in Threads : WF_vars(WorkerStep(t))
  /\ \A s \in Submitters : WF_vars(SubmitterStep(s))
  /\ WF_vars(LoopStep)

-----------------------------------------------------------------------------
(* Properties *)

\* A job never waits in the queue while every worker sleeps: when no thread
\* creation has failed, a non-empty queue means that some worker will look at
\* it before it sleeps, or that a thread is being created for it.  The count
\* submit trusts instead of the wait set, idle_count, also counts workers that
\* were signalled for an earlier job and have not run yet.
QueuedJobIsAttended ==
  (queue # <<>> /\ faults = 0 /\ ~freed) =>
    \/ \E t \in Threads : worker[t] \notin {"unborn", "wait", "exit"}
    \/ \E s \in Submitters : submitter[s].at = "spawn"

\* Jobs run in the order they were pushed, each at most once, whichever
\* workers pop them.
StartedInOrder == \A i, j \in DOMAIN started : i < j => started[i] < started[j]

\* A callback that was posted is not forgotten: the loop has been woken for
\* it, or the worker that linked it is about to wake it.
PostedIsNotified ==
  posted # <<>> => \/ wake
                   \/ \E t \in Threads : worker[t] = "notify"

\* When no thread creation has failed, the pool's memory outlives its
\* workers: destroy frees it only after the last of them has left worker_main.
PoolOutlivesWorkers ==
  (freed /\ faults = 0) => \A t \in Threads : worker[t] \in {"unborn", "exit"}

\* Every job the pool took is run and its done() reaches the loop, also when
\* the pool is destroyed meanwhile, unless a fault intervened.
EveryJobIsDone ==
  \A j \in Jobs : (j < next) ~> (j \in Range(done) \/ faults > 0)

\* Destroy returns: no order of broadcasts, waits and wakeups leaves it
\* joining a worker that sleeps.
DestroyReturns == shutdown ~> freed
=============================================================================
