----------------------------- MODULE ThreadPool -----------------------------
(***************************************************************************)
(* nhttp::async::thread_pool (src/async/thread_pool.cpp and                *)
(* include/nhttp/async/thread_pool.hpp): reactor threads hand blocking     *)
(* jobs to a fixed set of workers through an mpmc_queue, and a mutex and a  *)
(* condition variable exist only to put idle workers to sleep and to wake  *)
(* them.                                                                   *)
(*                                                                         *)
(* The queue answers as the theorems about MpmcQueue allow it to: a push   *)
(* claims a place and publishes it in two steps, a pop fails when nothing  *)
(* is inside or the oldest place is not published yet, a push fails when   *)
(* all places are taken or a worker has not yet released the place it      *)
(* popped.  One step is one call on the queue, the mutex or the condition  *)
(* variable.                                                               *)
(***************************************************************************)
EXTENDS Naturals, Sequences, FiniteSets

CONSTANTS Callers,       \* reactor threads calling run()
          Workers,       \* the pool's own threads
          QueueCapacity, \* queue_capacity
          MaxJobs,       \* bound: how many jobs one caller submits
          Nobody

Job == Callers \X (1 .. MaxJobs)
Destroyer == "destructor"
Threads == Callers \cup Workers \cup {Destroyer}

ASSUME PoolAssumption ==
  /\ Workers # {}
  /\ Callers \cap Workers = {}
  /\ QueueCapacity \in Nat \ {0}
  /\ MaxJobs \in Nat
  /\ Destroyer \notin Callers \cup Workers
  /\ Nobody \notin Threads \cup Job

VARIABLES queue,       \* the jobs in jobs_, in the order their places were claimed
          published,   \* those of them that their caller has published
          popped,      \* popped[w]: the job in worker w's local variable job, or Nobody
          releasing,   \* workers that took a job out of a place they have not freed yet
          lock,        \* who holds wake_mutex_
          waiting,     \* workers inside wake_cv_.wait
          stopping,    \* stopping_
          pc,          \* where each thread is
          count,       \* count[c]: how many jobs caller c has submitted
          ran          \* history: how often each job was run

vars == <<queue, published, popped, releasing, lock, waiting, stopping, pc, count, ran>>

queueVars == <<queue, published, popped, releasing>>

Init ==
  /\ queue = <<>>
  /\ published = {}
  /\ popped = [w \in Workers |-> Nobody]
  /\ releasing = {}
  /\ lock = Nobody
  /\ waiting = {}
  /\ stopping = FALSE
  /\ pc = [t \in Threads |-> IF t \in Workers THEN "pop" ELSE "idle"]
  /\ count = [c \in Callers |-> 0]
  /\ ran = [j \in Job |-> 0]

Goto(t, label) == pc' = [pc EXCEPT ![t] = label]

Acquire(t) ==
  /\ lock = Nobody
  /\ lock' = t

Release(t) ==
  /\ lock = t
  /\ lock' = Nobody

CurrentJob(c) == <<c, count[c]>>

------------------------------------------------------------------------------
(* enqueue, called from run()'s await_suspend on a reactor thread *)

\* Nobody calls into an object whose destructor has begun.
Enqueue(c) ==
  /\ pc[c] = "idle"
  /\ pc[Destroyer] = "idle"
  /\ count[c] < MaxJobs
  /\ count' = [count EXCEPT ![c] = @ + 1]
  /\ Goto(c, "push")
  /\ UNCHANGED <<queueVars, lock, waiting, stopping, ran>>

TryPushClaims(c) ==
  /\ pc[c] = "push"
  /\ Len(queue) < QueueCapacity
  /\ queue' = Append(queue, CurrentJob(c))
  /\ Goto(c, "publish")
  /\ UNCHANGED <<published, popped, releasing, lock, waiting, stopping, count, ran>>

\* try_push returned false: yield and try again with the same job.
TryPushFails(c) ==
  /\ pc[c] = "push"
  /\ Len(queue) = QueueCapacity \/ releasing # {}
  /\ UNCHANGED vars

TryPushPublishes(c) ==
  /\ pc[c] = "publish"
  /\ published' = published \cup {CurrentJob(c)}
  /\ Goto(c, "lock")
  /\ UNCHANGED <<queue, popped, releasing, lock, waiting, stopping, count, ran>>

EnqueueLocks(c) ==
  /\ pc[c] = "lock"
  /\ Acquire(c)
  /\ Goto(c, "notify")
  /\ UNCHANGED <<queueVars, waiting, stopping, count, ran>>

\* notify_one: some waiting worker leaves the wait set, if there is one.
EnqueueNotifies(c) ==
  /\ pc[c] = "notify"
  /\ \/ waiting = {} /\ UNCHANGED waiting
     \/ \E w \in waiting : waiting' = waiting \ {w}
  /\ Goto(c, "unlock")
  /\ UNCHANGED <<queueVars, lock, stopping, count, ran>>

EnqueueReturns(c) ==
  /\ pc[c] = "unlock"
  /\ Release(c)
  /\ Goto(c, "idle")
  /\ UNCHANGED <<queueVars, waiting, stopping, count, ran>>

------------------------------------------------------------------------------
(* worker_loop *)

PopsJob(w) ==
  /\ queue # <<>>
  /\ Head(queue) \in published
  /\ popped' = [popped EXCEPT ![w] = Head(queue)]
  /\ queue' = Tail(queue)
  /\ published' = published \ {Head(queue)}
  /\ releasing' = releasing \cup {w}

PopsNothing ==
  /\ queue # <<>> => Head(queue) \notin published
  /\ UNCHANGED queueVars

\* The first, lock-free try_pop.
PopSucceeds(w) ==
  /\ pc[w] = "pop"
  /\ PopsJob(w)
  /\ Goto(w, "run")
  /\ UNCHANGED <<lock, waiting, stopping, count, ran>>

PopFails(w) ==
  /\ pc[w] = "pop"
  /\ PopsNothing
  /\ Goto(w, "lock")
  /\ UNCHANGED <<lock, waiting, stopping, count, ran>>

\* The last store of try_pop frees the place.
PopReleases(w) ==
  /\ w \in releasing
  /\ releasing' = releasing \ {w}
  /\ UNCHANGED <<queue, published, popped, lock, waiting, stopping, pc, count, ran>>

\* Mutant: stopping_ is tested before the queue is looked at again.
LocksAndStopsFirst(w) ==
  /\ pc[w] = "lock"
  /\ Acquire(w)
  /\ Goto(w, IF stopping THEN "unlockExit" ELSE "recheck")
  /\ UNCHANGED <<queueVars, waiting, stopping, count, ran>>

WorkerLocks(w) ==
  /\ pc[w] = "lock"
  /\ Acquire(w)
  /\ Goto(w, "recheck")
  /\ UNCHANGED <<queueVars, waiting, stopping, count, ran>>

\* The second try_pop, under the lock.
RecheckSucceeds(w) ==
  /\ pc[w] = "recheck"
  /\ PopsJob(w)
  /\ Goto(w, "unlockRun")
  /\ UNCHANGED <<lock, waiting, stopping, count, ran>>

RecheckFails(w) ==
  /\ pc[w] = "recheck"
  /\ PopsNothing
  /\ Goto(w, "stopping?")
  /\ UNCHANGED <<lock, waiting, stopping, count, ran>>

UnlocksToRun(w) ==
  /\ pc[w] = "unlockRun"
  /\ w \notin releasing
  /\ Release(w)
  /\ Goto(w, "run")
  /\ UNCHANGED <<queueVars, waiting, stopping, count, ran>>

\* Mutant: the popped job is dropped, the worker goes round without running it.
SkipsJob(w) ==
  /\ pc[w] = "run"
  /\ w \notin releasing
  /\ popped' = [popped EXCEPT ![w] = Nobody]
  /\ Goto(w, "pop")
  /\ UNCHANGED <<queue, published, releasing, lock, waiting, stopping, count, ran>>

\* job(): run()'s lambda catches what the user's function throws and always
\* posts the awaiting coroutine back to its io_context.
RunsJob(w) ==
  /\ pc[w] = "run"
  /\ w \notin releasing
  /\ ran' = [ran EXCEPT ![popped[w]] = @ + 1]
  /\ popped' = [popped EXCEPT ![w] = Nobody]
  /\ Goto(w, "pop")
  /\ UNCHANGED <<queue, published, releasing, lock, waiting, stopping, count>>

SeesStopping(w) ==
  /\ pc[w] = "stopping?"
  /\ Goto(w, IF stopping THEN "unlockExit" ELSE "wait")
  /\ UNCHANGED <<queueVars, lock, waiting, stopping, count, ran>>

\* wait releases the mutex and joins the wait set in one step.
Waits(w) ==
  /\ pc[w] = "wait"
  /\ Release(w)
  /\ waiting' = waiting \cup {w}
  /\ Goto(w, "woken")
  /\ UNCHANGED <<queueVars, stopping, count, ran>>

SpuriousWakeup(w) ==
  /\ w \in waiting
  /\ waiting' = waiting \ {w}
  /\ UNCHANGED <<queueVars, lock, stopping, pc, count, ran>>

\* wait returns with the mutex held; the end of the iteration releases it.
WaitReturns(w) ==
  /\ pc[w] = "woken"
  /\ w \notin waiting
  /\ Acquire(w)
  /\ Goto(w, "unlockLoop")
  /\ UNCHANGED <<queueVars, waiting, stopping, count, ran>>

LoopsAround(w) ==
  /\ pc[w] = "unlockLoop"
  /\ Release(w)
  /\ Goto(w, "pop")
  /\ UNCHANGED <<queueVars, waiting, stopping, count, ran>>

Exits(w) ==
  /\ pc[w] = "unlockExit"
  /\ Release(w)
  /\ Goto(w, "exited")
  /\ UNCHANGED <<queueVars, waiting, stopping, count, ran>>

------------------------------------------------------------------------------
(* ~thread_pool *)

StoreStopping ==
  /\ pc[Destroyer] = "idle"
  /\ \A c \in Callers : pc[c] = "idle"
  /\ stopping' = TRUE
  /\ Goto(Destroyer, "lock")
  /\ UNCHANGED <<queueVars, lock, waiting, count, ran>>

\* Mutant: the destructor notifies without passing through the mutex.
DestroyerSkipsLock ==
  /\ pc[Destroyer] = "lock"
  /\ Goto(Destroyer, "notifyAll")
  /\ UNCHANGED <<queueVars, lock, waiting, stopping, count, ran>>

DestroyerLocks ==
  /\ pc[Destroyer] = "lock"
  /\ Acquire(Destroyer)
  /\ Goto(Destroyer, "unlock")
  /\ UNCHANGED <<queueVars, waiting, stopping, count, ran>>

DestroyerUnlocks ==
  /\ pc[Destroyer] = "unlock"
  /\ Release(Destroyer)
  /\ Goto(Destroyer, "notifyAll")
  /\ UNCHANGED <<queueVars, waiting, stopping, count, ran>>

NotifiesAll ==
  /\ pc[Destroyer] = "notifyAll"
  /\ waiting' = {}
  /\ Goto(Destroyer, "join")
  /\ UNCHANGED <<queueVars, lock, stopping, count, ran>>

Joins ==
  /\ pc[Destroyer] = "join"
  /\ \A w \in Workers : pc[w] = "exited"
  /\ Goto(Destroyer, "joined")
  /\ UNCHANGED <<queueVars, lock, waiting, stopping, count, ran>>

------------------------------------------------------------------------------
CallerStep(c) ==
  \/ TryPushClaims(c) \/ TryPushFails(c) \/ TryPushPublishes(c)
  \/ EnqueueLocks(c) \/ EnqueueNotifies(c) \/ EnqueueReturns(c)

WorkerStep(w) ==
  \/ PopSucceeds(w) \/ PopFails(w) \/ PopReleases(w) \/ WorkerLocks(w) \/ RecheckSucceeds(w)
  \/ RecheckFails(w) \/ UnlocksToRun(w) \/ RunsJob(w) \/ SeesStopping(w) \/ Waits(w)
  \/ WaitReturns(w) \/ LoopsAround(w) \/ Exits(w)

DestroyerStep == DestroyerLocks \/ DestroyerUnlocks \/ NotifiesAll \/ Joins

Next ==
  \/ \E c \in Callers : Enqueue(c) \/ CallerStep(c)
  \/ \E w \in Workers : WorkerStep(w) \/ SpuriousWakeup(w)
  \/ StoreStopping
  \/ DestroyerStep

Spec == Init /\ [][Next]_vars

(* Every thread inside the pool is scheduled and a job returns.  Somebody who
   asks again and again for the mutex, or for a place in the queue, is not
   passed over for ever: the mutex and the yield loop are used by few threads
   that each hold them for a moment. *)
Fairness ==
  /\ \A c \in Callers :
       /\ WF_vars(TryPushPublishes(c) \/ EnqueueNotifies(c) \/ EnqueueReturns(c))
       /\ SF_vars(TryPushClaims(c) \/ EnqueueLocks(c))
  /\ \A w \in Workers :
       /\ WF_vars(WorkerStep(w))
       /\ SF_vars(WorkerLocks(w) \/ WaitReturns(w))
  /\ WF_vars(DestroyerStep)
  /\ SF_vars(DestroyerLocks)

FairSpec == Spec /\ Fairness

------------------------------------------------------------------------------
(* Properties *)

Claimed(j) == j[2] < count[j[1]] \/ (j[2] = count[j[1]] /\ pc[j[1]] # "push")

(* A job whose place enqueue has claimed is in exactly one place: in the queue
   once, in the hands of one worker, or run once.  No job is lost, run twice
   or taken by two workers (thread_pool.cpp:66, 78). *)
JobInOnePlace ==
  \A j \in Job :
    Cardinality({i \in 1 .. Len(queue) : queue[i] = j})
      + Cardinality({w \in Workers : popped[w] = j}) + ran[j]
    = IF Claimed(j) THEN 1 ELSE 0

(* Every job handed to run() is eventually run, whatever the order in which the
   callers publish and notify, with the queue full or not and with the
   destructor running or not: stopping_ does not drop what is still queued
   (thread_pool.cpp:17-35, 45-59, 62-89). *)
EveryJobRuns ==
  \A c \in Callers : \A n \in 1 .. MaxJobs : count[c] = n ~> ran[<<c, n>>] = 1

(* Once the destructor has set stopping_, every worker wakes, drains and exits,
   and the joins return (thread_pool.cpp:18-34): the notify_all cannot fall
   between a worker's last look and its wait. *)
DestructorReturns == stopping ~> pc[Destroyer] = "joined"
==============================================================================
