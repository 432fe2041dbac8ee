-------------------------- MODULE ThreadPoolProofs --------------------------
(***************************************************************************)
(* JobInOnePlace of ThreadPool for every number of callers, workers, jobs  *)
(* and places in the queue.                                                *)
(*                                                                         *)
(* The count of places is not inductive by itself: a worker's local job    *)
(* could be overwritten by its next pop, or run a second time.  So the     *)
(* invariant also says where in worker_loop a worker holds a job.          *)
(***************************************************************************)
EXTENDS ThreadPool, FiniteSetTheorems, TLAPS

TypeOK ==
  /\ queue \in Seq(Job)
  /\ popped \in [Workers -> Job \cup {Nobody}]
  /\ DOMAIN pc = Threads
  /\ count \in [Callers -> 0 .. MaxJobs]
  /\ \A c \in Callers : pc[c] = "push" => count[c] >= 1
  /\ ran \in [Job -> Nat]

\* A worker holds a job from the pop to the call, and at no other time.
HoldsWhileRunning ==
  \A w \in Workers : popped[w] # Nobody <=> pc[w] \in {"run", "unlockRun"}

Queued(j) == \E i \in 1 .. Len(queue) : queue[i] = j
Held(j) == \E w \in Workers : popped[w] = j

Placed ==
  /\ \A i, k \in 1 .. Len(queue) : queue[i] = queue[k] => i = k
  /\ \A v, w \in Workers : popped[v] = popped[w] /\ popped[v] # Nobody => v = w
  /\ \A j \in Job :
       /\ ran[j] \in {0, 1}
       /\ ~(Queued(j) /\ Held(j))
       /\ ran[j] = 1 => ~Queued(j) /\ ~Held(j)
       /\ Claimed(j) <=> Queued(j) \/ Held(j) \/ ran[j] = 1

IInv == TypeOK /\ HoldsWhileRunning /\ Placed

------------------------------------------------------------------------------
LEMMA PlacedIsOnePlace == TypeOK /\ Placed => JobInOnePlace
<1> SUFFICES ASSUME TypeOK, Placed, NEW j \in Job
             PROVE  Cardinality({i \in 1 .. Len(queue) : queue[i] = j})
                      + Cardinality({w \in Workers : popped[w] = j}) + ran[j]
                    = IF Claimed(j) THEN 1 ELSE 0
  BY DEF JobInOnePlace
<1> DEFINE inQueue == {i \in 1 .. Len(queue) : queue[i] = j}
           inHand == {w \in Workers : popped[w] = j}
<1>1. Cardinality(inQueue) = IF Queued(j) THEN 1 ELSE 0
  <2>1. CASE Queued(j)
    <3>1. PICK i \in 1 .. Len(queue) : queue[i] = j
      BY <2>1 DEF Queued
    <3>2. inQueue = {i}
      BY <3>1 DEF Placed
    <3> QED
      BY <2>1, <3>2, FS_Singleton
  <2>2. CASE ~Queued(j)
    <3>1. inQueue = {}
      BY <2>2 DEF Queued
    <3> QED
      BY <2>2, <3>1, FS_EmptySet
  <2> QED
    BY <2>1, <2>2
<1>2. Cardinality(inHand) = IF Held(j) THEN 1 ELSE 0
  <2>1. CASE Held(j)
    <3>1. PICK w \in Workers : popped[w] = j
      BY <2>1 DEF Held
    <3>2. inHand = {w}
      BY <3>1, PoolAssumption DEF Placed
    <3> QED
      BY <2>1, <3>2, FS_Singleton
  <2>2. CASE ~Held(j)
    <3>1. inHand = {}
      BY <2>2 DEF Held
    <3> QED
      BY <2>2, <3>1, FS_EmptySet
  <2> QED
    BY <2>1, <2>2
<1> HIDE DEF inQueue, inHand
<1>3. Cardinality(inQueue) + Cardinality(inHand) + ran[j] = IF Claimed(j) THEN 1 ELSE 0
  BY <1>1, <1>2 DEF Placed
<1> QED
  BY <1>3 DEF inQueue, inHand

LEMMA InitInv == Init => IInv
<1> SUFFICES ASSUME Init PROVE IInv
  OBVIOUS
<1>1. /\ queue = <<>> /\ popped = [w \in Workers |-> Nobody]
      /\ pc = [t \in Threads |-> IF t \in Workers THEN "pop" ELSE "idle"]
      /\ count = [c \in Callers |-> 0] /\ ran = [j \in Job |-> 0]
  BY Zenon DEF Init
<1>2. TypeOK
  BY <1>1, PoolAssumption DEF TypeOK, Threads
<1>3. HoldsWhileRunning
  BY <1>1 DEF HoldsWhileRunning, Threads
<1>4. Placed
  <2>1. \A j \in Job : ~Queued(j) /\ ~Held(j) /\ ran[j] = 0
    BY <1>1, PoolAssumption DEF Queued, Held
  <2>2. \A j \in Job : ~Claimed(j)
    BY <1>1 DEF Claimed, Job
  <2> QED
    BY <1>1, <2>1, <2>2 DEF Placed
<1> QED
  BY <1>2, <1>3, <1>4 DEF IInv

\* Steps that move no job and no thread to or from the places that matter.
LEMMA JobsStay ==
  ASSUME IInv, UNCHANGED <<queue, popped, count, ran>>,
         DOMAIN pc' = Threads,
         \A w \in Workers : pc'[w] \in {"run", "unlockRun"} <=> pc[w] \in {"run", "unlockRun"},
         \A c \in Callers : pc'[c] = "push" <=> pc[c] = "push"
  PROVE  IInv'
<1>1. TypeOK' /\ HoldsWhileRunning'
  BY DEF IInv, TypeOK, HoldsWhileRunning
<1>2. \A j \in Job : /\ Claimed(j)' <=> Claimed(j)
                     /\ Queued(j)' <=> Queued(j)
                     /\ Held(j)' <=> Held(j)
  BY DEF Claimed, Queued, Held, Job
<1>3. Placed'
  BY <1>2 DEF IInv, Placed
<1> QED
  BY <1>1, <1>3 DEF IInv

LEMMA EnqueueInv == ASSUME IInv, NEW c \in Callers, Enqueue(c) PROVE IInv'
<1>1. /\ pc[c] = "idle" /\ count[c] < MaxJobs
      /\ count' = [count EXCEPT ![c] = @ + 1] /\ pc' = [pc EXCEPT ![c] = "push"]
      /\ UNCHANGED <<queue, popped, ran>>
  BY DEF Enqueue, Goto, queueVars
<1>2. TypeOK'
  BY <1>1, PoolAssumption DEF IInv, TypeOK, Threads
<1>3. HoldsWhileRunning'
  BY <1>1, PoolAssumption DEF IInv, TypeOK, HoldsWhileRunning, Threads
<1>4. \A j \in Job : /\ Claimed(j)' <=> Claimed(j)
                     /\ Queued(j)' <=> Queued(j)
                     /\ Held(j)' <=> Held(j)
  <2>1. ASSUME NEW d \in Callers, NEW n \in 1 .. MaxJobs
        PROVE  Claimed(<<d, n>>)' <=> Claimed(<<d, n>>)
    BY <1>1 DEF IInv, TypeOK, Claimed, Threads
  <2> QED
    BY <1>1, <2>1 DEF Queued, Held, Job
<1>5. Placed'
  BY <1>1, <1>4 DEF IInv, Placed
<1> QED
  BY <1>2, <1>3, <1>5 DEF IInv

LEMMA ClaimInv == ASSUME IInv, NEW c \in Callers, TryPushClaims(c) PROVE IInv'
<1> DEFINE new == CurrentJob(c)
<1>1. /\ pc[c] = "push" /\ pc' = [pc EXCEPT ![c] = "publish"]
      /\ queue' = Append(queue, new)
      /\ UNCHANGED <<popped, count, ran>>
  BY DEF TryPushClaims, Goto
<1>2. new \in Job /\ ~Claimed(new) /\ count[c] \in Nat
  BY <1>1, PoolAssumption DEF IInv, TypeOK, CurrentJob, Claimed, Job
<1>3. TypeOK'
  BY <1>1, <1>2, PoolAssumption DEF IInv, TypeOK, Threads
<1>4. HoldsWhileRunning'
  BY <1>1, PoolAssumption DEF IInv, TypeOK, HoldsWhileRunning, Threads
<1>5. \A j \in Job : Claimed(j)' <=> Claimed(j) \/ j = new
  <2>1. ASSUME NEW d \in Callers, NEW n \in 1 .. MaxJobs
        PROVE  Claimed(<<d, n>>)' <=> Claimed(<<d, n>>) \/ <<d, n>> = new
    BY <1>1 DEF IInv, TypeOK, Claimed, CurrentJob, Threads
  <2> QED
    BY <2>1 DEF Job
<1>6. ~Queued(new) /\ ~Held(new) /\ ran[new] = 0
  BY <1>2 DEF IInv, Placed
<1> HIDE DEF new
<1>7. /\ Len(queue') = Len(queue) + 1 /\ queue'[Len(queue) + 1] = new
      /\ \A i \in 1 .. Len(queue) : queue'[i] = queue[i]
      /\ Len(queue) \in Nat
  BY <1>1, <1>2 DEF IInv, TypeOK
<1>8. \A j \in Job : /\ Queued(j)' <=> Queued(j) \/ j = new
                     /\ Held(j)' <=> Held(j)
  BY <1>1, <1>7 DEF Queued, Held
<1>9. \A i, k \in 1 .. Len(queue') : queue'[i] = queue'[k] => i = k
  BY <1>6, <1>7 DEF IInv, Placed, Queued
<1>10. Placed'
  BY <1>1, <1>2, <1>5, <1>6, <1>8, <1>9 DEF IInv, Placed
<1> QED
  BY <1>3, <1>4, <1>10 DEF IInv

\* Both try_pops: the job moves from the head of the queue to an empty hand.
LEMMA PopInv ==
  ASSUME IInv, NEW w \in Workers, pc[w] \in {"pop", "recheck"}, PopsJob(w),
         NEW to \in {"run", "unlockRun"}, Goto(w, to), UNCHANGED <<count, ran>>
  PROVE  IInv'
<1> DEFINE job == Head(queue)
<1>1. /\ queue # <<>> /\ queue' = Tail(queue) /\ popped' = [popped EXCEPT ![w] = job]
      /\ pc' = [pc EXCEPT ![w] = to]
  BY DEF PopsJob, Goto
<1>2. queue \in Seq(Job) /\ Len(queue) >= 1 /\ job = queue[1] /\ job \in Job
  BY <1>1 DEF IInv, TypeOK
<1> HIDE DEF job
<1>3. /\ Len(queue') = Len(queue) - 1
      /\ \A i \in 1 .. Len(queue') : queue'[i] = queue[i + 1]
  BY <1>1, <1>2
<1>4. popped[w] = Nobody /\ job # Nobody
  BY <1>2, PoolAssumption DEF IInv, TypeOK, HoldsWhileRunning
<1>5. TypeOK'
  <2>1. queue' \in Seq(Job)
    BY <1>1, <1>2
  <2> QED
    BY <1>1, <1>2, <2>1, PoolAssumption DEF IInv, TypeOK, Threads
<1>6. HoldsWhileRunning'
  BY <1>1, <1>4 DEF IInv, TypeOK, HoldsWhileRunning, Threads
<1>7. \A j \in Job : Claimed(j)' <=> Claimed(j)
  BY <1>1, PoolAssumption DEF IInv, TypeOK, Claimed, Job, Threads
<1>8. \A i, k \in 1 .. Len(queue) : queue[i] = queue[k] => i = k
  BY DEF IInv, Placed
<1>9. ASSUME NEW j \in Job PROVE Queued(j)' <=> Queued(j) /\ j # job
  <2>1. CASE Queued(j)'
    <3>1. PICK i \in 1 .. Len(queue') : queue'[i] = j
      BY <2>1 DEF Queued
    <3>2. i + 1 \in 1 .. Len(queue) /\ i + 1 # 1 /\ queue[i + 1] = j
      BY <1>2, <1>3, <3>1
    <3> QED
      BY <1>2, <1>8, <2>1, <3>2 DEF Queued
  <2>2. CASE Queued(j) /\ j # job
    <3>1. PICK i \in 1 .. Len(queue) : queue[i] = j
      BY <2>2 DEF Queued
    <3>2. i - 1 \in 1 .. Len(queue') /\ queue'[i - 1] = j
      BY <1>2, <1>3, <2>2, <3>1
    <3> QED
      BY <2>2, <3>2 DEF Queued
  <2> QED
    BY <2>1, <2>2
<1>10. \A j \in Job : Held(j)' <=> Held(j) \/ j = job
  BY <1>1, <1>4, PoolAssumption DEF IInv, TypeOK, Held
<1>11. Queued(job) /\ ~Held(job) /\ ran[job] = 0
  BY <1>2 DEF IInv, Placed, Queued
<1>12. Placed'
  <2>1. \A i, k \in 1 .. Len(queue') : queue'[i] = queue'[k] => i = k
    BY <1>2, <1>3, <1>8
  <2>2. \A u, v \in Workers : popped'[u] = popped'[v] /\ popped'[u] # Nobody => u = v
    BY <1>1, <1>4, <1>11 DEF IInv, TypeOK, Placed, Held
  <2>3. \A j \in Job : /\ ran'[j] \in {0, 1}
                       /\ ~(Queued(j)' /\ Held(j)')
                       /\ ran'[j] = 1 => ~Queued(j)' /\ ~Held(j)'
                       /\ Claimed(j)' <=> Queued(j)' \/ Held(j)' \/ ran'[j] = 1
    BY <1>7, <1>9, <1>10, <1>11 DEF IInv, Placed
  <2> QED
    BY <2>1, <2>2, <2>3 DEF Placed
<1> QED
  BY <1>5, <1>6, <1>12 DEF IInv

LEMMA RunsJobInv == ASSUME IInv, NEW w \in Workers, RunsJob(w) PROVE IInv'
<1> DEFINE job == popped[w]
<1>1. /\ pc[w] = "run" /\ pc' = [pc EXCEPT ![w] = "pop"]
      /\ ran' = [ran EXCEPT ![job] = @ + 1] /\ popped' = [popped EXCEPT ![w] = Nobody]
      /\ UNCHANGED <<queue, count>>
  BY DEF RunsJob, Goto
<1>2. job \in Job /\ job # Nobody /\ Held(job)
  BY <1>1, PoolAssumption DEF IInv, TypeOK, HoldsWhileRunning, Held
<1>3. TypeOK'
  BY <1>1, <1>2, PoolAssumption DEF IInv, TypeOK, Threads
<1>4. HoldsWhileRunning'
  BY <1>1 DEF IInv, TypeOK, HoldsWhileRunning, Threads
<1>5. \A j \in Job : Claimed(j)' <=> Claimed(j)
  BY <1>1, PoolAssumption DEF IInv, TypeOK, Claimed, Job, Threads
<1>6. \A v \in Workers : popped[v] = job => v = w
  BY <1>2 DEF IInv, Placed
<1>7. \A j \in Job : Held(j)' <=> Held(j) /\ j # job
  BY <1>1, <1>2, <1>6, PoolAssumption DEF IInv, TypeOK, Held
<1>8. \A j \in Job : Queued(j)' <=> Queued(j)
  BY <1>1 DEF Queued
<1>9. ran[job] = 0 /\ ~Queued(job)
  BY <1>2 DEF IInv, Placed
<1>10. \A j \in Job : ran'[j] = IF j = job THEN 1 ELSE ran[j]
  BY <1>1, <1>2, <1>9 DEF IInv, TypeOK
<1> HIDE DEF job
<1>11. Placed'
  <2>1. \A u, v \in Workers : popped'[u] = popped'[v] /\ popped'[u] # Nobody => u = v
    BY <1>1 DEF IInv, TypeOK, Placed
  <2>2. \A j \in Job : /\ ran'[j] \in {0, 1}
                       /\ ~(Queued(j)' /\ Held(j)')
                       /\ ran'[j] = 1 => ~Queued(j)' /\ ~Held(j)'
                       /\ Claimed(j)' <=> Queued(j)' \/ Held(j)' \/ ran'[j] = 1
    BY <1>2, <1>5, <1>7, <1>8, <1>9, <1>10 DEF IInv, Placed
  <2>3. \A i, k \in 1 .. Len(queue') : queue'[i] = queue'[k] => i = k
    BY <1>1 DEF IInv, Placed
  <2> QED
    BY <2>1, <2>2, <2>3 DEF Placed
<1> QED
  BY <1>3, <1>4, <1>11 DEF IInv

------------------------------------------------------------------------------
LEMMA CallerStepInv == ASSUME IInv, NEW c \in Callers, CallerStep(c) PROVE IInv'
<1> USE PoolAssumption
<1>1. ASSUME NEW from, NEW to, from # "push", to # "push", pc[c] = from,
             pc' = [pc EXCEPT ![c] = to], UNCHANGED <<queue, popped, count, ran>>
      PROVE  IInv'
  <2>1. DOMAIN pc' = Threads /\ \A t \in Threads : t # c => pc'[t] = pc[t]
    BY <1>1 DEF IInv, TypeOK
  <2>2. \A d \in Callers : pc'[d] = "push" <=> pc[d] = "push"
    BY <1>1, <2>1 DEF IInv, TypeOK, Threads
  <2> QED
    BY <1>1, <2>1, <2>2, JobsStay DEF Threads
<1>2. CASE TryPushFails(c)
  BY <1>2, JobsStay DEF TryPushFails, vars, IInv, TypeOK
<1>3. CASE TryPushPublishes(c) \/ EnqueueLocks(c) \/ EnqueueNotifies(c) \/ EnqueueReturns(c)
  <2>1. UNCHANGED <<queue, popped, count, ran>>
    BY <1>3 DEF TryPushPublishes, EnqueueLocks, EnqueueNotifies, EnqueueReturns, queueVars
  <2>2. \E from \in {"publish", "lock", "notify", "unlock"} :
          \E to \in {"lock", "notify", "unlock", "idle"} :
            pc[c] = from /\ pc' = [pc EXCEPT ![c] = to]
    BY <1>3 DEF TryPushPublishes, EnqueueLocks, EnqueueNotifies, EnqueueReturns, Goto
  <2> QED
    BY <1>1, <2>1, <2>2
<1> QED
  BY <1>2, <1>3, ClaimInv DEF CallerStep

LEMMA WorkerStepInv ==
  ASSUME IInv, NEW w \in Workers, WorkerStep(w) \/ SpuriousWakeup(w) PROVE IInv'
<1> USE PoolAssumption
<1>1. ASSUME NEW from, NEW to, from \in {"run", "unlockRun"} <=> to \in {"run", "unlockRun"},
             pc[w] = from, pc' = [pc EXCEPT ![w] = to], UNCHANGED <<queue, popped, count, ran>>
      PROVE  IInv'
  <2>1. DOMAIN pc' = Threads /\ \A t \in Threads : t # w => pc'[t] = pc[t]
    BY <1>1 DEF IInv, TypeOK
  <2>2. pc'[w] = to
    BY <1>1 DEF IInv, TypeOK, Threads
  <2> QED
    BY <1>1, <2>1, <2>2, JobsStay DEF Threads
<1>2. CASE PopSucceeds(w)
  BY <1>2, PopInv DEF PopSucceeds
<1>3. CASE RecheckSucceeds(w)
  BY <1>3, PopInv DEF RecheckSucceeds
<1>4. CASE PopReleases(w) \/ SpuriousWakeup(w)
  BY <1>4, JobsStay DEF PopReleases, SpuriousWakeup, queueVars, IInv, TypeOK
<1>5. CASE UnlocksToRun(w)
  BY <1>1, <1>5 DEF UnlocksToRun, Goto, queueVars
<1>6. CASE \/ PopFails(w) \/ WorkerLocks(w) \/ RecheckFails(w) \/ SeesStopping(w)
           \/ Waits(w) \/ WaitReturns(w) \/ LoopsAround(w) \/ Exits(w)
  <2>1. UNCHANGED <<queue, popped, count, ran>>
    BY <1>6 DEF PopFails, WorkerLocks, RecheckFails, SeesStopping, Waits, WaitReturns,
                LoopsAround, Exits, PopsNothing, queueVars
  <2>2. \E from \in {"pop", "lock", "recheck", "stopping?", "wait", "woken", "unlockLoop",
                     "unlockExit"} :
          \E to \in {"lock", "recheck", "stopping?", "unlockExit", "wait", "woken",
                     "unlockLoop", "pop", "exited"} :
            pc[w] = from /\ pc' = [pc EXCEPT ![w] = to]
    BY <1>6 DEF PopFails, WorkerLocks, RecheckFails, SeesStopping, Waits, WaitReturns,
                LoopsAround, Exits, Goto
  <2> QED
    BY <1>1, <2>1, <2>2
<1> QED
  BY <1>2, <1>3, <1>4, <1>5, <1>6, RunsJobInv DEF WorkerStep

LEMMA DestroyerInv == ASSUME IInv, StoreStopping \/ DestroyerStep PROVE IInv'
<1> USE PoolAssumption
<1>1. UNCHANGED <<queue, popped, count, ran>>
  BY DEF StoreStopping, DestroyerStep, DestroyerLocks, DestroyerUnlocks, NotifiesAll, Joins,
         queueVars
<1>2. \E to \in {"lock", "unlock", "notifyAll", "join", "joined"} :
        pc' = [pc EXCEPT ![Destroyer] = to]
  BY DEF StoreStopping, DestroyerStep, DestroyerLocks, DestroyerUnlocks, NotifiesAll, Joins, Goto
<1>3. DOMAIN pc' = Threads /\ \A t \in Threads : t # Destroyer => pc'[t] = pc[t]
  BY <1>2 DEF IInv, TypeOK
<1> QED
  BY <1>1, <1>3, JobsStay DEF Threads

LEMMA NextInv == IInv /\ [Next]_vars => IInv'
<1> SUFFICES ASSUME IInv, [Next]_vars PROVE IInv'
  OBVIOUS
<1>1. CASE UNCHANGED vars
  BY <1>1, JobsStay DEF vars, IInv, TypeOK
<1> QED
  BY <1>1, EnqueueInv, CallerStepInv, WorkerStepInv, DestroyerInv DEF Next

(* No job is lost, run twice or held by two workers, for every number of callers,
   workers and jobs and every capacity: through the spinning of enqueue, the two
   try_pops of worker_loop (66, 78) and the destructor, a job whose place is
   claimed is in the queue once, in one worker's hands or has run once. *)
THEOREM JobsConserved == Spec => []JobInOnePlace
<1>1. IInv => JobInOnePlace
  BY PlacedIsOnePlace DEF IInv
<1> QED
  BY InitInv, NextInv, <1>1, PTL DEF Spec
==============================================================================
