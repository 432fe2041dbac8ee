------------------------------ MODULE IoContext ------------------------------
(***************************************************************************)
(* nhttp::async::io_context over the epoll reactor (async/io_context.cpp,  *)
(* platform/posix/reactor.cpp) with the sockets and coroutines that use it *)
(* (async/socket.cpp, server/extensions/reverse_proxy.cpp).                *)
(*                                                                         *)
(* One thread runs the loop and every coroutine of the context; other      *)
(* threads only post() and stop().  A coroutine waits for one direction of *)
(* one of its sockets at a time.  The async_socket goes when the last      *)
(* coroutine that shares it has finished; a pump of reverse_proxy's        *)
(* splice closes the socket it writes to before that, when it ends.        *)
(***************************************************************************)
EXTENDS Integers, Sequences, FiniteSets, Functions

CONSTANTS Socks,
          Coros,
          Workloads, \* what the coroutines may be working on together
          Nobody,    \* a null coroutine_handle
          MaxTime    \* bound on the clock

Dirs == {"r", "w"}

\* The work of a coroutine: the sockets and directions it waits for, and the socket
\* it closes when it ends, which only a pump does.
Work == [uses : SUBSET (Socks \X Dirs), closes : SUBSET Socks]

\* No two coroutines wait in the same slot of a registration.
ASSUME ContextAssumption ==
  /\ IsFiniteSet(Socks)
  /\ Workloads \subseteq [Coros -> Work]
  /\ \A w \in Workloads : \A g, h \in Coros : g # h => w[g].uses \cap w[h].uses = {}
  /\ Nobody \notin Coros
  /\ MaxTime \in Nat

VARIABLES pc,          \* where run() is
          batch,       \* ready_events that process_ready_events has not reached yet
          ready,       \* coroutines this stage resumes before it goes on, in order
          waiter,      \* waiter[<<s, d>>]: read_waiter / write_waiter, the coroutine or Nobody
          registered,  \* registered[s]: registered_with_reactor
          interest,    \* interest[s]: interest_read / interest_write
          open,        \* open[s]: the async_socket still owns its descriptor
          epoll,       \* epoll[s]: what the kernel was told to report; {}: not added
          readiness,   \* readiness[s]: directions that would not block
          timers,      \* timers_, as pairs of deadline and coroutine
          now, timer_now,  \* steady_clock, and the reading process_timers took
          posted,      \* posted_
          away,        \* coroutines a pool thread will post
          waking,      \* coroutines pushed by a post() that has not called wake() yet
          token,       \* the eventfd is readable
          stopping, stopper,
          work,        \* what each coroutine works on, chosen once
          done         \* coroutines that ran to completion

sockVars == <<waiter, registered, interest, open, epoll, readiness>>
timeVars == <<timers, now, timer_now>>
postVars == <<posted, away, waking, token, stopping, stopper>>
lifeVars == <<work, done>>
vars == <<pc, batch, ready, sockVars, timeVars, postVars, lifeVars>>

\* Every coroutine starts by being posted to its context.
Init ==
  /\ work \in Workloads
  /\ pc = "test"
  /\ batch = <<>>
  /\ ready = <<>>
  /\ waiter = [u \in Socks \X Dirs |-> Nobody]
  /\ registered = [s \in Socks |-> FALSE]
  /\ interest = [s \in Socks |-> {}]
  /\ open = [s \in Socks |-> TRUE]
  /\ epoll = [s \in Socks |-> {}]
  /\ readiness = [s \in Socks |-> {}]
  /\ timers = {}
  /\ now = 0
  /\ timer_now = 0
  /\ posted = <<>>
  /\ away = Coros
  /\ waking = {}
  /\ token = FALSE
  /\ stopping = FALSE
  /\ stopper = "idle"
  /\ done = {}

------------------------------------------------------------------------------
(* Registrations *)

\* Mutant: a registration that was removed is not added again.
UpdateNeverReadds(s, want) ==
  IF ~registered[s] /\ (want = {} \/ interest[s] # {})
    THEN UNCHANGED <<registered, interest, epoll>>
    ELSE /\ epoll' = [epoll EXCEPT ![s] = want]
         /\ registered' = [registered EXCEPT ![s] = want # {}]
         /\ interest' = [interest EXCEPT ![s] = @ \cup want]

\* update_interest, given the waiters that reg has now.
UpdateInterest(s, want) ==
  IF ~registered[s]
    THEN IF want = {}
           THEN UNCHANGED <<registered, interest, epoll>>
           ELSE /\ epoll' = [epoll EXCEPT ![s] = want]
                /\ registered' = [registered EXCEPT ![s] = TRUE]
                /\ interest' = [interest EXCEPT ![s] = want]
    ELSE IF want = interest[s]
           THEN UNCHANGED <<registered, interest, epoll>>
           ELSE /\ epoll' = [epoll EXCEPT ![s] = want]
                /\ registered' = [registered EXCEPT ![s] = want # {}]
                /\ interest' = [interest EXCEPT ![s] = want]

\* The waiters of a registration: what it asks the reactor for.
Waited(s) == {d \in Dirs : waiter[<<s, d>>] # Nobody}

SocksOf(h) == {u[1] : u \in work[h].uses}

\* async_socket::close: forget, then the descriptor and the registration go.
CloseSockets(S) ==
  /\ epoll' = [s \in Socks |-> IF s \in S THEN {} ELSE epoll[s]]
  /\ registered' = [s \in Socks |-> registered[s] /\ s \notin S]
  /\ waiter' = [u \in Socks \X Dirs |-> IF u[1] \in S THEN Nobody ELSE waiter[u]]
  /\ interest' = [s \in Socks |-> IF s \in S THEN {} ELSE interest[s]]
  /\ open' = [s \in Socks |-> open[s] /\ s \notin S]

------------------------------------------------------------------------------
(* run() *)

TestsStopping ==
  /\ pc = "test"
  /\ pc' = IF stopping THEN "returned" ELSE "wait"
  /\ UNCHANGED <<batch, ready, sockVars, timeVars, postVars, lifeVars>>

\* The descriptors epoll_wait reports.  The kernel reports an error or a
\* hang-up in both directions whatever the interest is; that is a readiness in
\* both directions here.
Reported == {s \in Socks : readiness[s] \cap epoll[s] # {}}

TimerDue(t) == \E timer \in timers : timer[1] <= t

\* reactor_->wait returns: events, in any order, a wake-up that is consumed, or
\* the time-out computed from the first timer.
WaitReturns ==
  /\ pc = "wait"
  /\ Reported # {} \/ token \/ TimerDue(now)
  /\ \E order \in Bijection(1 .. Cardinality(Reported), Reported) :
       batch' = [i \in DOMAIN order |->
                   [sock |-> order[i], dirs |-> readiness[order[i]] \cap epoll[order[i]]]]
  /\ token' = FALSE
  /\ pc' = "events"
  /\ UNCHANGED <<ready, sockVars, timeVars, posted, away, waking, stopping, stopper, lifeVars>>

\* to_resume_read, then to_resume_write.
Taken(s, d, dirs) == IF d \in dirs /\ waiter[<<s, d>>] # Nobody THEN <<waiter[<<s, d>>]>> ELSE <<>>
ToResume(s, dirs) == Taken(s, "r", dirs) \o Taken(s, "w", dirs)

\* Mutant: the resumed coroutines stay in their waiter slots.
ProcessKeepsWaiter ==
  /\ pc = "events"
  /\ ready = <<>>
  /\ batch # <<>>
  /\ ready' = ToResume(Head(batch).sock, Head(batch).dirs)
  /\ batch' = Tail(batch)
  /\ UNCHANGED <<pc, sockVars, timeVars, postVars, lifeVars>>

\* One ready_event: the waiters are taken out, the interest is dropped, and
\* both are resumed.
ProcessEvent ==
  /\ pc = "events"
  /\ ready = <<>>
  /\ batch # <<>>
  /\ LET e == Head(batch)
     IN  /\ open[e.sock]
         /\ waiter' = [u \in Socks \X Dirs |->
                        IF u[1] = e.sock /\ u[2] \in e.dirs THEN Nobody ELSE waiter[u]]
         /\ UpdateInterest(e.sock, Waited(e.sock) \ e.dirs)
         /\ ready' = ToResume(e.sock, e.dirs)
  /\ batch' = Tail(batch)
  /\ UNCHANGED <<pc, open, readiness, timeVars, postVars, lifeVars>>

\* The same on a registration that was freed meanwhile: user_data dangles, and
\* the loop finds the empty waiters forget left there, or goes wrong.
ProcessFreed ==
  /\ pc = "events"
  /\ ready = <<>>
  /\ batch # <<>>
  /\ ~open[Head(batch).sock]
  /\ pc' \in {"events", "crashed"}
  /\ batch' = Tail(batch)
  /\ UNCHANGED <<ready, sockVars, timeVars, postVars, lifeVars>>

EventsDone ==
  /\ pc = "events"
  /\ ready = <<>>
  /\ batch = <<>>
  /\ timer_now' = now
  /\ pc' = "timers"
  /\ UNCHANGED <<batch, ready, sockVars, timers, now, postVars, lifeVars>>

\* The heap's front is a timer with the earliest deadline.
FireTimer ==
  /\ pc = "timers"
  /\ ready = <<>>
  /\ \E timer \in timers :
       /\ timer[1] <= timer_now
       /\ \A other \in timers : timer[1] <= other[1]
       /\ timers' = timers \ {timer}
       /\ ready' = <<timer[2]>>
  /\ UNCHANGED <<pc, batch, sockVars, now, timer_now, postVars, lifeVars>>

TimersDone ==
  /\ pc = "timers"
  /\ ready = <<>>
  /\ ~TimerDue(timer_now)
  /\ pc' = "drain"
  /\ UNCHANGED <<batch, ready, sockVars, timeVars, postVars, lifeVars>>

\* drain_posted swaps the queue out under the lock and resumes what it got.
DrainPosted ==
  /\ pc = "drain"
  /\ ready' = posted
  /\ posted' = <<>>
  /\ pc' = "local"
  /\ UNCHANGED <<batch, sockVars, timeVars, away, waking, token, stopping, stopper, lifeVars>>

DrainDone ==
  /\ pc = "local"
  /\ ready = <<>>
  /\ pc' = "test"
  /\ UNCHANGED <<batch, ready, sockVars, timeVars, postVars, lifeVars>>

------------------------------------------------------------------------------
(* A coroutine that was resumed runs up to its next suspension. *)

Resumed(h) == ready # <<>> /\ Head(ready) = h

\* read_some / write_some / accept / connect: whatever was ready is used up
\* until the call would block, then wait_readable / wait_writable.
CoroWatches(h) ==
  /\ Resumed(h)
  /\ \E u \in work[h].uses :
       /\ open[u[1]]
       /\ readiness' = [readiness EXCEPT ![u[1]] = @ \ {u[2]}]
       /\ waiter' = [waiter EXCEPT ![u] = h]
       /\ UpdateInterest(u[1], Waited(u[1]) \cup {u[2]})
  /\ ready' = Tail(ready)
  /\ UNCHANGED <<pc, batch, open, timeVars, postVars, lifeVars>>

CoroSleeps(h) ==
  /\ Resumed(h)
  /\ work[h].closes = {}
  /\ timers' = timers \cup {<<now + 1, h>>}
  /\ ready' = Tail(ready)
  /\ UNCHANGED <<pc, batch, sockVars, now, timer_now, postVars, lifeVars>>

\* thread_pool::run, or schedule() on another context and back.
CoroOffloads(h) ==
  /\ Resumed(h)
  /\ work[h].closes = {}
  /\ away' = away \cup {h}
  /\ ready' = Tail(ready)
  /\ UNCHANGED <<pc, batch, sockVars, timeVars, posted, waking, token, stopping, stopper, lifeVars>>

\* Mutant: whoever finishes first closes every socket of the context.
CoroFinishClosesAll(h) ==
  /\ Resumed(h)
  /\ done' = done \cup {h}
  /\ ready' = Tail(ready)
  /\ CloseSockets(Socks)
  /\ UNCHANGED <<pc, batch, readiness, timeVars, postVars, work>>

\* A pump ends with co_await to->close(), whatever ended it; any coroutine that
\* finishes drops its references, and the last one destroys the async_socket.
CoroFinishes(h) ==
  /\ Resumed(h)
  /\ done' = done \cup {h}
  /\ ready' = Tail(ready)
  /\ LET unshared == {s \in SocksOf(h) : \A g \in Coros \ done' : s \notin SocksOf(g)}
     IN  CloseSockets(work[h].closes \cup unshared)
  /\ UNCHANGED <<pc, batch, readiness, timeVars, postVars, work>>

------------------------------------------------------------------------------
(* Other threads, the kernel and the clock *)

\* post(): the push under posted_mutex_ ...
PostPushes(h) ==
  /\ h \in away
  /\ away' = away \ {h}
  /\ posted' = Append(posted, h)
  /\ waking' = waking \cup {h}
  /\ UNCHANGED <<pc, batch, ready, sockVars, timeVars, token, stopping, stopper, lifeVars>>

\* ... and then reactor_->wake().
PostWakes(h) ==
  /\ h \in waking
  /\ waking' = waking \ {h}
  /\ token' = TRUE
  /\ UNCHANGED <<pc, batch, ready, sockVars, timeVars, posted, away, stopping, stopper, lifeVars>>

StopStores ==
  /\ stopper = "idle"
  /\ stopping' = TRUE
  /\ stopper' = "wake"
  /\ UNCHANGED <<pc, batch, ready, sockVars, timeVars, posted, away, waking, token, lifeVars>>

\* Mutant: stop() does not write the eventfd.
StopForgetsWake ==
  /\ stopper = "wake"
  /\ stopper' = "done"
  /\ UNCHANGED <<pc, batch, ready, sockVars, timeVars, posted, away, waking, token, stopping, lifeVars>>

StopWakes ==
  /\ stopper = "wake"
  /\ token' = TRUE
  /\ stopper' = "done"
  /\ UNCHANGED <<pc, batch, ready, sockVars, timeVars, posted, away, waking, stopping, lifeVars>>

BecomesReady(s, d) ==
  /\ open[s]
  /\ d \notin readiness[s]
  /\ readiness' = [readiness EXCEPT ![s] = @ \cup {d}]
  /\ UNCHANGED <<pc, batch, ready, waiter, registered, interest, open, epoll, timeVars, postVars, lifeVars>>

\* Time is told apart only while a timer is set.
Tick ==
  /\ now < MaxTime
  /\ timers # {}
  /\ now' = now + 1
  /\ UNCHANGED <<pc, batch, ready, sockVars, timers, timer_now, postVars, lifeVars>>

------------------------------------------------------------------------------
LoopStep ==
  \/ TestsStopping \/ WaitReturns \/ ProcessEvent \/ ProcessFreed \/ EventsDone
  \/ FireTimer \/ TimersDone \/ DrainPosted \/ DrainDone

CoroStep(h) == CoroWatches(h) \/ CoroSleeps(h) \/ CoroOffloads(h) \/ CoroFinishes(h)

Next ==
  \/ LoopStep
  \/ \E h \in Coros : CoroStep(h) \/ PostPushes(h) \/ PostWakes(h)
  \/ StopStores \/ StopWakes
  \/ \E h \in Coros \ done : \E u \in work[h].uses : BecomesReady(u[1], u[2])
  \/ Tick

Spec == Init /\ [][Next]_vars

(* The loop's thread is scheduled, a resumed coroutine reaches its next
   suspension, of the threads that have something to post one goes on, and time
   passes. *)
Fairness ==
  /\ WF_vars(LoopStep)
  /\ WF_vars(\E h \in Coros : CoroStep(h))
  /\ WF_vars(\E h \in Coros : PostPushes(h) \/ PostWakes(h))
  /\ WF_vars(StopWakes)
  /\ WF_vars(Tick)

FairSpec == Spec /\ Fairness

------------------------------------------------------------------------------
(* Properties *)

(* The places a coroutine that has not finished can be found in. *)
Places(h) ==
  Cardinality({i \in DOMAIN ready : ready[i] = h})
    + Cardinality({i \in DOMAIN posted : posted[i] = h})
    + Cardinality({t \in timers : t[2] = h})
    + Cardinality({u \in Socks \X Dirs : waiter[u] = h})
    + (IF h \in away THEN 1 ELSE 0)
    + (IF h \in done THEN 1 ELSE 0)

(* The other pump of a splice ended first and closed a socket this one waits for. *)
CutOff(h) == \E g \in done \ {h} : \E s \in work[g].closes \cap SocksOf(h) : ~open[s]

(* A coroutine is never resumed twice, and only one thing loses it: at any time
   exactly one waiter slot, timer, queue entry or pool job refers to it, unless the
   other pump of its splice has closed a socket under it (socket.cpp:48-54 drops
   the waiters; reverse_proxy.cpp:72). *)
CoroutineInOnePlace ==
  \A h \in Coros : Places(h) = 1 \/ (Places(h) = 0 /\ CutOff(h))

(* A coroutine whose readiness epoll_wait has returned is still there to be resumed
   when process_ready_events comes to its event, although coroutines of earlier
   events have run in between: socket.hpp:12-14 says that an operation "suspends
   (registering interest with the owning io_context) instead of blocking, and resumes
   once the reactor observes readiness". *)
ObservedReadinessResumes ==
  \A i \in DOMAIN batch : \A d \in batch[i].dirs : waiter[<<batch[i].sock, d>>] # Nobody

(* Only a pump that ends frees a registration that an event of the current batch
   still refers to: whatever the other coroutines do between two events, finishing
   included, the events process_ready_events has not reached stay valid
   (io_context.cpp:100-127). *)
OnlyPumpsFreeEarly ==
  \A i \in DOMAIN batch :
    open[batch[i].sock] \/ \E g \in done : batch[i].sock \in work[g].closes

(* A coroutine that was posted, and one whose socket is ready, is resumed, however
   many posts and timers the loop serves meanwhile, unless the context is stopped or
   the other pump cuts it off: no wake() is lost between the push, the swap and
   epoll_wait (18-26, 35-42), and the kernel's interest follows the waiters (54-93). *)
WaitersAreResumed ==
  LET Due(h) == \/ h \in Range(posted)
                \/ \E u \in work[h].uses : waiter[u] = h /\ u[2] \in readiness[u[1]]
  IN  \A h \in Coros : Due(h) ~> \/ h \in Range(ready)
                                 \/ stopping \/ pc = "crashed" \/ CutOff(h)

(* stop() makes run() return (io_context.cpp:30-33): it "asks run() to return
   once it next wakes", and it does wake. *)
StopEndsLoop == stopping ~> pc \in {"returned", "crashed"}
==============================================================================
