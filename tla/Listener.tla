------------------------------ MODULE Listener ------------------------------
(***************************************************************************)
(* nhttp::server::listener and async::io_context_pool                      *)
(* (src/server/listener.cpp, src/async/io_context_pool.cpp): run() starts  *)
(* one thread per io_context and sleeps until stop(); the accept loops of  *)
(* the plain and of the TLS endpoint admit clients against one             *)
(* max_connections; every admitted client is a detached coroutine on one   *)
(* context, which first peeks or shakes hands and then runs its driver.    *)
(*                                                                         *)
(* A context's thread is sequential, so its coroutines only interleave     *)
(* with those of other contexts: the load and the fetch_add of             *)
(* active_connections_ are the two shared accesses and are two steps.      *)
(***************************************************************************)
EXTENDS Integers, Sequences, FiniteSets

CONSTANTS Clients,
          port,            \* port[k]: the endpoint client k connects to
          N,               \* io_worker_count
          MaxConnections,  \* params::max_connections
          Nobody

ASSUME ListenerAssumption ==
  /\ N \in Nat \ {0}
  /\ MaxConnections \in Nat
  /\ IsFiniteSet(Clients)
  /\ port \in [Clients -> {"plain", "tls"}]
  /\ Nobody \notin Clients

Workers == 0 .. N - 1
Ports == {"plain", "tls"}

VARIABLES distribute,     \* no SO_REUSEPORT: context 0 accepts for all
          loops,          \* loops[p]: the contexts with an accept loop for endpoint p
          bound,          \* bound[p]: what listen or listen_tls returned
          state,          \* state[k]: how far client k got
          host,           \* host[k]: the context whose socket holds k, then the one k was given to
          posted,         \* posted[w]: handed-over clients in w's posted_, in order
          active,         \* active_connections_
          next_worker,    \* next_worker_
          thread,         \* thread[w]: what the thread of context w is doing
          admitting,      \* admitting[w]: client that passed the load, not yet counted
          ctx_stopping,   \* ctx_stopping[w]: io_context::stopping_ of context w
          runner,         \* where the thread that calls run() is
          stopper,        \* where the thread that calls stop() is
          stop_requested  \* stop_requested_

bindVars == <<distribute, loops, bound>>
connVars == <<state, host, posted, active, next_worker, admitting>>
ctrlVars == <<runner, stopper, stop_requested>>
vars == <<connVars, thread, ctx_stopping, ctrlVars, bindVars>>

Init ==
  /\ distribute \in BOOLEAN
  /\ loops = [p \in Ports |-> {}]
  /\ bound = [p \in Ports |-> "not asked"]
  /\ state = [k \in Clients |-> "away"]
  /\ host = [k \in Clients |-> Nobody]
  /\ posted = [w \in Workers |-> <<>>]
  /\ active = 0
  /\ next_worker = 0
  /\ thread = [w \in Workers |-> "parked"]
  /\ admitting = [w \in Workers |-> Nobody]
  /\ ctx_stopping = [w \in Workers |-> FALSE]
  /\ runner = "idle"
  /\ stopper = "idle"
  /\ stop_requested = FALSE

------------------------------------------------------------------------------
(* listen, listen_tls: "call before run()" *)

\* A socket bound and an accept loop started per context, until one of them
\* cannot be: the loops started before stay, and the answer is false.
StartsLoops(p, n) ==
  /\ runner = "idle"
  /\ bound[p] = "not asked"
  /\ loops' = [loops EXCEPT ![p] = 0 .. n - 1]
  /\ bound' = [bound EXCEPT ![p] = IF n = IF distribute THEN 1 ELSE N THEN "bound" ELSE "failed"]
  /\ UNCHANGED <<connVars, thread, ctx_stopping, ctrlVars, distribute>>

Listen == \E n \in 0 .. (IF distribute THEN 1 ELSE N) : StartsLoops("plain", n)

\* n = 0 is also the certificate or key that does not load.
ListenTls == \E n \in 0 .. (IF distribute THEN 1 ELSE N) : StartsLoops("tls", n)

------------------------------------------------------------------------------
(* The peers *)

\* The kernel puts the connection in the backlog of one of the endpoint's sockets.
ClientConnects(k) ==
  /\ state[k] = "away"
  /\ \E w \in loops[port[k]] : host' = [host EXCEPT ![k] = w]
  /\ state' = [state EXCEPT ![k] = "backlog"]
  /\ UNCHANGED <<posted, active, next_worker, admitting, thread, ctx_stopping, ctrlVars, bindVars>>

\* The peer resets before the connection was accepted: accept(2) reports it.
ClientAborts(k) ==
  /\ state[k] = "backlog"
  /\ state' = [state EXCEPT ![k] = "aborted"]
  /\ UNCHANGED <<host, posted, active, next_worker, admitting, thread, ctx_stopping, ctrlVars, bindVars>>

------------------------------------------------------------------------------
(* accept_loop, dispatch_accepted, handle_connection *)

\* The load of active_connections_ and what follows it on this thread.
Admission(w, k) ==
  IF active >= MaxConnections
    THEN /\ state' = [state EXCEPT ![k] = "rejected"]
         /\ UNCHANGED <<admitting, thread>>
    ELSE /\ state' = [state EXCEPT ![k] = "admitted"]
         /\ admitting' = [admitting EXCEPT ![w] = k]
         /\ thread' = [thread EXCEPT ![w] = "admit"]

AcceptOwn(w, k) ==
  /\ thread[w] = "loop"
  /\ ~distribute
  /\ state[k] = "backlog" /\ host[k] = w
  /\ Admission(w, k)
  /\ UNCHANGED <<host, posted, active, next_worker, ctx_stopping, ctrlVars, bindVars>>

\* pick_worker_round_robin, then dispatch_accepted up to its schedule().
AcceptAndHandOver(w, k) ==
  /\ thread[w] = "loop"
  /\ distribute
  /\ state[k] = "backlog" /\ host[k] = w
  /\ LET target == next_worker % N
     IN  /\ host' = [host EXCEPT ![k] = target]
         /\ posted' = [posted EXCEPT ![target] = Append(@, k)]
  /\ next_worker' = next_worker + 1
  /\ state' = [state EXCEPT ![k] = "handed"]
  /\ UNCHANGED <<active, admitting, thread, ctx_stopping, ctrlVars, bindVars>>

AcceptLoop(w, k) == port[k] = "plain" /\ (AcceptOwn(w, k) \/ AcceptAndHandOver(w, k))
AcceptLoopTls(w, k) == port[k] = "tls" /\ (AcceptOwn(w, k) \/ AcceptAndHandOver(w, k))

\* Mutant: drain_posted drops the rest of the queue with the first entry.
TakeDropsOthers(w) ==
  /\ thread[w] = "loop"
  /\ posted[w] # <<>>
  /\ Admission(w, Head(posted[w]))
  /\ posted' = [posted EXCEPT ![w] = <<>>]
  /\ UNCHANGED <<host, active, next_worker, ctx_stopping, ctrlVars, bindVars>>

\* dispatch_accepted resumed by drain_posted on the target's thread.
TakeHandedOver(w) ==
  /\ thread[w] = "loop"
  /\ posted[w] # <<>>
  /\ Admission(w, Head(posted[w]))
  /\ posted' = [posted EXCEPT ![w] = Tail(@)]
  /\ UNCHANGED <<host, active, next_worker, ctx_stopping, ctrlVars, bindVars>>

\* fetch_add, and handle_connection up to its first suspension.
CountIn(w) ==
  /\ thread[w] = "admit"
  /\ active' = active + 1
  /\ state' = [state EXCEPT ![admitting[w]] = "greeting"]
  /\ admitting' = [admitting EXCEPT ![w] = Nobody]
  /\ thread' = [thread EXCEPT ![w] = "loop"]
  /\ UNCHANGED <<host, posted, next_worker, ctx_stopping, ctrlVars, bindVars>>

Driving == {"h1", "h2"}
Live == {"greeting"} \cup Driving

\* The first bytes chose the driver: "PRI " is HTTP/2; anything else, and a peer
\* that closed before four bytes came, is left to the HTTP/1 parser.
Peeks(w, k) ==
  /\ thread[w] = "loop"
  /\ state[k] = "greeting" /\ host[k] = w /\ port[k] = "plain"
  /\ \E d \in Driving : state' = [state EXCEPT ![k] = d]
  /\ UNCHANGED <<host, posted, active, next_worker, admitting, thread, ctx_stopping, ctrlVars, bindVars>>

\* tls_stream::accept succeeded.
Handshakes(w, k) ==
  /\ thread[w] = "loop"
  /\ state[k] = "greeting" /\ host[k] = w /\ port[k] = "tls"
  /\ state' = [state EXCEPT ![k] = "h1"]
  /\ UNCHANGED <<host, posted, active, next_worker, admitting, thread, ctx_stopping, ctrlVars, bindVars>>

\* Mutant: only a connection that ran a driver is subtracted.
CountsServed(k) == IF state[k] \in Driving THEN 1 ELSE 0

\* fetch_sub, after the try block and on every path out of it.
CountsOut(k) == 1

\* handle_connection and handle_connection_tls end, after the driver, after a
\* handshake that failed, or through their catch (...).
ConnectionEnds(w, k) ==
  /\ thread[w] = "loop"
  /\ state[k] \in Live /\ host[k] = w
  /\ active' = active - CountsOut(k)
  /\ state' = [state EXCEPT ![k] = "closed"]
  /\ UNCHANGED <<host, posted, next_worker, admitting, thread, ctx_stopping, ctrlVars, bindVars>>

\* async_socket::accept throws what is neither EAGAIN nor EINTR; accept_loop is
\* a detached_task, whose unhandled_exception is std::terminate: no thread of
\* the process takes another step.
AcceptThrows(w, k) ==
  /\ thread[w] = "loop"
  /\ state[k] = "aborted" /\ host[k] = w
  /\ thread' = [v \in Workers |-> "terminated"]
  /\ runner' = "terminated"
  /\ stopper' = "terminated"
  /\ UNCHANGED <<connVars, ctx_stopping, stop_requested, bindVars>>

\* io_context::run sees stopping_ at the top of its loop.
ContextReturns(w) ==
  /\ thread[w] = "loop"
  /\ ctx_stopping[w]
  /\ thread' = [thread EXCEPT ![w] = "exited"]
  /\ UNCHANGED <<connVars, ctx_stopping, ctrlVars, bindVars>>

------------------------------------------------------------------------------
(* run and stop *)

\* pool_.start(), then the lock of run_mutex_, which only this thread takes.
RunStarts ==
  /\ runner = "idle"
  /\ thread' = [w \in Workers |-> "loop"]
  /\ runner' = "test"
  /\ UNCHANGED <<connVars, ctx_stopping, stopper, stop_requested, bindVars>>

\* The predicate of run_cv_.wait.
RunTests ==
  /\ runner = "test"
  /\ runner' = IF stop_requested THEN "stopPool" ELSE "block"
  /\ UNCHANGED <<connVars, thread, ctx_stopping, stopper, stop_requested, bindVars>>

\* Between the predicate and this step a notify_all finds nobody waiting.
RunBlocks ==
  /\ runner = "block"
  /\ runner' = "blocked"
  /\ UNCHANGED <<connVars, thread, ctx_stopping, stopper, stop_requested, bindVars>>

RunWakesSpuriously ==
  /\ runner = "blocked"
  /\ runner' = "test"
  /\ UNCHANGED <<connVars, thread, ctx_stopping, stopper, stop_requested, bindVars>>

\* io_context_pool::stop: stop() on every context, then the joins.
RunStopsPool ==
  /\ runner = "stopPool"
  /\ ctx_stopping' = [w \in Workers |-> TRUE]
  /\ runner' = "join"
  /\ UNCHANGED <<connVars, thread, stopper, stop_requested, bindVars>>

RunReturns ==
  /\ runner = "join"
  /\ \A w \in Workers : thread[w] = "exited"
  /\ runner' = "returned"
  /\ UNCHANGED <<connVars, thread, ctx_stopping, stopper, stop_requested, bindVars>>

StopStores ==
  /\ stopper = "idle"
  /\ stop_requested' = TRUE
  /\ stopper' = "notify"
  /\ UNCHANGED <<connVars, thread, ctx_stopping, runner, bindVars>>

\* Mutant: stop() only sets the flag.
StopForgetsNotify ==
  /\ stopper = "notify"
  /\ stopper' = "done"
  /\ UNCHANGED <<connVars, thread, ctx_stopping, runner, stop_requested, bindVars>>

StopNotifies ==
  /\ stopper = "notify"
  /\ runner' = IF runner = "blocked" THEN "test" ELSE runner
  /\ stopper' = "done"
  /\ UNCHANGED <<connVars, thread, ctx_stopping, stop_requested, bindVars>>

------------------------------------------------------------------------------
ContextStep(w) ==
  \/ \E k \in Clients : AcceptLoop(w, k) \/ AcceptLoopTls(w, k) \/ AcceptThrows(w, k)
                        \/ Peeks(w, k) \/ Handshakes(w, k) \/ ConnectionEnds(w, k)
  \/ TakeHandedOver(w)
  \/ CountIn(w)
  \/ ContextReturns(w)

RunStep == RunTests \/ RunBlocks \/ RunStopsPool \/ RunReturns

Next ==
  \/ Listen \/ ListenTls
  \/ \E k \in Clients : ClientConnects(k) \/ ClientAborts(k)
  \/ \E w \in Workers : ContextStep(w)
  \/ RunStarts \/ RunStep \/ RunWakesSpuriously
  \/ StopStores \/ StopNotifies

Spec == Init /\ [][Next]_vars

(* The threads of the contexts, of run() and of stop() are scheduled.  Every
   round of io_context::run drains what was posted and tests stopping_, so
   neither waits for ever behind clients that keep coming. *)
Fairness ==
  /\ \A w \in Workers :
       /\ WF_vars(CountIn(w))
       /\ SF_vars(TakeHandedOver(w))
       /\ SF_vars(ContextReturns(w))
  /\ WF_vars(RunStep)
  /\ WF_vars(StopNotifies)

FairSpec == Spec /\ Fairness

------------------------------------------------------------------------------
(* Properties *)

(* active_connections_ is exact: the relaxed fetch_add (214, 237, 297, 317) and
   fetch_sub (283, 342) of all contexts and both endpoints together count the
   connections being served, failed handshakes included.  Since the check of
   max_connections and the fetch_add are two accesses, the limit can be overrun,
   but by less than one client per further context. *)
OverrunIsBounded ==
  /\ active = Cardinality({k \in Clients : state[k] \in Live})
  /\ active + Cardinality({w \in Workers : thread[w] = "admit"}) <= MaxConnections + N - 1

(* A client handed to another context is taken up there, however busy that
   context is, unless the context is told to stop first (204-209). *)
HandedOverIsTaken ==
  \A k \in Clients :
    state[k] = "handed" ~> \/ state[k] # "handed"
                           \/ runner \in {"join", "returned", "terminated"}

(* A stop() whose notify_all comes after run() has blocked ends run()
   (listener.cpp:163-175), whatever the clients do. *)
StopOfBlockedRunWorks ==
  runner = "blocked" /\ stopper = "notify" ~> runner \in {"returned", "terminated"}

(* listener.hpp:71, as the comment states it: stop() "asks run() to return". *)
StopEndsRun == stop_requested /\ runner # "idle" ~> runner \in {"returned", "terminated"}
==============================================================================
