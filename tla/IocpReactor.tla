---------------------------- MODULE IocpReactor ----------------------------
(***************************************************************************)
(* nhttp::platform::iocp_reactor (src/platform/win32/reactor.cpp) under    *)
(* the io_context that drives it: epoll's readiness on top of a completion *)
(* port.  A socket's socket_state owns an event object and a one-shot wait *)
(* of the Win32 thread pool, whose callback posts the state's address to   *)
(* the port; the loop dequeues it and asks the socket what happened.       *)
(*                                                                         *)
(* The loop thread takes every step except the network's, the thread       *)
(* pool's, TransmitFile's and those of threads that call wake().           *)
(* A socket_state is a number, new for each add(), so that a freed state   *)
(* is told from its successor.                                             *)
(***************************************************************************)
EXTENDS Integers, Sequences, Functions

CONSTANTS Sockets,
          Serial,       \* the sockets only one coroutine works on, as an HTTP/1 connection's
          Ways,         \* what coroutines wait for: {"r"}, {"w"} or both
          MaxEvents,    \* max_events of wait()
          MaxStates,    \* bound: socket_states made
          MaxQueued     \* bound: completions in the port

ASSUME SerialAssumption == Serial \subseteq Sockets

VARIABLES usable,       \* usable[s]: directions in which s would not block
          waiters,      \* waiters[s]: directions a coroutine waits for
          st,           \* st[s]: states_[s], or Gone
          statesMade,   \* socket_states made so far
          cport,        \* the completion port's queue: a state, WakeEntry or OpEntry
          looping,      \* in wait(): the "first" call of GetQueuedCompletionStatus or "draining";
                        \* "reported": returned with events; "out": coroutines run
          events,       \* out_events not yet processed
          transmit,     \* the TransmitFile of the moment
          freedUsed     \* a freed socket_state was dereferenced

iocpVars == <<usable, waiters, st, statesMade, cport, looping, events, transmit, freedUsed>>

Gone == [id |-> 0]
WakeEntry == -1      \* told by &wake_ov_
OpEntry == -2        \* key 0, and the overlapped_op of the TransmitFile

IocpInit ==
  /\ usable = [s \in Sockets |-> {}]
  /\ waiters = [s \in Sockets |-> {}]
  /\ st = [s \in Sockets |-> Gone]
  /\ statesMade = 0
  /\ cport = <<>>
  /\ looping = "out"
  /\ events = <<>>
  /\ transmit = "none"
  /\ freedUsed = FALSE

------------------------------------------------------------------------------
(* Windows *)

\* A condition in the event mask comes true: recorded, and the event is set.
BecomesUsable(s, d) ==
  /\ d \notin usable[s]
  /\ usable' = [usable EXCEPT ![s] = @ \cup {d}]
  /\ st' = IF st[s] # Gone /\ d \in st[s].want
             THEN [st EXCEPT ![s].bits = @ \cup {d}, ![s].event = TRUE]
             ELSE st
  /\ UNCHANGED <<waiters, statesMade, cport, looping, events, transmit, freedUsed>>

\* on_ready.  UnregisterWaitEx waits for a callback that has begun, so for the
\* loop thread a wait has either fired and posted or will not fire.
OnReady(s) ==
  /\ st[s] # Gone /\ st[s].wait /\ st[s].event
  /\ Len(cport) < MaxQueued
  /\ cport' = Append(cport, st[s].id)
  /\ st' = [st EXCEPT ![s].wait = FALSE]   \* WT_EXECUTEONLYONCE
  /\ UNCHANGED <<usable, waiters, statesMade, looping, events, transmit, freedUsed>>

TransmitCompletes ==
  /\ transmit = "pending"
  /\ Len(cport) < MaxQueued
  /\ cport' = Append(cport, OpEntry)
  /\ transmit' = "queued"
  /\ UNCHANGED <<usable, waiters, st, statesMade, looping, events, freedUsed>>

Wake ==
  /\ WakeEntry \notin Range(cport) /\ Len(cport) < MaxQueued
  /\ cport' = Append(cport, WakeEntry)
  /\ UNCHANGED <<usable, waiters, st, statesMade, looping, events, transmit, freedUsed>>

------------------------------------------------------------------------------
(* arm, and io_context::update_interest and forget with add, modify, remove *)

\* WSAEventSelect clears the record and records what is true already; the event
\* object stays set if it was.  Then a new one-shot wait.
Arm(x, s, want) ==
  [id |-> x.id, want |-> want, bits |-> usable[s] \cap want,
   event |-> x.event \/ usable[s] \cap want # {}, wait |-> TRUE]

NewState(n) == [id |-> n, want |-> {}, bits |-> {}, event |-> FALSE, wait |-> FALSE]

Interest(s, want) ==
  /\ waiters' = [waiters EXCEPT ![s] = want]
  /\ IF st[s] = Gone /\ want # {}
       THEN /\ st' = [st EXCEPT ![s] = Arm(NewState(statesMade + 1), s, want)]
            /\ statesMade' = statesMade + 1
       ELSE /\ st' = [st EXCEPT ![s] = IF want = {} THEN Gone
                                       ELSE IF want = waiters[s] THEN @
                                       ELSE Arm(@, s, want)]
            /\ UNCHANGED statesMade

------------------------------------------------------------------------------
(* What the coroutines do while the loop thread is outside wait() *)

\* A call would block and suspends; the socket may have become usable since.
CoroutineWaits(s, d) ==
  /\ looping = "out" /\ ~freedUsed
  /\ d \notin waiters[s]
  /\ s \in Serial => waiters[s] = {}
  /\ statesMade < MaxStates
  /\ Interest(s, waiters[s] \cup {d})
  /\ UNCHANGED <<usable, cport, looping, events, transmit, freedUsed>>

\* A call that does not block uses the direction up.
CoroutineUses(s, d) ==
  /\ looping = "out" /\ ~freedUsed
  /\ d \in usable[s] \ waiters[s]
  /\ s \in Serial => waiters[s] = {}
  /\ usable' = [usable EXCEPT ![s] = @ \ {d}]
  /\ UNCHANGED <<waiters, st, statesMade, cport, looping, events, transmit, freedUsed>>

\* async_socket::close from another coroutine: forget() drops the waiters.  An
\* event that wait() returned for the socket finds none (that its registration is
\* freed memory is the subject of IoContext).
SocketCloses(s) ==
  /\ looping = "out" /\ ~freedUsed
  /\ waiters[s] # {} /\ s \notin Serial
  /\ Interest(s, {})
  /\ events' = SelectSeq(events, LAMBDA e : e.sock # s)
  /\ UNCHANGED <<usable, cport, looping, transmit, freedUsed>>

\* send_file: TransmitFile starts, and a completion will be queued.
TransmitFile ==
  /\ looping = "out" /\ ~freedUsed
  /\ transmit = "none"
  /\ transmit' = "pending"
  /\ UNCHANGED <<usable, waiters, st, statesMade, cport, looping, events, freedUsed>>

------------------------------------------------------------------------------
(* wait, and process_ready_events *)

WaitEnters ==
  /\ looping = "out" /\ ~freedUsed
  /\ events = <<>>
  /\ looping' = "first"
  /\ UNCHANGED <<usable, waiters, st, statesMade, cport, events, transmit, freedUsed>>

Owner(id) == {s \in Sockets : st[s].id = id}

\* Mutant: FD_WRITE is missing from the bits that make a socket writable.
ReportsReads(s) ==
  IF "r" \notin st[s].bits \cap st[s].want THEN events
  ELSE Append(events, [sock |-> s, ready |-> {"r"}])

Reports(s) ==
  IF st[s].bits \cap st[s].want = {} THEN events
  ELSE Append(events, [sock |-> s, ready |-> st[s].bits \cap st[s].want])

\* WSAEnumNetworkEvents takes the record and resets the event.
Dequeue ==
  /\ looping \in {"first", "draining"} /\ ~freedUsed
  /\ cport # <<>> /\ Len(events) < MaxEvents
  /\ cport' = Tail(cport)
  /\ looping' = "draining"
  /\ LET key == Head(cport) IN
     \/ key = WakeEntry /\ UNCHANGED <<st, events, transmit, freedUsed>>
     \/ key = OpEntry /\ transmit' = "collected" /\ UNCHANGED <<st, events, freedUsed>>
     \/ /\ key > 0 /\ Owner(key) = {}
        /\ freedUsed' = TRUE
        /\ UNCHANGED <<st, events, transmit>>
     \/ /\ key > 0
        /\ \E s \in Owner(key) :
             /\ st' = [st EXCEPT ![s].bits = {}, ![s].event = FALSE]
             /\ events' = Reports(s)
        /\ UNCHANGED <<transmit, freedUsed>>
  /\ UNCHANGED <<usable, waiters, statesMade>>

\* The queue is empty, the time is up or the array is full; collected
\* TransmitFile completions are resumed before wait() returns, other coroutines only
\* from its events on.
PortReturns ==
  /\ looping \in {"first", "draining"} /\ ~freedUsed
  /\ cport = <<>> \/ Len(events) = MaxEvents
  /\ looping' = IF events # <<>> /\ transmit # "collected" THEN "reported" ELSE "out"
  /\ transmit' = IF transmit = "collected" THEN "none" ELSE transmit
  /\ UNCHANGED <<usable, waiters, st, statesMade, cport, events, freedUsed>>

\* The waiters are taken out and the interest updated before they are resumed.
ProcessReported ==
  /\ looping \in {"reported", "out"} /\ ~freedUsed
  /\ events # <<>>
  /\ Interest(Head(events).sock, waiters[Head(events).sock] \ Head(events).ready)
  /\ events' = Tail(events)
  /\ looping' = "out"
  /\ UNCHANGED <<usable, cport, transmit, freedUsed>>

IocpNext ==
  \/ \E s \in Sockets : OnReady(s) \/ SocketCloses(s)
  \/ \E s \in Sockets, d \in Ways : BecomesUsable(s, d) \/ CoroutineWaits(s, d) \/ CoroutineUses(s, d)
  \/ TransmitCompletes \/ Wake \/ TransmitFile
  \/ WaitEnters \/ Dequeue \/ PortReturns \/ ProcessReported

IocpSpec == IocpInit /\ [][IocpNext]_iocpVars

------------------------------------------------------------------------------
(* Properties *)

\* For a direction some coroutine waits for and the socket is usable in, either an
\* event wait() has returned resumes a waiter of the socket and so arms it anew, or
\* the direction is recorded with a wait still to fire or with a completion of the
\* socket's present state queued.
ReadinessIsKept(s) ==
  ~freedUsed => \A d \in waiters[s] \cap usable[s] :
    \/ \E i \in DOMAIN events : events[i].sock = s /\ events[i].ready \cap waiters[s] # {}
    \/ d \in st[s].bits /\ ((st[s].event /\ st[s].wait) \/ st[s].id \in Range(cport))

(* On a socket one coroutine works on, readiness is never lost between Winsock's
   record, which reading clears, and the one-shot waits (reactor.cpp:143-239),
   whatever the sockets that readers and writers share do to the port meanwhile. *)
SerialReadinessReachesTheLoop == \A s \in Serial : ReadinessIsKept(s)

(* The same of every socket: reactor.cpp:46-50 relies on FD_WRITE, which "fires when
   send-buffer space frees up", being reported "reliably, because `write_some`'s
   retry loop only ever arms this right after a real send() returned
   WSAEWOULDBLOCK". *)
ReadinessReachesTheLoop == \A s \in Sockets : ReadinessIsKept(s)
==============================================================================
