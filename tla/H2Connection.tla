---------------------------- MODULE H2Connection ----------------------------
(***************************************************************************)
(* nhttp::server::connection_h2 (src/server/connection_h2.cpp): one        *)
(* coroutine, run(), reads and handles the peer's frames, and every        *)
(* complete request is answered by a detached coroutine of its own.  All   *)
(* of them live on one thread and share the stream table, the send         *)
(* windows and the writer_lock around the wire.                            *)
(*                                                                         *)
(* A coroutine that resumes another one runs it, nested, up to its next    *)
(* suspension: stack holds the coroutines that are in the middle of a      *)
(* turn, the running one first.  While it is empty the io_context may      *)
(* resume anyone whose event has happened.                                 *)
(*                                                                         *)
(* Sizes are in units.  Stream objects are numbered as HEADERS frames      *)
(* create them and responders as dispatch_stream starts them; 0 is the     *)
(* coroutine run(), stream 0, or nothing.                                  *)
(***************************************************************************)
EXTENDS Integers, Sequences, FiniteSets, FiniteSetsExt

CONSTANTS Ids,            \* stream identifiers
          Sessions,       \* what peers may send, and what handlers answer
          MaxFrames,      \* bound: how many frames a peer sends
          InitialWindow,  \* send_window and connection_send_window_ at the start
          MaxFrameSize,   \* peer_max_frame_size_, which a peer's SETTINGS may have set
          MaxBody         \* max_request_body_size_

ASSUME H2Assumption ==
  /\ Ids \subseteq Nat \ {0}
  /\ IsFiniteSet(Ids) /\ Ids # {}
  /\ {MaxFrames, InitialWindow, MaxBody} \subseteq Nat
  /\ MaxFrameSize \in Nat \ {0}

(* A frame of the peer.  n is the length of DATA, the increment of
   WINDOW_UPDATE or the initial window size in SETTINGS; ok: the payload has
   the right shape; hpack: the header block it completes can be decoded. *)
FrameType == {"SETTINGS", "HEADERS", "CONTINUATION", "DATA", "WINDOW_UPDATE", "RST_STREAM",
              "PING", "GOAWAY"}
Frame == [type : FrameType, id : Ids \cup {0}, n : Nat, end_stream : BOOLEAN,
          end_headers : BOOLEAN, ack : BOOLEAN, ok : BOOLEAN, hpack : BOOLEAN]

(* A session: the frames the peer chooses from and how many it sends; whether
   it keeps to the stream states of RFC 9113 and its header blocks can be
   decoded; the lengths of the bodies that handlers return. *)
ASSUME SessionAssumption ==
  \A s \in Sessions :
    /\ s.frames \subseteq Frame
    /\ s.limit \in 0 .. MaxFrames
    /\ s.conforming \in BOOLEAN
    /\ s.bodies \subseteq Nat

PeerFrames == UNION {s.frames : s \in Sessions}
Bodies == UNION {s.bodies : s \in Sessions}

Reader == 0
Numbers == 1 .. MaxFrames
Coros == 0 .. MaxFrames

VARIABLES
  obj,         \* obj[o]: the h2_stream that was created o-th
  streams,     \* streams_: which object an identifier has now, 0 for none
  window_waiter,  \* window_waiter[o]: the responder suspended on it, 0 for none
  expecting_continuation, last_header_stream_id,
  connection_send_window, peer_initial_window_size,
  locked, waiters,  \* write_lock_
  stack, pc,
  frame,       \* the frame run() is handling
  to_resume,   \* responders handle_window_update has yet to resume
  held,        \* the object handle_data is working on
  serves,      \* serves[r]: the object responder r answers, 0: not started
  left,        \* left[r]: body units responder r has still to send
  sending,     \* sending[c]: the frame coroutine c passed to send_frame
  next,        \* next[c]: where c goes on when send_frame returns
  broken,      \* the peer has reset the connection
  peer,        \* the session, and history of what the peer sent on each stream
  wire         \* history of what was written on each stream

streamVars == <<obj, streams, window_waiter>>
headerVars == <<expecting_continuation, last_header_stream_id>>
windowVars == <<connection_send_window, peer_initial_window_size>>
lockVars == <<locked, waiters>>
sendVars == <<sending, next>>
vars == <<streamVars, headerVars, windowVars, lockVars, stack, pc, frame, to_resume, held,
          serves, left, sendVars, broken, peer, wire>>

Started == {r \in Numbers : serves[r] # 0}
StreamOf(r) == obj[serves[r]]

NoFrame == [type |-> "SETTINGS", id |-> 0, n |-> 0, end_stream |-> FALSE, end_headers |-> FALSE,
            ack |-> FALSE, ok |-> TRUE, hpack |-> TRUE]
OutFrame(type, id, n, end_stream) == [type |-> type, id |-> id, n |-> n, end_stream |-> end_stream]

Init ==
  /\ obj = <<>>
  /\ streams = [i \in Ids |-> 0]
  /\ window_waiter = [o \in Numbers |-> 0]
  /\ expecting_continuation = FALSE
  /\ last_header_stream_id = 0
  /\ connection_send_window = InitialWindow
  /\ peer_initial_window_size = InitialWindow
  /\ locked = FALSE
  /\ waiters = <<>>
  /\ stack = <<>>
  /\ pc = [c \in Coros |-> IF c = Reader THEN "preface" ELSE "none"]
  /\ frame = NoFrame
  /\ to_resume = {}
  /\ held = 0
  /\ serves = [r \in Numbers |-> 0]
  /\ left = [r \in Numbers |-> 0]
  /\ sending = [c \in Coros |-> OutFrame("SETTINGS", 0, 0, FALSE)]
  /\ next = [c \in Coros |-> "read"]
  /\ broken = FALSE
  /\ peer \in [session : Sessions, frames : {0}, granted : {InitialWindow},
               stream : {[i \in Ids |-> [opened |-> FALSE, ended |-> FALSE, reset |-> FALSE,
                                         body |-> 0, granted |-> 0]]}]
  /\ wire = [i \in Ids |-> [headers |-> 0, data |-> 0, ended |-> 0]]

------------------------------------------------------------------------------
(* Turns *)

\* When run() has returned the connection object is gone; what a responder
\* would still do on it is outside the model.
Alive == pc[Reader] # "returned"
Running(c) == Alive /\ stack # <<>> /\ Head(stack) = c

\* c is running, or nobody is and the io_context resumes c.
TakesTurn(c) == Alive /\ (stack # <<>> => Head(stack) = c)
Turn(c) == IF stack = <<>> THEN <<c>> ELSE stack

Goto(c, label) == pc' = [pc EXCEPT ![c] = label]

\* co_await send_frame(f): the label is where the caller goes on afterwards.
Sends(c, f, label) ==
  /\ sending' = [sending EXCEPT ![c] = f]
  /\ next' = [next EXCEPT ![c] = label]
  /\ Goto(c, "lock")

Suspends(c, label) ==
  /\ Goto(c, label)
  /\ stack' = Tail(stack)

------------------------------------------------------------------------------
(* send_frame and writer_lock *)

Lock(c) ==
  /\ Running(c)
  /\ pc[c] = "lock"
  /\ ~locked
  /\ locked' = TRUE
  /\ Goto(c, "write")
  /\ UNCHANGED <<streamVars, headerVars, windowVars, waiters, stack, frame, to_resume, held,
                 serves, left, sendVars, broken, peer, wire>>

LockQueues(c) ==
  /\ Running(c)
  /\ pc[c] = "lock"
  /\ locked
  /\ waiters' = Append(waiters, c)
  /\ Suspends(c, "queued")
  /\ UNCHANGED <<streamVars, headerVars, windowVars, locked, frame, to_resume, held, serves,
                 left, sendVars, broken, peer, wire>>

Written(f) ==
  IF f.id = 0
    THEN wire
    ELSE [wire EXCEPT ![f.id] = [headers |-> @.headers + (IF f.type = "HEADERS" THEN 1 ELSE 0),
                                 data |-> @.data + (IF f.type = "DATA" THEN f.n ELSE 0),
                                 ended |-> @.ended + (IF f.end_stream THEN 1 ELSE 0)]]

\* The last wire_->write of the loop took the rest of the frame.
WriteCompletes(c) ==
  /\ Running(c)
  /\ pc[c] = "write"
  /\ ~broken
  /\ wire' = Written(sending[c])
  /\ Goto(c, "unlock")
  /\ UNCHANGED <<streamVars, headerVars, windowVars, lockVars, stack, frame, to_resume, held,
                 serves, left, sendVars, broken, peer>>

\* Part of the frame is still to be written when the socket would block.
WriteBlocks(c) ==
  /\ Running(c)
  /\ pc[c] = "write"
  /\ ~broken
  /\ Suspends(c, "blocked")
  /\ UNCHANGED <<streamVars, headerVars, windowVars, lockVars, frame, to_resume, held, serves,
                 left, sendVars, broken, peer, wire>>

WriteResumes(c) ==
  /\ Alive
  /\ stack = <<>>
  /\ pc[c] = "blocked"
  /\ stack' = <<c>>
  /\ Goto(c, "write")
  /\ UNCHANGED <<streamVars, headerVars, windowVars, lockVars, frame, to_resume, held, serves,
                 left, sendVars, broken, peer, wire>>

\* The exception leaves send_frame with write_lock_ still locked; it ends the
\* responder through the catch of dispatch_stream, or run() itself.
WriteThrows(c) ==
  /\ Running(c)
  /\ pc[c] = "write"
  /\ broken
  /\ Goto(c, IF c = Reader THEN "leaving" ELSE "erase")
  /\ UNCHANGED <<streamVars, headerVars, windowVars, lockVars, stack, frame, to_resume, held,
                 serves, left, sendVars, broken, peer, wire>>

\* Mutant: the lock is opened although it is handed to a waiter.
UnlockOpensAndHandsOver(c) ==
  /\ Running(c)
  /\ pc[c] = "unlock"
  /\ locked' = FALSE
  /\ waiters' = IF waiters = <<>> THEN <<>> ELSE Tail(waiters)
  /\ IF waiters = <<>>
       THEN Goto(c, next[c]) /\ UNCHANGED stack
       ELSE /\ pc' = [pc EXCEPT ![c] = next[c], ![Head(waiters)] = "write"]
            /\ stack' = <<Head(waiters)>> \o stack
  /\ UNCHANGED <<streamVars, headerVars, windowVars, frame, to_resume, held, serves, left,
                 sendVars, broken, peer, wire>>

\* Mutant: the lock is opened and nobody looks at the waiters.
UnlockForgetsWaiters(c) ==
  /\ Running(c)
  /\ pc[c] = "unlock"
  /\ locked' = FALSE
  /\ Goto(c, next[c])
  /\ UNCHANGED <<streamVars, headerVars, windowVars, waiters, stack, frame, to_resume, held, serves,
                 left, sendVars, broken, peer, wire>>

\* unlock hands the lock to the first waiter and runs it before it returns.
Unlock(c) ==
  /\ Running(c)
  /\ pc[c] = "unlock"
  /\ IF waiters = <<>>
       THEN /\ locked' = FALSE
            /\ Goto(c, next[c])
            /\ UNCHANGED <<waiters, stack>>
       ELSE /\ waiters' = Tail(waiters)
            /\ pc' = [pc EXCEPT ![c] = next[c], ![Head(waiters)] = "write"]
            /\ stack' = <<Head(waiters)>> \o stack
            /\ UNCHANGED locked
  /\ UNCHANGED <<streamVars, headerVars, windowVars, frame, to_resume, held, serves, left,
                 sendVars, broken, peer, wire>>

SendStep(c) ==
  \/ Lock(c) \/ LockQueues(c) \/ WriteCompletes(c) \/ WriteBlocks(c) \/ WriteResumes(c)
  \/ WriteThrows(c) \/ Unlock(c)

------------------------------------------------------------------------------
(* What the peer may send *)

Known(id) == id \in Ids /\ streams[id] # 0

\* A peer that keeps to the stream states, whose header blocks can be decoded and
\* that sends no trailers: a second HEADERS frame on a stream replaces the stream
\* object in HandleHeaders, and the body received so far goes with the old one.
Legal(f) ==
  LET s == peer.stream[f.id]
  IN  IF expecting_continuation
        THEN f.type = "CONTINUATION" /\ f.id = last_header_stream_id /\ f.hpack
        ELSE CASE f.type = "HEADERS" -> /\ f.id # 0 /\ f.ok /\ f.hpack
                                        /\ ~s.opened
               [] f.type = "CONTINUATION" -> FALSE
               [] f.type = "DATA" -> f.id # 0 /\ f.ok /\ s.opened /\ ~s.ended /\ ~s.reset
                                     /\ s.body + f.n <= MaxBody
               [] f.type = "RST_STREAM" -> f.id # 0 /\ s.opened /\ ~s.reset
               [] f.type = "WINDOW_UPDATE" -> f.ok /\ (f.id # 0 => s.opened)
               [] OTHER -> f.ok /\ f.id = 0

PeerStream(f, s) ==
  [opened |-> s.opened \/ f.type = "HEADERS",
   ended |-> s.ended \/ (f.type \in {"HEADERS", "DATA"} /\ f.end_stream),
   reset |-> s.reset \/ f.type = "RST_STREAM",
   body |-> s.body + (IF f.type = "DATA" THEN f.n ELSE 0),
   granted |-> (IF f.type = "HEADERS" /\ ~s.opened THEN peer_initial_window_size ELSE s.granted)
               + (IF f.type = "WINDOW_UPDATE" THEN f.n ELSE 0)]

Receives(f) ==
  /\ pc[Reader] = "read"
  /\ TakesTurn(Reader)
  /\ ~broken
  /\ f \in peer.session.frames
  /\ peer.frames < peer.session.limit
  /\ peer.session.conforming => Legal(f)
  /\ peer' = [peer EXCEPT
       !.frames = @ + 1,
       !.granted = @ + (IF f.type = "WINDOW_UPDATE" /\ f.id = 0 THEN f.n ELSE 0),
       !.stream = [i \in Ids |-> IF i = f.id THEN PeerStream(f, @[i]) ELSE @[i]]]

------------------------------------------------------------------------------
(* run() and the frame handlers *)

PrefaceArrives ==
  /\ pc[Reader] = "preface"
  /\ TakesTurn(Reader)
  /\ stack' = Turn(Reader)
  /\ Sends(Reader, OutFrame("SETTINGS", 0, 0, FALSE), "read")
  /\ UNCHANGED <<streamVars, headerVars, windowVars, lockVars, frame, to_resume, held, serves,
                 left, broken, peer, wire>>

\* Nothing buffered: run() waits for the wire.
ReaderSuspends ==
  /\ Running(Reader)
  /\ pc[Reader] = "read"
  /\ Suspends(Reader, "read")
  /\ UNCHANGED <<streamVars, headerVars, windowVars, lockVars, frame, to_resume, held, serves,
                 left, sendVars, broken, peer, wire>>

\* The peer closed or reset, the preface was wrong, or send_goaway is done.
RunReturns ==
  /\ pc[Reader] \in {"preface", "read", "leaving"}
  /\ TakesTurn(Reader)
  /\ stack' = Tail(Turn(Reader))
  /\ Goto(Reader, "returned")
  /\ UNCHANGED <<streamVars, headerVars, windowVars, lockVars, frame, to_resume, held, serves,
                 left, sendVars, broken, peer, wire>>

PeerGoesAway(f) ==
  /\ f.type = "GOAWAY"
  /\ Receives(f)
  /\ stack' = Tail(Turn(Reader))
  /\ Goto(Reader, "returned")
  /\ UNCHANGED <<streamVars, headerVars, windowVars, lockVars, frame, to_resume, held, serves,
                 left, sendVars, broken, wire>>

\* The handlers' early returns of false.
Refused(f) ==
  CASE f.type = "SETTINGS" -> f.id # 0 \/ (~f.ack /\ ~f.ok)
    [] f.type = "PING" -> f.id # 0 \/ ~f.ok
    [] f.type = "HEADERS" -> f.id = 0 \/ expecting_continuation \/ ~f.ok
    [] f.type = "CONTINUATION" -> \/ ~expecting_continuation
                                  \/ f.id # last_header_stream_id
                                  \/ ~Known(f.id)
    [] f.type = "WINDOW_UPDATE" -> ~f.ok
    [] f.type = "DATA" -> Known(f.id) /\ (~f.ok \/ obj[streams[f.id]].body + f.n > MaxBody)
    [] OTHER -> FALSE

RefuseFrame(f) ==
  /\ Refused(f)
  /\ Receives(f)
  /\ stack' = Turn(Reader)
  /\ Sends(Reader, OutFrame("GOAWAY", 0, 0, FALSE), "leaving")
  /\ UNCHANGED <<streamVars, headerVars, windowVars, lockVars, frame, to_resume, held, serves,
                 left, broken, wire>>

\* Acknowledgements, and frames on streams that are not in the table.
IgnoreFrame(f) ==
  /\ \/ f.type \in {"SETTINGS", "PING"} /\ f.ack
     \/ f.type = "DATA" /\ ~Known(f.id)
     \/ f.type = "WINDOW_UPDATE" /\ f.id # 0 /\ ~Known(f.id)
  /\ ~Refused(f)
  /\ Receives(f)
  /\ stack' = Turn(Reader)
  /\ UNCHANGED <<streamVars, headerVars, windowVars, lockVars, pc, frame, to_resume, held, serves,
                 left, sendVars, broken, wire>>

\* Of the parameters the initial window counts; max_frame_size is MaxFrameSize from the
\* start, and the others are ignored by the code too.  Streams that are open keep their
\* window.
HandleSettings(f) ==
  /\ f.type = "SETTINGS" /\ ~f.ack
  /\ ~Refused(f)
  /\ Receives(f)
  /\ peer_initial_window_size' = f.n
  /\ stack' = Turn(Reader)
  /\ Sends(Reader, OutFrame("SETTINGS", 0, 0, FALSE), "read")
  /\ UNCHANGED <<streamVars, headerVars, connection_send_window, lockVars, frame, to_resume, held,
                 serves, left, broken, wire>>

HandlePing(f) ==
  /\ f.type = "PING" /\ ~f.ack
  /\ ~Refused(f)
  /\ Receives(f)
  /\ stack' = Turn(Reader)
  /\ Sends(Reader, OutFrame("PING", 0, 0, FALSE), "read")
  /\ UNCHANGED <<streamVars, headerVars, windowVars, lockVars, frame, to_resume, held, serves,
                 left, broken, wire>>

\* dispatch_stream(o) starts a responder, which runs before run() goes on.
Dispatch(o) ==
  LET r == Cardinality(Started) + 1
  IN  /\ serves' = [serves EXCEPT ![r] = o]
      /\ pc' = [pc EXCEPT ![Reader] = "read", ![r] = "start"]
      /\ stack' = <<r>> \o Turn(Reader)

NoDispatch ==
  /\ UNCHANGED serves
  /\ Goto(Reader, "read")
  /\ stack' = Turn(Reader)

HandleHeaders(f) ==
  /\ f.type = "HEADERS"
  /\ ~Refused(f)
  /\ Receives(f)
  /\ obj' = Append(obj, [id |-> f.id, send_window |-> peer_initial_window_size, body |-> 0,
                         end_headers |-> f.end_headers, end_stream |-> f.end_stream,
                         malformed |-> f.end_headers /\ ~f.hpack])
  /\ streams' = [streams EXCEPT ![f.id] = Len(obj) + 1]
  /\ expecting_continuation' = ~f.end_headers
  /\ last_header_stream_id' = IF f.end_headers THEN last_header_stream_id ELSE f.id
  /\ IF f.end_headers /\ (f.end_stream \/ ~f.hpack) THEN Dispatch(Len(obj) + 1) ELSE NoDispatch
  /\ UNCHANGED <<window_waiter, windowVars, lockVars, frame, to_resume, held, left, sendVars,
                 broken, wire>>

\* Mutant: the end of the headers is taken for the end of the request.
ContinuationDispatches(f) ==
  /\ f.type = "CONTINUATION"
  /\ ~Refused(f)
  /\ Receives(f)
  /\ LET o == streams[f.id]
     IN  IF f.end_headers
           THEN /\ expecting_continuation' = FALSE
                /\ obj' = [obj EXCEPT ![o].end_headers = TRUE, ![o].malformed = ~f.hpack]
                /\ Dispatch(o)
           ELSE /\ UNCHANGED <<expecting_continuation, obj>>
                /\ NoDispatch
  /\ UNCHANGED <<streams, window_waiter, last_header_stream_id, windowVars, lockVars, frame,
                 to_resume, held, left, sendVars, broken, wire>>

HandleContinuation(f) ==
  /\ f.type = "CONTINUATION"
  /\ ~Refused(f)
  /\ Receives(f)
  /\ LET o == streams[f.id]
     IN  IF f.end_headers
           THEN /\ expecting_continuation' = FALSE
                /\ obj' = [obj EXCEPT ![o].end_headers = TRUE, ![o].malformed = ~f.hpack]
                /\ IF obj[o].end_stream \/ ~f.hpack THEN Dispatch(o) ELSE NoDispatch
           ELSE /\ UNCHANGED <<expecting_continuation, obj>>
                /\ NoDispatch
  /\ UNCHANGED <<streams, window_waiter, last_header_stream_id, windowVars, lockVars, frame,
                 to_resume, held, left, sendVars, broken, wire>>

\* The body is buffered, and both windows are replenished before the end of
\* the stream is looked at.
HandleData(f) ==
  /\ f.type = "DATA"
  /\ Known(f.id)
  /\ ~Refused(f)
  /\ Receives(f)
  /\ obj' = [obj EXCEPT ![streams[f.id]].body = @ + f.n]
  /\ held' = streams[f.id]
  /\ frame' = f
  /\ stack' = Turn(Reader)
  /\ IF f.n > 0
       THEN Sends(Reader, OutFrame("WINDOW_UPDATE", f.id, f.n, FALSE), "dataHeld")
       ELSE Goto(Reader, "dataEnd") /\ UNCHANGED sendVars
  /\ UNCHANGED <<streams, window_waiter, headerVars, windowVars, lockVars, to_resume, serves, left,
                 broken, wire>>

ReplenishConnection ==
  /\ Running(Reader)
  /\ pc[Reader] = "dataHeld"
  /\ Sends(Reader, OutFrame("WINDOW_UPDATE", 0, frame.n, FALSE), "dataEnd")
  /\ UNCHANGED <<streamVars, headerVars, windowVars, lockVars, stack, frame, to_resume, held,
                 serves, left, broken, peer, wire>>

FinishData ==
  /\ Running(Reader)
  /\ pc[Reader] = "dataEnd"
  /\ obj' = [obj EXCEPT ![held].end_stream = @ \/ frame.end_stream]
  /\ IF frame.end_stream /\ obj[held].end_headers THEN Dispatch(held) ELSE NoDispatch
  /\ held' = 0
  /\ frame' = NoFrame
  /\ UNCHANGED <<streams, window_waiter, headerVars, windowVars, lockVars, to_resume, left,
                 sendVars, broken, peer, wire>>

Woken == {o \in {streams[i] : i \in Ids} \ {0} :
            window_waiter[o] # 0 /\ obj[o].send_window > 0}

\* Credit for the connection: every stream that waits and has credit of its
\* own is resumed, one after the other, in the order of the hash table.
HandleConnectionWindow(f) ==
  /\ f.type = "WINDOW_UPDATE" /\ f.id = 0
  /\ ~Refused(f)
  /\ Receives(f)
  /\ connection_send_window' = connection_send_window + f.n
  /\ to_resume' = {window_waiter[o] : o \in Woken}
  /\ window_waiter' = [o \in Numbers |-> IF o \in Woken THEN 0 ELSE window_waiter[o]]
  /\ Goto(Reader, "resuming")
  /\ stack' = Turn(Reader)
  /\ UNCHANGED <<obj, streams, headerVars, peer_initial_window_size, lockVars, frame, held, serves,
                 left, sendVars, broken, wire>>

ResumeWaiter(r) ==
  /\ Running(Reader)
  /\ pc[Reader] = "resuming"
  /\ r \in to_resume
  /\ to_resume' = to_resume \ {r}
  /\ Goto(r, "body")
  /\ stack' = <<r>> \o stack
  /\ UNCHANGED <<streamVars, headerVars, windowVars, lockVars, frame, held, serves, left, sendVars,
                 broken, peer, wire>>

WaitersResumed ==
  /\ Running(Reader)
  /\ pc[Reader] = "resuming"
  /\ to_resume = {}
  /\ Goto(Reader, "read")
  /\ UNCHANGED <<streamVars, headerVars, windowVars, lockVars, stack, frame, to_resume, held,
                 serves, left, sendVars, broken, peer, wire>>

\* Mutant: credit for a stream does not wake its writer.
StreamWindowWakesNobody(f) ==
  /\ f.type = "WINDOW_UPDATE"
  /\ Known(f.id)
  /\ ~Refused(f)
  /\ Receives(f)
  /\ obj' = [obj EXCEPT ![streams[f.id]].send_window = @ + f.n]
  /\ stack' = Turn(Reader)
  /\ UNCHANGED <<streams, window_waiter, headerVars, windowVars, lockVars, pc, frame, to_resume,
                 held, serves, left, sendVars, broken, wire>>

HandleStreamWindow(f) ==
  /\ f.type = "WINDOW_UPDATE"
  /\ Known(f.id)
  /\ ~Refused(f)
  /\ Receives(f)
  /\ LET o == streams[f.id]
         r == window_waiter[o]
     IN  /\ obj' = [obj EXCEPT ![o].send_window = @ + f.n]
         /\ window_waiter' = [window_waiter EXCEPT ![o] = 0]
         /\ IF r = 0 THEN stack' = Turn(Reader) /\ UNCHANGED pc
                     ELSE stack' = <<r>> \o Turn(Reader) /\ Goto(r, "body")
  /\ UNCHANGED <<streams, headerVars, windowVars, lockVars, frame, to_resume, held, serves, left,
                 sendVars, broken, wire>>

HandleReset(f) ==
  /\ f.type = "RST_STREAM"
  /\ Receives(f)
  /\ streams' = [i \in Ids |-> IF i = f.id THEN 0 ELSE streams[i]]
  /\ stack' = Turn(Reader)
  /\ UNCHANGED <<obj, window_waiter, headerVars, windowVars, lockVars, pc, frame, to_resume, held,
                 serves, left, sendVars, broken, wire>>

ReaderStep ==
  \/ PrefaceArrives \/ ReaderSuspends \/ ReplenishConnection \/ FinishData
  \/ (\E r \in Numbers : ResumeWaiter(r)) \/ WaitersResumed

ReceiveStep(f) ==
  \/ PeerGoesAway(f) \/ RefuseFrame(f) \/ IgnoreFrame(f) \/ HandleSettings(f) \/ HandlePing(f)
  \/ HandleHeaders(f) \/ HandleContinuation(f) \/ HandleData(f) \/ HandleConnectionWindow(f)
  \/ HandleStreamWindow(f) \/ HandleReset(f)

------------------------------------------------------------------------------
(* dispatch_stream, write_response, write_data_frames *)

AnswerMalformed(r) ==
  /\ Running(r)
  /\ pc[r] = "start"
  /\ StreamOf(r).malformed
  /\ Sends(r, OutFrame("HEADERS", StreamOf(r).id, 0, TRUE), "erase")
  /\ UNCHANGED <<streamVars, headerVars, windowVars, lockVars, stack, frame, to_resume, held,
                 serves, left, broken, peer, wire>>

HandlerSuspends(r) ==
  /\ Running(r)
  /\ pc[r] = "start"
  /\ ~StreamOf(r).malformed
  /\ Suspends(r, "handling")
  /\ UNCHANGED <<streamVars, headerVars, windowVars, lockVars, frame, to_resume, held, serves,
                 left, sendVars, broken, peer, wire>>

InHandler(r) ==
  \/ Running(r) /\ pc[r] = "start" /\ ~StreamOf(r).malformed
  \/ Alive /\ stack = <<>> /\ pc[r] = "handling"

\* Mutant: END_STREAM goes out with the headers although a body follows.
HeadersAlwaysEnd(r, body) ==
  /\ InHandler(r)
  /\ body \in peer.session.bodies
  /\ stack' = Turn(r)
  /\ left' = [left EXCEPT ![r] = body]
  /\ Sends(r, OutFrame("HEADERS", StreamOf(r).id, 0, TRUE), IF body = 0 THEN "erase" ELSE "body")
  /\ UNCHANGED <<streamVars, headerVars, windowVars, lockVars, frame, to_resume, held, serves,
                 broken, peer, wire>>

\* An upgrade response is turned into one without a body.
HandlerReturns(r, body) ==
  /\ InHandler(r)
  /\ body \in peer.session.bodies
  /\ stack' = Turn(r)
  /\ left' = [left EXCEPT ![r] = body]
  /\ Sends(r, OutFrame("HEADERS", StreamOf(r).id, 0, body = 0), IF body = 0 THEN "erase" ELSE "body")
  /\ UNCHANGED <<streamVars, headerVars, windowVars, lockVars, frame, to_resume, held, serves,
                 broken, peer, wire>>

HandlerThrows(r) ==
  /\ InHandler(r)
  /\ stack' = Turn(r)
  /\ Goto(r, "erase")
  /\ UNCHANGED <<streamVars, headerVars, windowVars, lockVars, frame, to_resume, held, serves, left,
                 sendVars, broken, peer, wire>>

HasCredit(r) == StreamOf(r).send_window > 0 /\ connection_send_window > 0

AwaitWindow(r) ==
  /\ Running(r)
  /\ pc[r] = "body"
  /\ left[r] > 0
  /\ ~HasCredit(r)
  /\ window_waiter' = [window_waiter EXCEPT ![serves[r]] = r]
  /\ Suspends(r, "window")
  /\ UNCHANGED <<obj, streams, headerVars, windowVars, lockVars, frame, to_resume, held, serves,
                 left, sendVars, broken, peer, wire>>

\* The windows are read here and reduced in WindowSpent, after send_frame.
SendData(r) ==
  /\ Running(r)
  /\ pc[r] = "body"
  /\ left[r] > 0
  /\ HasCredit(r)
  /\ LET allowed == Min({StreamOf(r).send_window, connection_send_window, MaxFrameSize, left[r]})
     IN  Sends(r, OutFrame("DATA", StreamOf(r).id, allowed, FALSE), "spent")
  /\ UNCHANGED <<streamVars, headerVars, windowVars, lockVars, stack, frame, to_resume, held,
                 serves, left, broken, peer, wire>>

\* Mutant: only the stream's window is reduced.
SpentOnStreamOnly(r) ==
  /\ Running(r)
  /\ pc[r] = "spent"
  /\ obj' = [obj EXCEPT ![serves[r]].send_window = @ - sending[r].n]
  /\ left' = [left EXCEPT ![r] = @ - sending[r].n]
  /\ Goto(r, "body")
  /\ UNCHANGED <<streams, window_waiter, headerVars, windowVars, lockVars, stack, frame, to_resume,
                 held, serves, sendVars, broken, peer, wire>>

WindowSpent(r) ==
  /\ Running(r)
  /\ pc[r] = "spent"
  /\ obj' = [obj EXCEPT ![serves[r]].send_window = @ - sending[r].n]
  /\ connection_send_window' = connection_send_window - sending[r].n
  /\ left' = [left EXCEPT ![r] = @ - sending[r].n]
  /\ Goto(r, "body")
  /\ UNCHANGED <<streams, window_waiter, headerVars, peer_initial_window_size, lockVars, stack,
                 frame, to_resume, held, serves, sendVars, broken, peer, wire>>

SendEnd(r) ==
  /\ Running(r)
  /\ pc[r] = "body"
  /\ left[r] = 0
  /\ Sends(r, OutFrame("DATA", StreamOf(r).id, 0, TRUE), "erase")
  /\ UNCHANGED <<streamVars, headerVars, windowVars, lockVars, stack, frame, to_resume, held,
                 serves, left, broken, peer, wire>>

BodyReadFails(r) ==
  /\ Running(r)
  /\ pc[r] = "body"
  /\ left[r] > 0
  /\ Goto(r, "erase")
  /\ UNCHANGED <<streamVars, headerVars, windowVars, lockVars, stack, frame, to_resume, held,
                 serves, left, sendVars, broken, peer, wire>>

\* The table entry goes by identifier, whichever object it holds by now.
EraseStream(r) ==
  /\ Running(r)
  /\ pc[r] = "erase"
  /\ streams' = [streams EXCEPT ![StreamOf(r).id] = 0]
  /\ Suspends(r, "done")
  /\ UNCHANGED <<obj, window_waiter, headerVars, windowVars, lockVars, frame, to_resume, held,
                 serves, left, sendVars, broken, peer, wire>>

ResponderStep(r) ==
  \/ AnswerMalformed(r) \/ (\E b \in Bodies : HandlerReturns(r, b)) \/ HandlerThrows(r)
  \/ AwaitWindow(r) \/ SendData(r) \/ WindowSpent(r) \/ SendEnd(r) \/ BodyReadFails(r)
  \/ EraseStream(r)

ConnectionBreaks ==
  /\ Alive
  /\ ~broken
  /\ broken' = TRUE
  /\ UNCHANGED <<streamVars, headerVars, windowVars, lockVars, stack, pc, frame, to_resume, held,
                 serves, left, sendVars, peer, wire>>

------------------------------------------------------------------------------
Next ==
  \/ \E c \in Coros : SendStep(c)
  \/ ReaderStep
  \/ RunReturns
  \/ \E f \in PeerFrames : ReceiveStep(f)
  \/ \E r \in Numbers : ResponderStep(r) \/ HandlerSuspends(r)
  \/ ConnectionBreaks

Spec == Init /\ [][Next]_vars

(* A coroutine whose turn it is goes on, a handler returns, and a peer that
   has not reset the connection reads, so that a blocked write completes.
   Nothing is assumed about what the peer sends. *)
Fairness ==
  /\ SF_vars(\E c \in Coros : WriteCompletes(c))
  /\ WF_vars(\/ \E c \in Coros : SendStep(c)
             \/ ReaderStep
             \/ RunReturns /\ (broken \/ pc[Reader] = "leaving")
             \/ \E r \in Numbers : ResponderStep(r))

FairSpec == Spec /\ Fairness

------------------------------------------------------------------------------
(* Properties *)

(* Two coroutines never write to the wire at once, whatever the order in which
   acknowledgements, window updates and the frames of several responses are
   sent, and the lock is held by whoever writes (connection_h2.cpp:48-67,
   108-127).  A failed write is the exception: nobody unlocks. *)
FramesNotInterleaved ==
  LET inside == {c \in Coros : pc[c] \in {"write", "blocked", "unlock"}}
  IN  /\ Cardinality(inside) <= 1
      /\ ~broken => (locked <=> inside # {})
      /\ \A c \in Coros : pc[c] = "queued" <=> c \in Range(waiters)

TotalData == MapThenSumSet(LAMBDA i : wire[i].data, Ids)

(* A stream's own send window is never overspent: DATA written on a stream is
   covered by what the peer granted for it (connection_h2.cpp:498-509).  The
   connection's is read before send_frame and reduced after it (498-510), so
   responses that overlap can overspend it, but by at most a frame for each further
   stream.  For a conforming peer: HEADERS sent again on a stream would start it
   over with a fresh window.  A stream's grant is counted from the initial window of
   when it was opened: the code never applies a later SETTINGS to it. *)
OverspendIsBounded ==
  peer.session.conforming =>
    /\ \A i \in Ids : wire[i].data <= peer.stream[i].granted
    /\ TotalData <= peer.granted + (Cardinality(Ids) - 1) * MaxFrameSize

(* No other responder answers the same stream object: a peer that goes on with a
   stream it has ended starts a second one, which takes the one waiter slot. *)
Alone(r) == \A q \in Started : serves[q] = serves[r] => q = r

(* A responder that waits for window, can be reached through the stream table and
   has its stream object to itself really has no window: no WINDOW_UPDATE was missed,
   although one can come while the responder is queued, blocked or about to be
   resumed (296-332, 498-499). *)
NoStalledWriter ==
  \A r \in Started :
    /\ stack = <<>> /\ Alive /\ Alone(r)
    /\ pc[r] = "window" /\ streams[StreamOf(r).id] = serves[r]
    => window_waiter[serves[r]] = r /\ ~HasCredit(r)

(* To a conforming peer what is written on a stream is one response: HEADERS first and
   once, DATA only after it, nothing after END_STREAM (445-519). *)
OneResponsePerStream ==
  peer.session.conforming => \A i \in Ids :
    /\ wire[i].headers <= 1
    /\ wire[i].ended <= wire[i].headers
    /\ wire[i].data > 0 => wire[i].headers = 1
    /\ wire[i].ended = 1 =>
         \A r \in Started : StreamOf(r).id = i => pc[r] \in {"unlock", "erase", "done"}

(* A conforming request is dispatched only when its headers and its body are complete, and
   with everything the peer sent on the stream (226-294, 379-431). *)
DispatchedComplete ==
  peer.session.conforming => \A r \in Started :
    LET s == StreamOf(r)
    IN  /\ s.end_headers /\ s.end_stream /\ ~s.malformed
        /\ s.body = peer.stream[s.id].body

(* Every response runs to its end or to a wait for window, as long as the
   connection lives: no sender is left in the queue of writer_lock and no
   hand-over is lost. *)
ResponsesProgress ==
  \A r \in Numbers :
    pc[r] = "start" ~> pc[r] \in {"window", "done"} \/ broken \/ ~Alive

(* listener.cpp:25-26, as the comment states it: a write to a connection the
   peer reset is treated "as an ordinary closed connection". *)
BrokenConnectionEnds == broken /\ Alive ~> ~Alive
==============================================================================
