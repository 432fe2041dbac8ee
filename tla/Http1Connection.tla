--------------------------- MODULE Http1Connection ---------------------------
(***************************************************************************)
(* nhttp::server::connection (src/server/connection.cpp) with the body     *)
(* streams it reads requests through (src/server/http1_io.cpp,             *)
(* src/protocol/http_chunked.cpp, src/io/range_stream.cpp): one coroutine  *)
(* reads a request, gives it to the handler, drains what the handler left  *)
(* of the body, writes the response, and goes on with the next request.    *)
(*                                                                         *)
(* The bytes of a request are tokens: a line with its newline is one token *)
(* and so is a unit of body data.  A read of the wire returns any number   *)
(* of the tokens that have been sent, up to the size of the buffer, so a   *)
(* request may be split, and two requests may be joined, anywhere.         *)
(***************************************************************************)
EXTENDS Integers, Sequences, FiniteSets, FiniteSetsExt, SequencesExt

CONSTANTS Scripts,   \* sequences of requests that a client may send
          Answers,   \* responses that the handler may return
          ReadSize   \* size of the buffers read into, in tokens

(* A request has no body, one of chunks[1] units with a Content-Length, or one
   in chunks; it may ask to close the connection, and one of its lines may be
   malformed.  A response has a body of units units, or none if units is -1,
   and a content_length. *)
Request == [framing : {"none", "length", "chunked"}, chunks : Seq(Nat \ {0}), close : BOOLEAN,
            flaw : {"none", "line", "header", "length", "size"}]
Answer == [units : Nat \cup {-1}, length : Nat \cup {-1}, upgrade : BOOLEAN, refused : BOOLEAN]

ASSUME Http1Assumption ==
  /\ ReadSize \in Nat \ {0}
  /\ \A s \in Scripts : s \in Seq(Request)
  /\ Answers \subseteq Answer

VARIABLES client,       \* the script, whether it pipelines, how much was sent, closed or not
          stream,       \* tokens sent and not yet read
          read_buffer,  \* read_buffer_
          pc, cur,      \* where run() is, and the number of the request it serves
          body,         \* req.body
          reading,      \* size of the buffer a read of the body is to fill, 0 if there is none
          seen, ended,  \* what the handler read, and whether a read returned 0
          answer,       \* resp
          out           \* history: what was written, response by response

readVars == <<stream, read_buffer>>
bodyVars == <<body, reading, seen, ended>>
vars == <<client, readVars, pc, cur, bodyVars, answer, out>>

Tok(i, part, n) == [req |-> i, part |-> part, n |-> n]

BadRequest == [units |-> -1, length |-> 0, upgrade |-> FALSE, refused |-> TRUE]
NoBody == [kind |-> "none", left |-> 0, mode |-> "finished", buffer |-> <<>>, in_chunk |-> 0,
           eof |-> FALSE, taken |-> <<>>]

Init ==
  /\ client \in [script : Scripts, pipelines : BOOLEAN, sent : {0}, closed : {FALSE}]
  /\ stream = <<>>
  /\ read_buffer = <<>>
  /\ pc = "line"
  /\ cur = 0
  /\ body = NoBody
  /\ reading = 0
  /\ seen = <<>>
  /\ ended = FALSE
  /\ answer = BadRequest
  /\ out = <<>>

------------------------------------------------------------------------------
(* The client *)

\* Units from + 1 .. from + k of the body of request i.
Units(i, from, k) == [j \in 1 .. k |-> Tok(i, "data", from + j)]

Before(chunks, c) == FoldLeft(LAMBDA a, b : a + b, 0, SubSeq(chunks, 1, c - 1))

BodyUnits(i) ==
  LET chunks == client.script[i].chunks IN Units(i, 0, Before(chunks, Len(chunks) + 1))

Chunk(i, c) ==
  LET r == client.script[i]
      size == IF r.flaw = "size" THEN Tok(i, "junk", 0) ELSE Tok(i, "size", r.chunks[c])
  IN  <<size>> \o Units(i, Before(r.chunks, c), r.chunks[c]) \o <<Tok(i, "crlf", 0)>>

\* A trailer line comes before the blank one.
BodyTokens(i) ==
  LET r == client.script[i]
  IN  CASE r.framing = "none" -> <<>>
        [] r.framing = "length" -> BodyUnits(i)
        [] r.framing = "chunked" ->
             FlattenSeq([c \in DOMAIN r.chunks |-> Chunk(i, c)])
               \o <<Tok(i, "size", 0), Tok(i, "header", 0), Tok(i, "blank", 0)>>

RequestTokens(i) ==
  LET flaw == client.script[i].flaw
  IN  <<Tok(i, IF flaw = "line" THEN "junk" ELSE "line", 0),
        Tok(i, IF flaw = "header" THEN "junk" ELSE "header", 0), Tok(i, "blank", 0)>>
      \o BodyTokens(i)

\* A client that does not pipeline waits for the response to its last request.
ClientSends ==
  /\ ~client.closed
  /\ client.sent < Len(client.script)
  /\ client.pipelines \/ (Len(out) = client.sent /\ \A r \in ToSet(out) : r.done)
  /\ client' = [client EXCEPT !.sent = @ + 1]
  /\ stream' = stream \o RequestTokens(client.sent + 1)
  /\ UNCHANGED <<read_buffer, pc, cur, bodyVars, answer, out>>

\* The client goes away; only a part of what it sent gets through.
ClientCloses ==
  /\ ~client.closed
  /\ client' = [client EXCEPT !.closed = TRUE]
  /\ \E k \in 0 .. Len(stream) : stream' = SubSeq(stream, 1, k)
  /\ UNCHANGED <<read_buffer, pc, cur, bodyVars, answer, out>>

------------------------------------------------------------------------------
(* Reading from the wire.  A result is what was got and what is left. *)

WireResults(n) ==
  IF stream # <<>>
    THEN {[got |-> SubSeq(stream, 1, k), leftover |-> <<>>, rest |-> SubSeq(stream, k + 1, Len(stream))]
            : k \in 1 .. Min({n, Len(stream)})}
    ELSE IF client.closed THEN {[got |-> <<>>, leftover |-> <<>>, rest |-> <<>>]} ELSE {}

\* buffered_wire_stream::read: the leftover first, then the wire.
SourceResults(n) ==
  IF read_buffer = <<>>
    THEN WireResults(n)
    ELSE LET k == Min({n, Len(read_buffer)})
         IN  {[got |-> SubSeq(read_buffer, 1, k),
               leftover |-> SubSeq(read_buffer, k + 1, Len(read_buffer)), rest |-> stream]}

\* No complete line is in the buffer: fill_more, or the same loop in read_headers.
FillsBuffer ==
  /\ pc \in {"line", "headers"}
  /\ read_buffer = <<>>
  /\ \E s \in WireResults(ReadSize) :
       /\ s.got # <<>>
       /\ read_buffer' = s.got
       /\ stream' = s.rest
  /\ UNCHANGED <<client, pc, cur, bodyVars, answer, out>>

------------------------------------------------------------------------------
(* The head of a request *)

LineParsed ==
  /\ pc = "line"
  /\ read_buffer # <<>>
  /\ Head(read_buffer).part = "line"
  /\ cur' = Head(read_buffer).req
  /\ read_buffer' = Tail(read_buffer)
  /\ pc' = "headers"
  /\ UNCHANGED <<client, stream, bodyVars, answer, out>>

\* A line that is malformed or longer than max_request_line_size, or the end of
\* the stream: run() returns without a word.
LineRefused ==
  /\ pc = "line"
  /\ \/ read_buffer # <<>> /\ Head(read_buffer).part # "line"
     \/ read_buffer = <<>> /\ stream = <<>> /\ client.closed
  /\ pc' = "closed"
  /\ UNCHANGED <<client, readVars, cur, bodyVars, answer, out>>

HeaderParsed ==
  /\ pc = "headers"
  /\ read_buffer # <<>>
  /\ Head(read_buffer).part = "header"
  /\ read_buffer' = Tail(read_buffer)
  /\ UNCHANGED <<client, stream, pc, cur, bodyVars, answer, out>>

Refuses == /\ pc' = "head"
           /\ answer' = BadRequest
           /\ UNCHANGED <<client, stream, cur, bodyVars, out>>

\* A header that is malformed or too long, or the end of the stream before the
\* blank line: 400.
HeadersRefused ==
  /\ pc = "headers"
  /\ \/ read_buffer # <<>> /\ Head(read_buffer).part \notin {"header", "blank"}
     \/ read_buffer = <<>> /\ stream = <<>> /\ client.closed
  /\ UNCHANGED read_buffer
  /\ Refuses

\* A Content-Length that is not a number: make_body_stream returns nullptr.
LengthRefused ==
  /\ pc = "headers"
  /\ read_buffer # <<>>
  /\ Head(read_buffer).part = "blank"
  /\ client.script[cur].framing = "length" /\ client.script[cur].flaw = "length"
  /\ read_buffer' = Tail(read_buffer)
  /\ Refuses

\* make_body_stream
BodyStream(i) ==
  LET r == client.script[i]
  IN  [NoBody EXCEPT !.kind = r.framing,
                     !.left = IF r.framing = "length" THEN r.chunks[1] ELSE 0,
                     !.mode = IF r.framing = "chunked" THEN "size" ELSE "finished"]

HandlerStarts ==
  /\ pc = "headers"
  /\ read_buffer # <<>>
  /\ Head(read_buffer).part = "blank"
  /\ ~(client.script[cur].framing = "length" /\ client.script[cur].flaw = "length")
  /\ read_buffer' = Tail(read_buffer)
  /\ body' = BodyStream(cur)
  /\ seen' = <<>>
  /\ ended' = FALSE
  /\ pc' = "handle"
  /\ UNCHANGED <<client, stream, cur, reading, answer, out>>

------------------------------------------------------------------------------
(* Reading the body: the handler, as far as it likes, then the drain loop *)

BodyReadStarts ==
  /\ reading = 0
  /\ \/ pc = "drain" /\ reading' = ReadSize
     \/ pc = "handle" /\ ~ended /\ reading' \in 1 .. ReadSize
  /\ UNCHANGED <<client, readVars, pc, cur, body, seen, ended, answer, out>>

\* A read returns these tokens; none is the 0 that ends the body.
ReadReturns(tokens) ==
  /\ reading' = 0
  /\ seen' = IF pc = "handle" THEN seen \o tokens ELSE seen
  /\ ended' = (tokens = <<>>)
  /\ pc' = IF pc = "drain" /\ tokens = <<>> THEN "head" ELSE pc
  /\ UNCHANGED <<client, cur, answer, out>>

\* An empty memory_stream, a range_stream at its end, or a finished decoder.
ReadAtEnd ==
  /\ reading > 0
  /\ body.mode = "finished" /\ body.left = 0
  /\ ReadReturns(<<>>)
  /\ UNCHANGED <<readVars, body>>

\* range_stream::read over the leftover and the wire.
ReadLength ==
  /\ reading > 0
  /\ body.left > 0
  /\ \E s \in SourceResults(Min({reading, body.left})) :
       /\ read_buffer' = s.leftover
       /\ stream' = s.rest
       /\ body' = [body EXCEPT !.left = @ - Len(s.got)]
       /\ ReadReturns(s.got)

Decoding(mode) == reading > 0 /\ body.kind = "chunked" /\ body.mode = mode

Continues(b) ==
  /\ body' = b
  /\ UNCHANGED <<client, readVars, pc, cur, reading, seen, ended, answer, out>>

Finishes(b, tokens) ==
  /\ body' = b
  /\ ReadReturns(tokens)
  /\ UNCHANGED readVars

\* chunked_decoder_stream::fill_more
DecoderFills ==
  /\ reading > 0
  /\ body.kind = "chunked" /\ body.mode # "finished"
  /\ body.buffer = <<>> /\ ~body.eof
  /\ \E s \in SourceResults(ReadSize) :
       /\ read_buffer' = s.leftover
       /\ stream' = s.rest
       /\ body' = [body EXCEPT !.buffer = s.got, !.eof = (s.got = <<>>)]
  /\ UNCHANGED <<client, pc, cur, reading, seen, ended, answer, out>>

\* The source ended: in the middle of the body, or where a CRLF is due.
DecoderStarves ==
  /\ reading > 0
  /\ body.kind = "chunked" /\ body.mode # "finished"
  /\ body.buffer = <<>> /\ body.eof
  /\ IF body.mode = "crlf"
       THEN Finishes([body EXCEPT !.mode = "size"], body.taken)
       ELSE Finishes([body EXCEPT !.mode = "finished"], <<>>)

\* begin_next_chunk: the size line.
ChunkSize ==
  /\ Decoding("size")
  /\ body.buffer # <<>>
  /\ LET t == Head(body.buffer)
         b == [body EXCEPT !.buffer = Tail(@)]
     IN  IF t.part # "size"
           THEN Finishes([b EXCEPT !.mode = "finished"], <<>>)
           ELSE Continues([b EXCEPT !.mode = IF t.n = 0 THEN "trailers" ELSE "data",
                                    !.in_chunk = t.n])

\* Mutant: the blank line is taken for a trailer.
TrailersNeverEnd ==
  /\ Decoding("trailers")
  /\ body.buffer # <<>>
  /\ Continues([body EXCEPT !.buffer = Tail(@)])

\* begin_next_chunk: the trailers after the last chunk, up to the blank line.
ChunkTrailer ==
  /\ Decoding("trailers")
  /\ body.buffer # <<>>
  /\ LET b == [body EXCEPT !.buffer = Tail(@)]
     IN  IF Head(body.buffer).part = "blank"
           THEN Finishes([b EXCEPT !.mode = "finished"], <<>>)
           ELSE Continues(b)

\* Mutant: everything buffered is taken for data of this chunk.
ChunkDataUnbounded ==
  /\ Decoding("data")
  /\ body.buffer # <<>>
  /\ LET k == Min({reading, Len(body.buffer)})
         b == [body EXCEPT !.buffer = SubSeq(@, k + 1, Len(@)), !.in_chunk = Max({0, @ - k}),
                           !.taken = SubSeq(body.buffer, 1, k)]
     IN  IF b.in_chunk = 0 THEN Continues([b EXCEPT !.mode = "crlf"]) ELSE Finishes(b, b.taken)

\* A part of the chunk; after the last one the CRLF is read before read() returns.
ChunkData ==
  /\ Decoding("data")
  /\ body.buffer # <<>>
  /\ LET k == Min({reading, body.in_chunk, Len(body.buffer)})
         b == [body EXCEPT !.buffer = SubSeq(@, k + 1, Len(@)), !.in_chunk = @ - k,
                           !.taken = SubSeq(body.buffer, 1, k)]
     IN  IF b.in_chunk = 0 THEN Continues([b EXCEPT !.mode = "crlf"]) ELSE Finishes(b, b.taken)

ChunkCrlf ==
  /\ Decoding("crlf")
  /\ body.buffer # <<>>
  /\ Finishes([body EXCEPT !.buffer = Tail(@), !.mode = "size"], body.taken)

\* Mutant: what the handler left of the body is not drained.
HandlerReturnsUndrained(a) ==
  /\ pc = "handle"
  /\ reading = 0
  /\ answer' = a
  /\ pc' = "head"
  /\ UNCHANGED <<client, readVars, cur, bodyVars, out>>

HandlerReturns(a) ==
  /\ pc = "handle"
  /\ reading = 0
  /\ answer' = a
  /\ pc' = "drain"
  /\ UNCHANGED <<client, readVars, cur, bodyVars, out>>

------------------------------------------------------------------------------
(* write_response and write_message_body *)

\* wants_keep_alive; a 400 closes the connection.
KeepAlive == ~client.script[cur].close /\ ~answer.refused

AfterResponse == IF KeepAlive THEN "line" ELSE "closed"

Declared == IF answer.units >= 0 /\ answer.length < 0 THEN -1 ELSE Max({0, answer.length})

\* An upgrade hands the wire and what is buffered over to the upgrade handler.
WriteHead ==
  /\ pc = "head"
  /\ out' = Append(out, [req |-> cur, declared |-> Declared, units |-> answer.units, written |-> 0,
                         done |-> answer.units < 0, keep |-> KeepAlive])
  /\ pc' = IF answer.upgrade THEN "upgraded" ELSE IF answer.units < 0 THEN AfterResponse ELSE "body"
  /\ read_buffer' = IF answer.upgrade THEN <<>> ELSE read_buffer
  /\ UNCHANGED <<client, stream, cur, bodyVars, answer>>

MoreToWrite ==
  LET r == out[Len(out)]
  IN  /\ r.written < answer.units
      /\ r.declared >= 0 => r.written < r.declared

\* Mutant: the length is not looked at while the body has more to give.
WriteBodyUnbounded ==
  /\ pc = "body"
  /\ out[Len(out)].written < answer.units
  /\ out' = [out EXCEPT ![Len(out)].written = @ + 1]
  /\ UNCHANGED <<client, readVars, pc, cur, bodyVars, answer>>

WriteBody ==
  /\ pc = "body"
  /\ MoreToWrite
  /\ out' = [out EXCEPT ![Len(out)].written = @ + 1]
  /\ UNCHANGED <<client, readVars, pc, cur, bodyVars, answer>>

\* The body is at its end or the length is reached; a chunked body gets its
\* terminator.
WriteBodyEnds ==
  /\ pc = "body"
  /\ ~MoreToWrite
  /\ out' = [out EXCEPT ![Len(out)].done = TRUE]
  /\ pc' = AfterResponse
  /\ UNCHANGED <<client, readVars, cur, bodyVars, answer>>

\* The wire, the handler or a body throws; the exception leaves run().
Throws ==
  /\ pc \notin {"upgraded", "closed"}
  /\ pc' = "closed"
  /\ UNCHANGED <<client, readVars, cur, bodyVars, answer, out>>

------------------------------------------------------------------------------
ServerStep ==
  \/ FillsBuffer \/ LineParsed \/ LineRefused \/ HeaderParsed \/ HeadersRefused \/ LengthRefused
  \/ HandlerStarts
  \/ ReadAtEnd \/ ReadLength \/ DecoderFills \/ DecoderStarves
  \/ ChunkSize \/ ChunkTrailer \/ ChunkData \/ ChunkCrlf
  \/ WriteHead \/ WriteBody \/ WriteBodyEnds

Next ==
  \/ ClientSends \/ ClientCloses
  \/ ServerStep
  \/ BodyReadStarts
  \/ \E a \in Answers : HandlerReturns(a)
  \/ Throws

Spec == Init /\ [][Next]_vars

(* The coroutine goes on while it is not waiting for the client, and a handler
   returns. *)
Fairness ==
  /\ WF_vars(ServerStep)
  /\ WF_vars(BodyReadStarts /\ pc = "drain")
  /\ WF_vars(\E a \in Answers : HandlerReturns(a))

FairSpec == Spec /\ Fairness

------------------------------------------------------------------------------
(* Properties *)

WellFormed == \A i \in DOMAIN client.script : client.script[i].flaw = "none"

\* The decoder reads ahead into a buffer of its own, so a request pipelined
\* behind a chunked one is out of reach of what follows.
Serial == client.pipelines => \A i \in DOMAIN client.script : client.script[i].framing # "chunked"

(* However the bytes are split into reads and however much of a body the handler
   reads, the next request is looked for exactly where it starts, and none is
   skipped: no byte is "mistaken for the start of the next request"
   (connection.cpp:127-164, the drain at 152-156). *)
InSync ==
  pc = "line" /\ WellFormed /\ Serial /\ read_buffer \o stream # <<>>
  => Head(read_buffer \o stream) = Tok(Len(out) + 1, "line", 0)

(* The handler reads the units of its own request's body, in order, and reads 0
   only at the end of the body or of a stream that was cut off
   (http_chunked.cpp:70-157, range_stream.cpp:78-94). *)
BodyIntact ==
  pc = "handle" /\ WellFormed
  => /\ IsPrefix(seen, BodyUnits(cur))
     /\ ended /\ ~client.closed => seen = BodyUnits(cur)

(* A response is finished before the next one starts, in the order of the
   requests; it never exceeds its Content-Length, and reaches it, or the whole
   of a chunked body, if the body gives that much (http1_io.cpp:132-175). *)
ResponsesFramed ==
  /\ \A j \in 1 .. Len(out) - 1 : out[j].done /\ out[j].keep /\ out[j].req < out[j + 1].req
  /\ \A r \in ToSet(out) :
       IF r.declared < 0
         THEN r.done => r.written = r.units
         ELSE /\ r.written <= r.declared
              /\ r.done /\ r.units >= r.declared => r.written = r.declared

(* Every request that was sent is answered, unless the connection ends. *)
RequestAnswered ==
  \A i \in 1 .. 2 :
    client.sent >= i /\ WellFormed /\ Serial ~> Len(out) >= i \/ pc \in {"closed", "upgraded"}
==============================================================================
