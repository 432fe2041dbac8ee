----------------------------- MODULE WsConnection -----------------------------
(* ws_connection (src/src/ws/connection.cpp): frames read from a stream that comes
   in pieces and may end anywhere, put together to messages, answered where the
   protocol asks for it, and the frames the application sends in between.  One
   coroutine uses the connection: it receives, sends and closes in any order.

   The first byte of a frame is a record; the 7 bits for the length go up to
   InlineMax (125 in the code), InlineMax + 1 announces two more bytes and
   InlineMax + 2 eight.  Every other byte is a digit below ByteBase (256). *)
EXTENDS Integers, Sequences, SequencesExt, FiniteSets

CONSTANTS
  Scripts,      \* sequences of frames of the client: [fin, op, payload, key]
  Keyless,      \* the key of a frame without masking
  WsChunks,     \* how much one read of the stream may return
  Sends,        \* payloads the application sends
  MaxSends,     \* sends and closes of the application
  InlineMax, ByteBase

ASSUME WsBounds == InlineMax \in Nat /\ ByteBase \in Nat \ {0, 1} /\ MaxSends \in Nat

VARIABLES
  script,       \* the client's frames, <<>> before the connection is opened
  incoming,     \* its bytes that have not been read
  buf, ended, closed,     \* buffer_, eof_ and closed_
  at,           \* where receive is, "app" when the application runs
  frame,        \* the frame that is being read: fin, op, length, key
  frames,       \* how many frames have been read
  messageOp, accumulated, \* the locals of receive
  messages,     \* what receive has returned
  outgoing,     \* the bytes the stream has taken
  unsent,       \* what write_frame still has to write
  said          \* what the application asked to be sent: texts, and "close"

outVars == <<outgoing, unsent>>
wsVars == <<script, incoming, buf, ended, closed, at, frame, frames, messageOp, accumulated,
            messages, outVars, said>>

NoFrame == [fin |-> TRUE, op |-> "none", masked |-> FALSE, length |-> 0, key |-> Keyless]

(***************************************************************************)
(* The bytes of a frame                                                    *)
(***************************************************************************)

Digits(n, width) == [i \in 1..width |-> (n \div ByteBase^(width - i)) % ByteBase]
Number(digits) == FoldLeft(LAMBDA n, d : n * ByteBase + d, 0, digits)
Unmask(payload, key) == [i \in DOMAIN payload |-> (payload[i] + key[((i - 1) % 4) + 1]) % 2]

\* The length in write_frame.
FitsInline(n) == n <= InlineMax
LengthBytes(n) ==
  IF FitsInline(n) THEN <<>>
  ELSE IF n <= ByteBase^2 - 1 THEN Digits(n, 2) ELSE Digits(n, 8)
LengthField(n) ==
  IF FitsInline(n) THEN n ELSE IF n <= ByteBase^2 - 1 THEN InlineMax + 1 ELSE InlineMax + 2

HeadBytes(fin, op, masked, n) ==
  <<[fin |-> fin, op |-> op], [masked |-> masked, len |-> LengthField(n)]>> \o LengthBytes(n)

\* write_frame
Frame(op, payload) == HeadBytes(TRUE, op, FALSE, Len(payload)) \o payload

\* The client writes its frames by RFC 6455.
ClientBytes(fs) ==
  FlattenSeq([i \in DOMAIN fs |->
    HeadBytes(fs[i].fin, fs[i].op, fs[i].key # Keyless, Len(fs[i].payload)) \o
    (IF fs[i].key = Keyless THEN fs[i].payload
     ELSE fs[i].key \o Unmask(fs[i].payload, fs[i].key))])

(***************************************************************************)
(* fill_more, read_exact, read_frame                                       *)
(***************************************************************************)

Need ==
  CASE at = "head" -> 2
    [] at = "length2" -> 2
    [] at = "length8" -> 8
    [] at = "key" -> 4
    [] at = "payload" -> frame.length
    [] OTHER -> 0

WsFill ==
  /\ at # "app" /\ Len(buf) < Need /\ ~ended
  /\ IF incoming = <<>> THEN ended' = TRUE /\ UNCHANGED <<incoming, buf>>
     ELSE \E n \in {Min({c, Len(incoming)}) : c \in WsChunks} :
            /\ buf' = buf \o SubSeq(incoming, 1, n)
            /\ incoming' = SubSeq(incoming, n + 1, Len(incoming))
            /\ UNCHANGED ended
  /\ UNCHANGED <<script, closed, at, frame, frames, messageOp, accumulated, messages, outVars, said>>

\* The connection breaks: what had not been read by then is lost.
Breaks ==
  /\ incoming # <<>> /\ at # "app" /\ incoming' = <<>>
  /\ UNCHANGED <<script, buf, ended, closed, at, frame, frames, messageOp, accumulated, messages,
                 outVars, said>>

ReadFails ==
  /\ Len(buf) < Need /\ ended
  /\ closed' = TRUE /\ at' = "app"
  /\ UNCHANGED <<script, incoming, buf, ended, frame, frames, messageOp, accumulated, messages,
                 outVars, said>>

Exactly == SubSeq(buf, 1, Need)
AfterLength(masked, length) == IF masked THEN "key" ELSE IF length > 0 THEN "payload" ELSE "frame"

ReadsOn(step) ==
  /\ Len(buf) >= Need /\ at = step
  /\ buf' = SubSeq(buf, Need + 1, Len(buf))
  /\ UNCHANGED <<script, incoming, ended, closed, frames, messageOp, messages, outVars, said>>

ReadHead ==
  /\ ReadsOn("head")
  /\ LET b0 == Exactly[1]  b1 == Exactly[2] IN
       /\ frame' = [fin |-> b0.fin, op |-> b0.op, masked |-> b1.masked, length |-> b1.len, key |-> Keyless]
       /\ at' = CASE b1.len = InlineMax + 1 -> "length2"
                  [] b1.len = InlineMax + 2 -> "length8"
                  [] OTHER -> AfterLength(b1.masked, b1.len)
  /\ UNCHANGED accumulated
ReadLengthBytes ==
  /\ \/ ReadsOn("length2")
     \/ ReadsOn("length8")
  /\ frame' = [frame EXCEPT !.length = Number(Exactly)]
  /\ at' = AfterLength(frame.masked, Number(Exactly))
  /\ UNCHANGED accumulated
ReadKey ==
  /\ ReadsOn("key")
  /\ frame' = [frame EXCEPT !.key = Exactly]
  /\ at' = AfterLength(FALSE, frame.length)
  /\ UNCHANGED accumulated

(***************************************************************************)
(* receive: what is done with a frame, once its payload is there           *)
(***************************************************************************)

ProtocolError == <<1>>     \* the payload for 1002
Writes(bytes) == unsent' = bytes /\ UNCHANGED outgoing
Continues == at' = "head" /\ UNCHANGED <<closed, messages>>
Returns == at' = "app" /\ UNCHANGED messages


\* write_all, for the header and then for the payload: the stream takes as much as it
\* likes of what it is given, or its write throws and the connection is given up.
WriteAll ==
  /\ unsent # <<>>
  /\ \E n \in {Min({c, Len(unsent)}) : c \in WsChunks} :
       /\ outgoing' = outgoing \o SubSeq(unsent, 1, n)
       /\ unsent' = SubSeq(unsent, n + 1, Len(unsent))
  /\ UNCHANGED <<script, incoming, buf, ended, closed, at, frame, frames, messageOp, accumulated,
                 messages, said>>
WriteThrows ==
  /\ unsent # <<>> /\ at' = "thrown"
  /\ UNCHANGED <<script, incoming, buf, ended, closed, frame, frames, messageOp, accumulated,
                 messages, outVars, said>>

\* A control frame leaves the message that is being put together alone.
ControlResets == messageOp' = "none" /\ accumulated' = <<>>
AfterControl == UNCHANGED <<messageOp, accumulated>>

OnClose(payload) ==
  /\ frame.op = "close"
  /\ Writes(Frame("close", payload)) /\ closed' = TRUE /\ Returns /\ AfterControl
OnPing(payload) ==
  /\ frame.op = "ping"
  /\ Writes(Frame("pong", payload)) /\ Continues /\ AfterControl
OnPong == frame.op = "pong" /\ UNCHANGED outVars /\ Continues /\ AfterControl
\* close(1002): a continuation of nothing, or an opcode that does not exist.
OnError ==
  /\ (frame.op = "continuation" /\ messageOp = "none") \/ frame.op = "reserved"
  /\ Writes(Frame("close", ProtocolError)) /\ closed' = TRUE /\ Returns /\ AfterControl
OnData(payload) ==
  /\ frame.op \in {"text", "binary"} \/ (frame.op = "continuation" /\ messageOp # "none")
  /\ LET op == IF frame.op = "continuation" THEN messageOp ELSE frame.op
         data == IF frame.op = "continuation" THEN accumulated \o payload ELSE payload
     IN  IF frame.fin
           THEN /\ messages' = Append(messages, [type |-> op, data |-> data])
                /\ at' = "app" /\ messageOp' = "none" /\ accumulated' = <<>>
                /\ UNCHANGED closed
           ELSE messageOp' = op /\ accumulated' = data /\ Continues
  /\ UNCHANGED outVars

FrameRead ==
  /\ at \in {"payload", "frame"} /\ Len(buf) >= Need
  /\ buf' = SubSeq(buf, Need + 1, Len(buf)) /\ frames' = frames + 1 /\ frame' = NoFrame
  /\ LET payload == IF frame.masked THEN Unmask(Exactly, frame.key) ELSE Exactly
     IN  OnClose(payload) \/ OnPing(payload) \/ OnPong \/ OnError \/ OnData(payload)
  /\ UNCHANGED <<script, incoming, ended, said>>

(***************************************************************************)
(* The application                                                         *)
(***************************************************************************)

WsInit ==
  /\ script = <<>> /\ incoming = <<>> /\ buf = <<>> /\ ended = FALSE /\ closed = FALSE
  /\ at = "app" /\ frame = NoFrame /\ frames = 0 /\ messageOp = "none" /\ accumulated = <<>>
  /\ messages = <<>> /\ outgoing = <<>> /\ unsent = <<>> /\ said = <<>>

\* The handover: the first bytes may have come with the request already.
WsOpen(fs) ==
  /\ script = <<>> /\ script' = fs
  /\ \E n \in {0, 3} :
       /\ buf' = SubSeq(ClientBytes(fs), 1, n)
       /\ incoming' = SubSeq(ClientBytes(fs), n + 1, Len(ClientBytes(fs)))
  /\ UNCHANGED <<ended, closed, at, frame, frames, messageOp, accumulated, messages, outVars, said>>

Receive ==
  /\ script # <<>> /\ at = "app" /\ ~closed /\ at' = "head"
  /\ messageOp' = "none" /\ accumulated' = <<>>
  /\ UNCHANGED <<script, incoming, buf, ended, closed, frame, frames, messages, outVars, said>>

\* send_text and send_binary do not look at closed_.
SendMessage(op, data) ==
  /\ script # <<>> /\ at = "app" /\ Len(said) < MaxSends
  /\ Writes(Frame(op, data)) /\ said' = Append(said, [op |-> op, payload |-> data])
  /\ UNCHANGED <<script, incoming, buf, ended, closed, at, frame, frames, messageOp, accumulated, messages>>

CloseBy ==
  /\ script # <<>> /\ at = "app" /\ Len(said) < MaxSends
  /\ IF closed THEN UNCHANGED <<outVars, closed>> ELSE Writes(Frame("close", <<0>>)) /\ closed' = TRUE
  /\ said' = Append(said, [op |-> "closed", payload |-> <<>>])
  /\ UNCHANGED <<script, incoming, buf, ended, at, frame, frames, messageOp, accumulated, messages>>

WsUse ==
  \/ \E fs \in Scripts : WsOpen(fs)
  \/ Receive \/ \E op \in {"text", "binary"}, data \in Sends : SendMessage(op, data)
  \/ CloseBy
  \/ WsFill \/ Breaks \/ ReadFails
  \/ ReadHead \/ ReadLengthBytes \/ ReadKey \/ FrameRead

\* Nothing else happens on the connection until write_frame returns, or throws.
WsNext == (unsent = <<>> /\ WsUse) \/ (at # "thrown" /\ (WriteAll \/ WriteThrows))

(***************************************************************************)
(* Properties                                                              *)
(***************************************************************************)

\* The client's reader: the frames that a sequence of bytes holds, by RFC 6455.
RECURSIVE Decoded(_)
Decoded(bytes) ==
  IF bytes = <<>> THEN <<>>
  ELSE LET width == CASE bytes[2].len = InlineMax + 1 -> 2 [] bytes[2].len = InlineMax + 2 -> 8 [] OTHER -> 0
           length == IF width = 0 THEN bytes[2].len ELSE Number(SubSeq(bytes, 3, 2 + width))
           from == 3 + width
       IN  <<[op |-> bytes[1].op, payload |-> SubSeq(bytes, from, from + length - 1)]>> \o
           Decoded(SubSeq(bytes, from + length, Len(bytes)))

\* What the client sees is what it must see, wherever its bytes were cut: the
\* messages returned are the data frames joined between a first frame and its last,
\* whatever control frames came between; each ping has its pong, with its payload
\* and in order; at most one close frame is written, and close(1002) only for a
\* frame that the protocol forbids; and the frames of the application arrive with
\* the payload it gave, at every length encoding.  The bytes the stream has taken, and
\* those write_frame is still to write or lost when the stream threw, are such a
\* conversation together.
ConversationIsFaithful ==
  LET seen == SubSeq(script, 1, frames)
      Control == {"ping", "pong", "close", "reserved"}
      Final == {i \in DOMAIN seen : seen[i].op \notin Control /\ seen[i].fin}
      Opening(i) == Max({j \in 1..i : seen[j].op \in {"text", "binary"}})
      Message(i) ==
        LET data == SelectSeq(SubSeq(seen, Opening(i), i), LAMBDA f : f.op \notin Control)
        IN  [type |-> data[1].op, data |-> FlattenSeq([k \in DOMAIN data |-> data[k].payload])]
      InMessage(i) == \E j \in 1..i : /\ seen[j].op \in {"text", "binary"}
                                     /\ \A k \in j..(i - 1) : k \notin Final
      whole == {i \in Final : InMessage(i)}
      out == Decoded(outgoing \o unsent)
      Payloads(fs, op) == LET of == SelectSeq(fs, LAMBDA f : f.op = op)
                          IN  [i \in DOMAIN of |-> of[i].payload]
  IN  /\ messages = [n \in 1..Cardinality(whole) |-> Message(SetToSortSeq(whole, <)[n])]
      /\ Payloads(out, "pong") = Payloads(seen, "ping")
      /\ Len(Payloads(out, "close")) <= 1
      /\ Contains(Payloads(out, "close"), ProtocolError) =>
           seen[frames].op = "reserved" \/ (seen[frames].op = "continuation" /\ ~InMessage(frames))
      /\ \A op \in {"text", "binary"} : Payloads(out, op) = Payloads(said, op)
==============================================================================
