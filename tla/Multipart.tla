------------------------------ MODULE Multipart ------------------------------
(* multipart_reader (src/src/protocol/http_multipart.cpp): a body in parts, cut by
   a delimiter that may arrive in pieces, read part by part through a stream while
   the caller takes as few bytes at a time as it likes and may leave a part unread.

   A text is a sequence of characters: "r" and "n" are the two of a line break, "B"
   is the boundary, "h" a header line and "x" any other byte.  Bodies hold pieces
   of the delimiter, but not all of it. *)
EXTENDS Integers, Sequences, SequencesExt

CONSTANTS
  Messages,     \* sequences of [headers, body]
  Chunks,       \* how much source_->read may return at most, at one time
  ReadSizes     \* the buffer sizes a caller reads with

VARIABLES
  parts,        \* the message that was sent
  source,       \* what has not been read of it
  cut,          \* the connection broke: the source ends early
  buffer, eof, finished, partActive,     \* the fields of multipart_reader
  call,         \* the call in progress, or "idle"
  room,         \* the buffer size of a read in progress
  lines,        \* the header lines of the part so far
  taken         \* per part: its headers, the bytes read of it, and whether read
                \* has returned 0 to the caller

mpVars == <<parts, source, cut, buffer, eof, finished, partActive, call, room, lines, taken>>

BoundaryMarker == <<"r", "n", "-", "-", "B">>
LineBreak == <<"r", "n">>

WireText(ps) ==
  <<"-", "-", "B">> \o
  FlattenSeq([i \in DOMAIN ps |->
    LineBreak \o FlattenSeq([k \in 1..ps[i].headers |-> <<"h">> \o LineBreak]) \o LineBreak \o
    ps[i].body \o BoundaryMarker]) \o <<"-", "-">>

\* std::string::find: the first occurrence, or 0.
Find(str, pattern) ==
  LET at == {i \in 1..(Len(str) - Len(pattern) + 1) :
               SubSeq(str, i, i + Len(pattern) - 1) = pattern}
  IN  IF at = {} THEN 0 ELSE Min(at)

Drop(str, n) == SubSeq(str, n + 1, Len(str))

(***************************************************************************)
(* fill_more                                                               *)
(***************************************************************************)
FillMore ==
  /\ IF source = <<>>
       THEN eof' = TRUE /\ UNCHANGED <<source, buffer>>
       ELSE \E n \in {Min({c, Len(source)}) : c \in Chunks} :
              /\ buffer' = buffer \o SubSeq(source, 1, n)
              /\ source' = Drop(source, n)
              /\ UNCHANGED eof
  /\ UNCHANGED <<parts, cut, finished, partActive, call, room, lines, taken>>

(***************************************************************************)
(* read_part_body                                                          *)
(***************************************************************************)
\* How many bytes can be given away although the delimiter is not in the buffer:
\* a part of it may be at the end.
SafeWhole(b) == IF Len(b) > Len(BoundaryMarker) THEN Len(b) ELSE 0
Safe(b) == IF Len(b) > Len(BoundaryMarker) THEN Len(b) - (Len(BoundaryMarker) - 1) ELSE 0

\* The bytes before the delimiter, before the end of the source, or those safe to
\* give; -1 when there may be more to come.
Available ==
  LET pos == Find(buffer, BoundaryMarker)
  IN  IF pos > 0 THEN pos - 1
      ELSE IF Safe(buffer) > 0 THEN Safe(buffer)
      ELSE IF eof THEN Len(buffer) ELSE -1

\* One read of at most n bytes, for the caller or, in next_part, for nobody.
ReadPartBody(n, keep) ==
  LET k == Min({n, Available})
      i == Len(taken)
  IN  /\ buffer' = Drop(buffer, k)
      /\ partActive' = (k > 0)
      /\ taken' = IF keep THEN [taken EXCEPT ![i].bytes = @ \o SubSeq(buffer, 1, k),
                                           ![i].ended = (k = 0)]
                 ELSE taken
      /\ UNCHANGED <<parts, source, cut, eof, finished, lines>>

BeginRead(n) ==
  /\ call = "idle"
  /\ partActive
  /\ call' = "read"
  /\ room' = n
  /\ UNCHANGED <<parts, source, cut, buffer, eof, finished, partActive, lines, taken>>

Read ==
  /\ call = "read"
  /\ IF Available = -1 THEN FillMore
     ELSE /\ ReadPartBody(room, TRUE)
          /\ call' = "idle"
          /\ UNCHANGED room

(***************************************************************************)
(* next_part                                                               *)
(***************************************************************************)
BeginNextPart ==
  /\ call = "idle"
  /\ ~finished
  /\ call' = IF partActive THEN "discard" ELSE "delimiter"
  /\ UNCHANGED <<parts, source, cut, buffer, eof, finished, partActive, room, lines, taken>>

\* The rest of a part that was left unread.
Scratch == 4
Discard ==
  /\ call = "discard"
  /\ IF Available = -1 THEN FillMore
     ELSE /\ ReadPartBody(Scratch, FALSE)
          /\ call' = IF Available = 0 THEN "delimiter" ELSE call
          /\ UNCHANGED room

Return(done) ==
  /\ call' = "idle"
  /\ finished' = done

\* ensure_delimiter_or_eof.
Delimiter ==
  LET pos == Find(buffer, BoundaryMarker)
  IN  /\ call = "delimiter"
      /\ IF pos = 0 /\ ~eof THEN FillMore
         ELSE /\ IF pos = 0 THEN Return(TRUE) /\ UNCHANGED buffer
                 ELSE /\ buffer' = Drop(buffer, pos - 1 + Len(BoundaryMarker))
                      /\ call' = "two"
                      /\ UNCHANGED finished
              /\ UNCHANGED <<parts, source, cut, eof, partActive, room, lines, taken>>

\* "--" closes the message, anything else begins a part.
Two ==
  /\ call = "two"
  /\ IF Len(buffer) < 2 /\ ~eof THEN FillMore
     ELSE /\ IF Len(buffer) < 2 \/ SubSeq(buffer, 1, 2) = <<"-", "-">>
               THEN Return(TRUE) /\ UNCHANGED buffer
               ELSE /\ buffer' = Drop(buffer, 2)
                    /\ call' = "lines"
                    /\ UNCHANGED finished
          /\ lines' = 0
          /\ UNCHANGED <<parts, source, cut, eof, partActive, room, taken>>

\* read_header_line until an empty one.
Lines ==
  LET nl == Find(buffer, <<"n">>)
      line == SubSeq(buffer, 1, nl - 1)
      empty == line \in {<<>>, <<"r">>}
  IN  /\ call = "lines"
      /\ IF nl = 0 /\ ~eof THEN FillMore
         ELSE /\ buffer' = Drop(buffer, nl)
              /\ partActive' = (nl > 0 /\ empty)
              /\ lines' = IF nl > 0 /\ ~empty THEN lines + 1 ELSE lines
              /\ taken' = IF nl > 0 /\ empty
                           THEN Append(taken, [headers |-> lines, bytes |-> <<>>, ended |-> FALSE])
                           ELSE taken
              /\ IF nl = 0 THEN Return(TRUE)
                 ELSE /\ call' = IF empty THEN "idle" ELSE call
                      /\ UNCHANGED finished
              /\ UNCHANGED <<parts, source, cut, eof, room>>

\* A message begins to arrive, whole or up to some place in it.
Post(ps, n) ==
  /\ parts' = ps
  /\ source' = SubSeq(WireText(ps), 1, n)
  /\ cut' = (n < Len(WireText(ps)))
  /\ call' = "idle"
  /\ UNCHANGED <<buffer, eof, finished, partActive, room, lines, taken>>

MpInit ==
  /\ parts = <<>>
  /\ source = <<>>
  /\ cut = FALSE
  /\ buffer = LineBreak
  /\ eof = FALSE
  /\ finished = FALSE
  /\ partActive = FALSE
  /\ call = "none"
  /\ room = 0
  /\ lines = 0
  /\ taken = <<>>

MpStep == Read \/ BeginNextPart \/ Discard \/ Delimiter \/ Two \/ Lines
MpNext ==
  \/ call = "none" /\ \E ps \in Messages : \E n \in {Len(WireText(ps)), Len(WireText(ps)) - 4} : Post(ps, n)
  \/ \E n \in ReadSizes : BeginRead(n)
  \/ MpStep

(***************************************************************************)
(* Properties                                                              *)
(***************************************************************************)
\* However the message is cut into chunks and whatever the caller reads of each
\* part, the parts come out in order with their header lines, the bytes of part i
\* are a prefix of its body and all of it once read returned 0, and the closing
\* delimiter is reached after the last part; a delimiter in two chunks never shows
\* up in a body.  (In a message that was cut off, the tail of the last part may hold
\* the beginning of a delimiter.)
PartsComeOutWhole ==
  ~cut /\ call # "none" =>
    /\ Len(taken) <= Len(parts)
    /\ finished => Len(taken) = Len(parts)
    /\ \A i \in DOMAIN taken :
         /\ taken[i].headers = parts[i].headers
         /\ IsPrefix(taken[i].bytes, parts[i].body)
         /\ taken[i].ended => taken[i].bytes = parts[i].body
==============================================================================
