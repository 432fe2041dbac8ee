--------------------------- MODULE MCH2Connection ---------------------------
(* Two streams.  Requests: headers in one or two frames, a body of one unit,
   resets, and frames the handlers refuse.  Responses: bodies of two
   units against windows and frames of one or two units, so that responses
   overlap in send_frame, wait for either window, and are woken by both. *)
EXTENDS H2Connection

In(type, id, n, end_stream, end_headers) ==
  [type |-> type, id |-> id, n |-> n, end_stream |-> end_stream, end_headers |-> end_headers,
   ack |-> FALSE, ok |-> TRUE, hpack |-> TRUE]

Request(id) == In("HEADERS", id, 0, TRUE, TRUE)
Ping == In("PING", 0, 0, FALSE, FALSE)
Credit(id) == In("WINDOW_UPDATE", id, 1, FALSE, FALSE)
NoWindow == In("SETTINGS", 0, 0, FALSE, FALSE)
Reset(id) == In("RST_STREAM", id, 0, FALSE, FALSE)
Malformed(f) == [f EXCEPT !.hpack = FALSE]
Broken(f) == [f EXCEPT !.ok = FALSE]
Ack(f) == [f EXCEPT !.ack = TRUE]

TwoIds == {1, 3}

Headers == {In("HEADERS", i, 0, s, h) : i \in TwoIds, s \in BOOLEAN, h \in BOOLEAN}
MoreHeaders == {In("CONTINUATION", i, 0, FALSE, h) : i \in TwoIds, h \in BOOLEAN}
Data == {In("DATA", i, n, s, FALSE) : i \in TwoIds, n \in 0 .. 1, s \in BOOLEAN}

RequestFrames == Headers \cup MoreHeaders \cup Data \cup {Reset(1)}
ResponseFrames == {Request(1), Request(3), Credit(0), Credit(1), Credit(3), Ping, NoWindow}

\* Frames in any order, refused ones among them.
AnyFrames ==
  Headers \cup MoreHeaders \cup {In("DATA", 1, 2, FALSE, FALSE), In("DATA", 1, 1, TRUE, FALSE)}
  \cup {Malformed(In("CONTINUATION", 1, 0, FALSE, TRUE)), Reset(1), Ping, Ack(Ping), Broken(Ping),
        In("SETTINGS", 0, 2, FALSE, FALSE), In("SETTINGS", 1, 2, FALSE, FALSE),
        In("GOAWAY", 0, 0, FALSE, FALSE), Credit(0), Credit(3), Broken(Credit(0))}

Session(frames, limit, conforming, bodies) ==
  [frames |-> frames, limit |-> limit, conforming |-> conforming,
   bodies |-> bodies]

AllSessions ==
  {Session(RequestFrames, 4, TRUE, {0}), Session(ResponseFrames, 4, TRUE, {2}),
   Session(AnyFrames, 2, FALSE, {0})}
BreakSessions == {Session(ResponseFrames, 2, TRUE, {2})}
==============================================================================
