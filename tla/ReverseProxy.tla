----------------------------- MODULE ReverseProxy -----------------------------
(* reverse_proxy::on_handle (src/src/server/extensions/reverse_proxy.cpp), with the
   part of connection::write_response that sends on what it returned, and the two
   pumps of a connection that was upgraded.

   A body is a sequence of units.  A message on the wire of an upstream is its
   status, its headers and the units of its body, with "last" at the end of a
   chunked one; the end of the connection is the end of the sequence. *)
EXTENDS Integers, Sequences, FiniteSetsExt

CONSTANTS
  Upstreams,      \* the configured upstreams: sequence of [connects, tls, trusted]
  ProxyRequests,  \* [framing, body, upgrade, early]: "none", "length" or "chunked"
                  \* framing, and what the client sends behind an upgrade
  Replies,        \* [status, framing, body, later]: "length", "chunked", "close" or
                  \* "malformed" framing, and what is sent after the upgrade
  MaxProxied,     \* requests
  ProxyReads      \* how much one read may return

ASSUME ProxyBounds == MaxProxied \in Nat /\ ProxyReads \subseteq Nat \ {0}

\* The end of a chunked body is no unit of it, an answer of 101 has no body, and no
\* upstream answers 502: that is how the proxy's own answer is told from its answers.
ASSUME ProxyMessages ==
  /\ \A r \in ProxyRequests : r.early \in Seq(Range(r.early))
  /\ \A r \in Replies :
       /\ r.body \in Seq(Range(r.body)) /\ r.later \in Seq(Range(r.later)) /\ "last" \notin Range(r.body)
       /\ r.framing \in {"length", "chunked", "close", "malformed"} /\ r.status \in Nat \ {502}
       /\ r.status = 101 => r.body = <<>> /\ r.framing # "chunked"

VARIABLES
  nextUpstream,   \* next_upstream_
  asked,          \* the request that is handled, or NoRequest
  response,          \* what the upstream answers to it
  stage,          \* where on_handle and then write_response is
  proxied,        \* how many requests have been handled
  written,        \* what the upstream has been sent
  rest, broken,   \* what is still to be read from it; whether its connection broke
  leftover,       \* upstream_leftover, then what its body stream holds of it
  answered,       \* the response as the client has got it: [status, framing, body, whole]
  pumps,          \* per direction: where its pump is and what it holds
  open,           \* per end: our socket to it has not been closed
  toCome          \* per end: what is still to be read from it

proxyVars == <<nextUpstream, asked, response, stage, proxied, written, rest, broken, leftover,
               answered, pumps, open, toCome>>
spliceVars == <<pumps, open, toCome>>
relayVars == <<nextUpstream, asked, response, proxied, written, rest, broken, leftover, answered>>

NoRequest == [framing |-> "none", body |-> <<>>, upgrade |-> FALSE, early |-> <<>>]
NoResponse == [status |-> 0, framing |-> "none", body |-> <<>>, later |-> <<>>]
NotAnswered == [status |-> 0, framing |-> "none", body |-> <<>>, whole |-> FALSE]

ReplyMessage(r) ==
  <<"status", "headers">> \o r.body \o (IF r.framing = "chunked" THEN <<"last">> ELSE <<>>)

ProxyInit ==
  /\ nextUpstream = 0 /\ asked = NoRequest /\ response = NoResponse /\ stage = "idle" /\ proxied = 0
  /\ written = <<>> /\ rest = <<>> /\ broken = FALSE /\ leftover = <<>> /\ answered = NotAnswered
  /\ pumps = <<>> /\ open = <<>> /\ toCome = <<>>

Goes(where) == stage' = where /\ UNCHANGED <<nextUpstream, asked, response, proxied, spliceVars>>
Up == Upstreams[nextUpstream]

\* A response of the proxy's own, sent by the connection.
Respond(status) ==
  /\ Goes("done")
  /\ answered' = [status |-> status, framing |-> "length", body |-> <<>>, whole |-> TRUE]

(***************************************************************************)
(* The request                                                             *)
(***************************************************************************)

\* pick_upstream; nextUpstream is the one picked, counted from 1.
PickUpstream(r, answer) ==
  /\ stage = "idle" /\ proxied < MaxProxied
  /\ asked' = r /\ response' = answer /\ proxied' = proxied + 1
  /\ nextUpstream' = (nextUpstream % Len(Upstreams)) + 1
  /\ stage' = "connect"
  /\ written' = <<>> /\ rest' = <<>> /\ broken' = FALSE /\ leftover' = <<>> /\ answered' = NotAnswered
  /\ UNCHANGED spliceVars

ConnectUpstream ==
  /\ stage = "connect"
  /\ \/ Up.connects /\ Goes(IF Up.tls THEN "handshake" ELSE "send") /\ UNCHANGED answered
     \/ Respond(502)
  /\ UNCHANGED <<written, rest, broken, leftover>>
HandshakeUpstream ==
  /\ stage = "handshake"
  /\ IF Up.trusted THEN Goes("send") /\ UNCHANGED answered ELSE Respond(502)
  /\ UNCHANGED <<written, rest, broken, leftover>>

\* A body goes out with the length it came with, or chunked.  The connection may
\* break at any time from here on: what has not been read by then is lost.
SendRequest ==
  /\ stage = "send"
  /\ written' = <<"headers">> \o (IF asked.framing = "none" THEN <<>> ELSE asked.body) \o
                 (IF asked.framing = "chunked" THEN <<"last">> ELSE <<>>)
  /\ rest' = ReplyMessage(response) \o response.later
  /\ Goes("status") /\ UNCHANGED <<broken, leftover, answered>>
UpstreamBreaks ==
  /\ stage \in {"status", "headers", "relay"} /\ ~broken /\ rest # <<>>
  /\ broken' = TRUE /\ rest' = <<>>
  /\ UNCHANGED <<nextUpstream, asked, response, stage, proxied, written, leftover, answered, spliceVars>>
\* Or it is reset, and a read or a write throws: the exception ends the connection
\* of the client as well.
UpstreamResets ==
  /\ stage \in {"send", "status", "headers", "relay"}
  /\ Goes("done") /\ broken' = TRUE
  /\ UNCHANGED <<written, rest, leftover, answered>>

(***************************************************************************)
(* The head of the response                                                *)
(***************************************************************************)

ReadUpstream ==
  \E n \in {Min({k, Len(rest)}) : k \in ProxyReads} :
    leftover' = leftover \o SubSeq(rest, 1, n) /\ rest' = SubSeq(rest, n + 1, Len(rest))

ReadHeadOf(part, then) ==
  /\ stage = part
  /\ \/ /\ leftover # <<>> /\ leftover' = Tail(leftover) /\ UNCHANGED <<rest, answered>>
        /\ Goes(then)
     \/ leftover = <<>> /\ rest # <<>> /\ ReadUpstream /\ Goes(part) /\ UNCHANGED answered
     \/ leftover = <<>> /\ rest = <<>> /\ Respond(502) /\ UNCHANGED <<rest, leftover>>
  /\ UNCHANGED <<written, broken>>

\* make_owned_body_stream and the choice of content_length.  A response that states
\* no length has an empty body.
StartRelay ==
  /\ stage = "response" /\ ~(asked.upgrade /\ response.status = 101)
  /\ IF response.framing = "malformed" THEN Respond(502)
     ELSE /\ answered' = [status |-> response.status, body |-> <<>>, whole |-> FALSE,
                          framing |-> IF response.framing = "chunked" THEN "chunked" ELSE "length"]
          /\ Goes("relay")
  /\ UNCHANGED <<written, rest, broken, leftover>>

(***************************************************************************)
(* write_message_body, reading from the upstream                           *)
(***************************************************************************)

SourceEnded == leftover = <<>> /\ rest = <<>>
ReadToTheEnd == SourceEnded
BodyRead ==
  CASE response.framing = "close" -> TRUE
    [] response.framing = "length" -> Len(answered.body) = Len(response.body)
    [] response.framing = "chunked" -> leftover # <<>> /\ Head(leftover) = "last"

\* The body has been read, or the source ended before: a chunked response is
\* terminated in either case.
RelayEnds ==
  /\ stage = "relay" /\ (BodyRead \/ SourceEnded)
  /\ answered' = [answered EXCEPT !.whole = BodyRead \/ answered.framing = "chunked"]
  /\ Goes("done") /\ UNCHANGED <<written, rest, broken, leftover>>
RelayUnit ==
  /\ stage = "relay" /\ ~BodyRead /\ ~SourceEnded
  /\ IF leftover = <<>> THEN ReadUpstream /\ UNCHANGED answered
     ELSE /\ answered' = [answered EXCEPT !.body = Append(@, Head(leftover))]
          /\ leftover' = Tail(leftover) /\ UNCHANGED rest
  /\ Goes("relay") /\ UNCHANGED <<written, broken>>

(***************************************************************************)
(* The pumps.  "down" goes from the upstream to the client, "up" back.     *)
(***************************************************************************)

Directions == {"down", "up"}
From(d) == IF d = "down" THEN "server" ELSE "client"
To(d) == IF d = "down" THEN "client" ELSE "server"

\* The leftovers are written first; the first unit of what the client sends came
\* with its request.
LeftoverDropped(d) == <<>>
LeftoverOf(d) == IF d = "down" THEN leftover ELSE SubSeq(asked.early, 1, Min({1, Len(asked.early)}))
StartSplice ==
  /\ stage = "response" /\ asked.upgrade /\ response.status = 101
  /\ stage' = "splice"
  /\ answered' = [status |-> 101, framing |-> "none", body |-> <<>>, whole |-> TRUE]
  /\ pumps' = [d \in Directions |-> [at |-> "write", holds |-> LeftoverOf(d), got |-> <<>>, failed |-> FALSE]]
  /\ open' = [e \in {"client", "server"} |-> TRUE]
  /\ toCome' = [e \in {"client", "server"} |->
                  IF e = "client" THEN SubSeq(asked.early, 2, Len(asked.early)) ELSE rest]
  /\ rest' = <<>> /\ leftover' = <<>>
  /\ UNCHANGED <<nextUpstream, asked, response, proxied, written, broken>>

SetPump(d, p) == pumps' = [pumps EXCEPT ![d] = p]
Spliced == stage = "splice" /\ UNCHANGED <<relayVars, stage>>
Fails(d) == SetPump(d, [pumps[d] EXCEPT !.at = "close", !.failed = TRUE])

\* write_all: a part is taken at a time, or the peer has gone and the write throws.
PumpWrites(d) ==
  /\ Spliced /\ pumps[d].at = "write"
  /\ \/ pumps[d].holds = <<>> /\ SetPump(d, [pumps[d] EXCEPT !.at = "read"])
     \/ pumps[d].holds # <<>> /\ Fails(d)
     \/ /\ pumps[d].holds # <<>>
        /\ \E n \in {1, Len(pumps[d].holds)} :
             SetPump(d, [pumps[d] EXCEPT !.got = @ \o SubSeq(pumps[d].holds, 1, n),
                                         !.holds = SubSeq(@, n + 1, Len(@))])
  /\ UNCHANGED <<open, toCome>>

\* from->read: it waits when nothing is there yet, which is any time.
PumpReads(d) ==
  /\ Spliced /\ pumps[d].at \in {"read", "waiting"}
  /\ \/ /\ open[From(d)] /\ toCome[From(d)] # <<>>
        /\ \E n \in {Min({k, Len(toCome[From(d)])}) : k \in ProxyReads} :
             /\ SetPump(d, [pumps[d] EXCEPT !.at = "write", !.holds = SubSeq(toCome[From(d)], 1, n)])
             /\ toCome' = [toCome EXCEPT ![From(d)] = SubSeq(@, n + 1, Len(@))]
     \/ /\ open[From(d)] /\ toCome[From(d)] = <<>> /\ SetPump(d, [pumps[d] EXCEPT !.at = "close"])
        /\ UNCHANGED toCome
     \/ ~open[From(d)] /\ pumps[d].at = "read" /\ Fails(d) /\ UNCHANGED toCome
     \/ open[From(d)] /\ pumps[d].at = "read" /\ SetPump(d, [pumps[d] EXCEPT !.at = "waiting"]) /\ UNCHANGED toCome
  /\ UNCHANGED open

\* to->close(): the io_context forgets the other pump, if it waits for that socket.
PumpCloses(d) ==
  /\ Spliced /\ pumps[d].at = "close"
  /\ open' = [open EXCEPT ![To(d)] = FALSE]
  /\ pumps' = [e \in Directions |->
       IF e = d THEN [pumps[e] EXCEPT !.at = "ended"]
       ELSE IF pumps[e].at = "waiting" THEN [pumps[e] EXCEPT !.at = "forgotten"] ELSE pumps[e]]
  /\ UNCHANGED toCome

\* The next request, on another connection.
NextProxied ==
  /\ stage = "done" /\ stage' = "idle" /\ UNCHANGED <<relayVars, spliceVars>>

ProxyNext ==
  \/ \E r \in ProxyRequests, answer \in Replies : PickUpstream(r, answer)
  \/ ConnectUpstream \/ HandshakeUpstream \/ SendRequest \/ UpstreamBreaks \/ UpstreamResets
  \/ ReadHeadOf("status", "headers") \/ ReadHeadOf("headers", "response")
  \/ StartRelay \/ RelayUnit \/ RelayEnds
  \/ StartSplice \/ NextProxied
  \/ \E d \in Directions : PumpWrites(d) \/ PumpReads(d) \/ PumpCloses(d)

ProxySpec == ProxyInit /\ [][ProxyNext]_proxyVars

(***************************************************************************)
(* Properties                                                              *)
(***************************************************************************)

Begins(s, t) == Len(s) <= Len(t) /\ SubSeq(t, 1, Len(s)) = s

\* What the client gets of a response that states its length is a beginning of what
\* the upstream sent, never more and never a byte of the head or of the next thing
\* on that connection; all of it unless the upstream broke off, and a response with
\* a Content-Length is never taken for whole when it is not.
RelayStaysInFrame ==
  stage \in {"relay", "done"} /\ answered.status = response.status /\ response.framing \in {"length", "chunked"} =>
    /\ Begins(answered.body, response.body)
    /\ stage = "done" /\ ~broken => answered.whole /\ answered.body = response.body
    /\ answered.whole /\ response.framing = "length" => answered.body = response.body

\* The splice is two byte streams: each end gets what the other sent, the bytes that
\* came with the head first, in order and without a gap; and a pump that ended
\* because its source ended has passed on all of it.
SpliceKeepsTheBytes ==
  stage = "splice" =>
    \A d \in Directions :
      LET all == IF d = "down" THEN response.later ELSE asked.early IN
        /\ Begins(pumps[d].got \o pumps[d].holds \o toCome[From(d)], all)
        /\ pumps[d].at = "ended" /\ ~pumps[d].failed /\ ~broken => pumps[d].got = all
==============================================================================
