-------------------------------- MODULE MCSite --------------------------------
(* Nine models side by side, of which one moves while the others stay in their
   initial state.  Two applications register routes: the first patterns that overlap
   in every kind of child, asked for paths with doubled and missing segments, the
   second groups in groups.  A request passes every order of mounting a site with
   overlays, nested vpaths, a single file and a WebSocket endpoint.  A file is served
   while it changes.  And what lies between the kernel and a handler: the IOCP
   reactor, header compression, multipart bodies, WebSocket frames, TLS and the
   reverse proxy. *)
EXTENDS Router, Extensions, FileServing, IocpReactor, Hpack, Multipart, WsConnection, TlsStream,
        ReverseProxy, TLC

SomeApps ==
  {[patterns |-> {<<"/", "a">>, <<"/", ":x", "/", "b", "/", "a">>, <<"/", ":y", "/", "*">>,
                  <<"/", "a", "/", ":x">>, <<"/", "*">>},
    requests |-> {<<"/">>, <<"/", "a">>, <<"/", "a", "/", "b">>, <<"/", "b", "/", "b", "/", "a">>,
                  <<"/", "b", "/", "/", "b">>, <<"/", "/">>},
    groups |-> 0, calls |-> 3],
   [patterns |-> {<<"/", "a">>}, requests |-> {<<"/", "a">>}, groups |-> 2, calls |-> 3]}
OnlyA == {{"a"}}

M(kind, prio, within, base, dir) ==
  [kind |-> kind, prio |-> prio, within |-> within, base |-> base, hosts |-> {"h"}, dir |-> dir]
SomeMounts ==
  [site |-> M("vhost", 1, "listener", <<>>, ""),
   api |-> M("app", 1, "site", <<"/", "a", "/">>, ""),
   pages |-> M("overlay", 2, "site", <<>>, "p"),
   theme |-> M("overlay", 2, "site", <<>>, "t"),
   inner |-> M("vpath", 2, "api", <<"/", "b">>, ""),
   deep |-> M("overlay", 1, "inner", <<>>, "p"),
   icon |-> M("single", 1, "inner", <<"/", "f">>, "i"),
   chat |-> M("ws", 0, "listener", <<"/", "w">>, ""),
   all |-> M("vpath", 3, "listener", <<"/">>, ""),
   rest |-> M("overlay", 1, "all", <<>>, "t")]
SomeTree ==
  <<"p">> :> "directory" @@ <<"p", "f">> :> "file" @@ <<"p", "d">> :> "directory" @@
  <<"t">> :> "directory" @@ <<"t", "index">> :> "file" @@ <<"t", "f">> :> "file" @@
  <<"t", "g">> :> "file" @@ <<"i">> :> "file" @@ <<"q">> :> "file"
P(names) == FlattenSeq([i \in DOMAIN names |-> <<"/", names[i]>>])
R(path, verb, host) ==
  [path |-> path, verb |-> verb, host |-> host, upgrade |-> path = P(<<"w">>), key |-> host = "h"]
SomeRequests ==
  {R(path, "GET", "h") : path \in {<<"/">>, <<"/", "f", "/">>} \cup
     {P(p) : p \in {<<"f">>, <<"g">>, <<"w">>, <<"d">>, <<"d", "..", "f">>, <<"..", "q">>,
                   <<"a">>, <<"a", "f">>, <<"a", "b">>, <<"a", "b", "f">>, <<"a", "b", "..", "f">>,
                   <<"a", "b", "..", "..", "q">>, <<"a", "b", ".", "g">>}}} \cup
  {R(P(p), v[1], v[2]) : p \in {<<"f">>, <<"w">>, <<"a", "b", "f">>}, v \in {<<"POST", "h">>, <<"GET", "i">>}}

Whole == [verb |-> "GET", wire |-> "tls", mmap |-> TRUE,
          range |-> [unit |-> "none", first |-> 0, last |-> 0],
          ifMatch |-> {}, ifNoneMatch |-> {}, ifModifiedSince |-> Absent, ifRange |-> <<>>]
Ranges == [unit : {"bytes"}, first : {Empty, Junk, 0, 1, 3}, last : {Empty, Junk, 0, 2, 4, 9}]
            \cup [unit : {"bytes"}, first : {17, 33}, last : {Empty, 2, 34}]
            \cup [unit : {"bytes"}, first : {Empty, 1}, last : {18, 34}]
            \cup {[unit |-> "lines", first |-> 1, last |-> 2]}
Tags == {{}, {"any"}, {<<0, 2>>, <<9, 9>>}}
SomeFileRequests ==
  {[Whole EXCEPT !.range = r] : r \in Ranges} \cup
  {[Whole EXCEPT !.verb = v, !.wire = w, !.mmap = m] :
     v \in {"GET", "HEAD"}, w \in {"tcp", "tls"}, m \in BOOLEAN} \cup
  {[Whole EXCEPT !.ifMatch = m, !.ifNoneMatch = n, !.ifModifiedSince = d] :
     m \in Tags, n \in Tags, d \in {Absent, Junk, 0, 1}} \cup
  {[Whole EXCEPT !.range = [unit |-> "bytes", first |-> 1, last |-> 3], !.ifRange = i] :
     i \in {<<0, 2>>, <<9, 9>>, <<0>>, <<Junk>>}}

SomeCodes ==
  33 :> <<1, 1, 1, 1, 1, 1, 1, 0, 0, 0>> @@ 38 :> <<1, 1, 1, 1, 1, 0, 0, 0>> @@
  48 :> <<0, 0, 0, 0, 0>> @@ 58 :> <<1, 0, 1, 1, 1, 0, 0>>
SomeNames == [str : {<<48>>}, huffman : {TRUE}]
SomeValues == [str : {<<>>, <<33, 38>>}, huffman : BOOLEAN] \cup
              [str : {[i \in 1..127 |-> 48]}, huffman : {FALSE}]
SomeResponses == {<<[name |-> n, value |-> v]>> : n \in {<<58>>, <<48, 58>>},
                    v \in {[i \in 1..k |-> c] : k \in {0, 1, 8, 30}, c \in {33, 48, 58}}}

Part(h, body) == [headers |-> h, body |-> body]
SomeMessages ==
  {<<Part(h, body), Part(1, next)>> : h \in 0..1,
     body \in {<<>>, <<"x", "r">>, <<"r", "n", "-", "-">>, <<"r", "r", "n", "x", "x", "x">>},
     next \in {<<"n">>, <<"-", "-", "B", "x">>}}

F(fin, o, payload) == [fin |-> fin, op |-> o, payload |-> payload, key |-> <<1, 0, 1, 1>>]
NoKey == <<0>>
SomeScripts == {
  <<F(FALSE, "text", <<1, 0, 0, 1, 1, 0>>), F(TRUE, "ping", <<1>>), F(FALSE, "continuation", <<>>),
    F(TRUE, "pong", <<>>), F(TRUE, "continuation", <<0, 1>>), F(TRUE, "close", <<1, 1>>)>>,
  <<F(TRUE, "ping", <<1, 0, 1, 0>>), F(TRUE, "binary", <<>>), F(TRUE, "continuation", <<1>>),
    F(TRUE, "ping", <<>>)>>,
  <<[F(TRUE, "binary", <<0, 1, 1>>) EXCEPT !.key = NoKey], F(FALSE, "text", <<1>>),
    F(TRUE, "text", <<0>>), F(TRUE, "reserved", <<>>)>>}
SomeSends == {<<>>, <<1>>, <<1, 0>>, <<0, 1, 1>>, <<1, 1, 0, 1>>}

SomeUsers == {"io" :> {"read", "write", "close"}, "down" :> {"read"} @@ "up" :> {"write", "close"}}

SomeUpstreams ==
  <<[connects |-> TRUE, tls |-> FALSE, trusted |-> TRUE], [connects |-> TRUE, tls |-> TRUE, trusted |-> TRUE],
    [connects |-> TRUE, tls |-> TRUE, trusted |-> FALSE], [connects |-> FALSE, tls |-> FALSE, trusted |-> TRUE]>>
SomeProxyRequests ==
  {[NoRequest EXCEPT !.framing = f, !.body = <<"p", "q">>] : f \in {"length", "chunked"}} \cup {NoRequest} \cup
  {[NoRequest EXCEPT !.upgrade = TRUE, !.early = e] : e \in {<<>>, <<"1", "2", "3">>}}
SomeReplies ==
  [status : {200}, framing : {"length", "chunked", "close", "malformed"}, body : {<<"1", "2", "3">>}, later : {<<>>}] \cup
  [status : {200}, framing : {"length", "chunked"}, body : {<<>>}, later : {<<>>, <<"8">>}] \cup
  [status : {101}, framing : {"close"}, body : {<<>>}, later : {<<>>, <<"4", "5", "6", "7">>}]

VARIABLE moving   \* the model that moves
allVars == <<moving, routerVars, extVars, fsVars, iocpVars, hpackVars, mpVars, wsVars, tlsVars, proxyVars>>

AllInit ==
  /\ moving \in {"router", "ext", "fs", "iocp", "hpack", "mp", "ws", "tls", "proxy"}
  /\ RouterInit /\ ExtInit /\ FsInit /\ IocpInit /\ HpackInit /\ MpInit /\ WsInit /\ TlsInit /\ ProxyInit
  /\ moving # "router" => app.groups = 0

RouterMoves ==
  /\ moving = "router" /\ RouterNext
  /\ UNCHANGED <<moving, extVars, fsVars, iocpVars, hpackVars, mpVars, wsVars, tlsVars, proxyVars>>
ExtMoves ==
  /\ moving = "ext" /\ ExtNext
  /\ UNCHANGED <<moving, routerVars, fsVars, iocpVars, hpackVars, mpVars, wsVars, tlsVars, proxyVars>>
FsMoves ==
  /\ moving = "fs" /\ FsNext
  /\ UNCHANGED <<moving, routerVars, extVars, iocpVars, hpackVars, mpVars, wsVars, tlsVars, proxyVars>>
IocpMoves ==
  /\ moving = "iocp" /\ IocpNext
  /\ UNCHANGED <<moving, routerVars, extVars, fsVars, hpackVars, mpVars, wsVars, tlsVars, proxyVars>>
HpackMoves ==
  /\ moving = "hpack" /\ HpackNext
  /\ UNCHANGED <<moving, routerVars, extVars, fsVars, iocpVars, mpVars, wsVars, tlsVars, proxyVars>>
MpMoves ==
  /\ moving = "mp" /\ MpNext
  /\ UNCHANGED <<moving, routerVars, extVars, fsVars, iocpVars, hpackVars, wsVars, tlsVars, proxyVars>>
WsMoves ==
  /\ moving = "ws" /\ WsNext
  /\ UNCHANGED <<moving, routerVars, extVars, fsVars, iocpVars, hpackVars, mpVars, tlsVars, proxyVars>>
TlsMoves ==
  /\ moving = "tls" /\ TlsNext
  /\ UNCHANGED <<moving, routerVars, extVars, fsVars, iocpVars, hpackVars, mpVars, wsVars, proxyVars>>
ProxyMoves ==
  /\ moving = "proxy" /\ ProxyNext
  /\ UNCHANGED <<moving, routerVars, extVars, fsVars, iocpVars, hpackVars, mpVars, wsVars, tlsVars>>

Spec == AllInit /\ [][\/ RouterMoves \/ ExtMoves \/ FsMoves \/ IocpMoves \/ HpackMoves
                      \/ MpMoves \/ WsMoves \/ TlsMoves \/ ProxyMoves]_allVars

\* Two of them by themselves, where a run looks for one behaviour.
FileSpec == AllInit /\ [][FsMoves]_allVars
ReactorSpec == AllInit /\ [][IocpMoves]_allVars
==============================================================================
