------------------------------ MODULE TlsStream ------------------------------
(* tls_stream (src/src/tls/stream.cpp): every operation first lets OpenSSL work on
   two memory BIOs, then moves what it left in wbio_ to the socket, and only then,
   when OpenSSL asks for more, reads the socket into rbio_.

   Ciphertext is a sequence of numbered units in the order OpenSSL made them: the
   peer can only decrypt them in that order.  One coroutine uses the stream as a
   connection does (read, write, read, ...), or two do, as the two pumps of a
   proxied upgrade.  Coroutines of one io_context run one at a time, and change over
   only where one of them waits for the socket. *)
EXTENDS Integers, Sequences, FiniteSets, FiniteSetsExt

CONSTANTS
  UserSets,     \* the sets of coroutines that may share the stream: each a function
                \* from coroutines to the operations that one calls, in any order
  MaxRecords,   \* records the peer sends after its handshake flights
  MaxCalls,     \* calls of read, write and close
  Space,        \* units that the socket's send buffer takes
  FlushChunk    \* units that fit in flush_wbio's buf[4096]

ASSUME TlsBounds == {MaxRecords, MaxCalls} \subseteq Nat /\ {Space, FlushChunk} \subseteq Nat \ {0}
ASSUME TlsUsers == \A us \in UserSets : IsFiniteSet(DOMAIN us) /\ "none" \notin DOMAIN us

VARIABLES
  users,        \* the coroutines of this run, [] before the stream is opened
  running,      \* the coroutine that runs, or "none"
  pc,           \* where each coroutine is
  op, after,    \* its operation, and what it does once wbio_ is flushed
  chunk,        \* what it has taken from wbio_ and not written yet
  handshake,    \* the flights that are still to come, 0 when SSL is open
  rbio, wbio,   \* the records read and not consumed; the units not flushed
  made,         \* how many units OpenSSL has made
  wire, free,   \* the units written to the socket; the space left in its buffer
  net, records, \* what has arrived at the socket; how many records the peer sent
  waiter,       \* reg.write_waiter, the one slot of the socket for a writer
  begun         \* operations begun

tlsVars == <<users, running, pc, op, after, chunk, handshake, rbio, wbio, made, wire, free,
             net, records, waiter, begun>>
sslVars == <<handshake, rbio, wbio, made>>
socketVars == <<wire, free, net, records, waiter>>

Units(n) == [i \in 1..n |-> made + i]
Goto(u, where) == pc' = [pc EXCEPT ![u] = where]

TlsInit ==
  /\ users = <<>> /\ running = "none" /\ pc = <<>> /\ op = <<>> /\ after = <<>> /\ chunk = <<>>
  /\ handshake = 2 /\ rbio = <<>> /\ wbio = <<>> /\ made = 0
  /\ wire = <<>> /\ free = Space /\ net = <<>> /\ records = 0 /\ waiter = "none" /\ begun = 0

\* The constructor, and the call of accept or connect that the first coroutine
\* makes before any other uses the stream.
OpenStream(us) ==
  /\ users = <<>> /\ users' = us
  /\ op' = [u \in DOMAIN us |-> "accept"]
  /\ after' = [u \in DOMAIN us |-> ""] /\ chunk' = [u \in DOMAIN us |-> <<>>]
  /\ \E u \in DOMAIN us :
       /\ running' = u
       /\ pc' = [v \in DOMAIN us |-> IF v = u THEN "ssl" ELSE "idle"]
  /\ UNCHANGED <<handshake, rbio, wbio, made, wire, free, net, records, waiter, begun>>

\* A coroutine whose turn it is calls an operation.
StartOp(u, o) ==
  /\ running = "none" /\ pc[u] = "idle" /\ handshake = 0 /\ begun < MaxCalls
  /\ \A v \in DOMAIN users : op[v] # "close" /\ (v # u => op[v] # "accept" \/ pc[v] = "idle")
  /\ o \in users[u]
  /\ begun' = begun + 1 /\ op' = [op EXCEPT ![u] = o]
  /\ running' = u /\ Goto(u, "ssl")
  /\ UNCHANGED <<users, after, chunk, sslVars, socketVars>>

(***************************************************************************)
(* What OpenSSL does: one call works until it needs a record it does not   *)
(* have (SSL_ERROR_WANT_READ) or has its result.  SSL_ERROR_WANT_WRITE     *)
(* cannot come of a memory BIO.                                            *)
(***************************************************************************)

Makes(n) == wbio' = wbio \o Units(n) /\ made' = made + n
Consumes == rbio # <<>> /\ rbio' = Tail(rbio)
Then(u, what) ==
  /\ after' = [after EXCEPT ![u] = what]
  /\ Goto(u, "flush")
  /\ UNCHANGED <<users, running, op, chunk, socketVars, begun>>
WorksOn == UNCHANGED <<users, running, pc, op, after, chunk, socketVars, begun>>

\* SSL_accept and SSL_connect answer each flight of the peer with one of two units.
HandshakeWantsMore(u) ==
  /\ op[u] = "accept" /\ rbio = <<>> /\ handshake > 0
  /\ UNCHANGED sslVars /\ Then(u, "feed")
HandshakeAdvances(u) ==
  /\ op[u] = "accept" /\ Consumes /\ Head(rbio) = "flight" /\ Makes(2)
  /\ handshake' = handshake - 1
  /\ IF handshake = 1 THEN Then(u, "return") ELSE WorksOn

\* SSL_read: data is returned, a key update is answered with a unit of its own.
ReadWantsMore(u) == op[u] = "read" /\ rbio = <<>> /\ UNCHANGED sslVars /\ Then(u, "feed")
ReadData(u) ==
  /\ op[u] = "read" /\ Consumes /\ Head(rbio) \in {"data", "close_notify"}
  /\ UNCHANGED <<handshake, wbio, made>> /\ Then(u, "return")
ReadKeyUpdate(u) ==
  /\ op[u] = "read" /\ Consumes /\ Head(rbio) = "key_update"
  /\ Makes(1) /\ UNCHANGED handshake /\ WorksOn
\* Any other error: an alert is made and the operation returns false or 0.
SslFails(u) ==
  /\ op[u] \in {"accept", "read"} /\ Consumes /\ Head(rbio) = "bad"
  /\ Makes(1) /\ UNCHANGED handshake /\ Then(u, "return")
SslWrite(u) == op[u] = "write" /\ Makes(2) /\ UNCHANGED <<handshake, rbio>> /\ Then(u, "return")
\* A session that broke before: nothing is made and write returns 0.  SSL_write asks
\* for a record only in the middle of a renegotiation, which is not modelled.
SslWriteFails(u) == op[u] = "write" /\ UNCHANGED sslVars /\ Then(u, "return")
SslShutdown(u) == op[u] = "close" /\ Makes(1) /\ UNCHANGED <<handshake, rbio>> /\ Then(u, "return")

SslWorks(u) ==
  /\ pc[u] = "ssl"
  /\ \/ HandshakeWantsMore(u) \/ HandshakeAdvances(u) \/ ReadWantsMore(u) \/ ReadData(u)
     \/ ReadKeyUpdate(u) \/ SslFails(u) \/ SslWrite(u) \/ SslWriteFails(u)
     \/ SslShutdown(u)

(***************************************************************************)
(* flush_wbio                                                              *)
(***************************************************************************)

FlushedUnlessFeeding(u) == wbio = <<>> \/ after[u] = "feed"
FlushedFirst(u) == wbio = <<>>

FlushTakes(u) ==
  /\ pc[u] = "flush" /\ ~FlushedFirst(u)
  /\ LET n == Min({FlushChunk, Len(wbio)}) IN
       /\ chunk' = [chunk EXCEPT ![u] = SubSeq(wbio, 1, n)]
       /\ wbio' = SubSeq(wbio, n + 1, Len(wbio))
  /\ Goto(u, "write")
  /\ UNCHANGED <<users, running, op, after, handshake, rbio, made, socketVars, begun>>

\* inner_->write: as much as the socket takes, and a wait when it takes nothing.
FlushWrites(u) ==
  /\ pc[u] = "write" /\ free > 0
  /\ LET n == Min({free, Len(chunk[u])})
         rest == SubSeq(chunk[u], n + 1, Len(chunk[u])) IN
       /\ wire' = wire \o SubSeq(chunk[u], 1, n) /\ free' = free - n
       /\ chunk' = [chunk EXCEPT ![u] = rest]
       /\ Goto(u, IF rest = <<>> THEN "flush" ELSE "write")
  /\ UNCHANGED <<users, running, op, after, sslVars, net, records, waiter, begun>>
FlushWaits(u) ==
  /\ pc[u] = "write" /\ free = 0
  /\ waiter' = u /\ running' = "none" /\ Goto(u, "blocked")
  /\ UNCHANGED <<users, op, after, chunk, sslVars, wire, free, net, records, begun>>

\* wbio_ is empty: the operation goes on with feed_rbio_from_network or returns to
\* its caller.  inner_->close() at the end of close makes the io_context forget who
\* waits for the socket.
Flushed(u) ==
  /\ pc[u] = "flush" /\ FlushedFirst(u)
  /\ \/ after[u] = "feed" /\ Goto(u, "feed") /\ UNCHANGED <<running, waiter>>
     \/ after[u] = "return" /\ op[u] # "close" /\ Goto(u, "idle") /\ running' = "none" /\ UNCHANGED waiter
     \/ /\ after[u] = "return" /\ op[u] = "close" /\ running' = "none" /\ waiter' = "none"
        /\ pc' = [v \in DOMAIN pc |-> IF v = u THEN "idle"
                                      ELSE IF pc[v] \in {"starved", "blocked"} THEN "forgotten" ELSE pc[v]]
  /\ UNCHANGED <<users, op, after, chunk, sslVars, wire, free, net, records, begun>>
Closed == \E u \in DOMAIN users : op[u] = "close" /\ pc[u] = "idle"

(***************************************************************************)
(* feed_rbio_from_network                                                  *)
(***************************************************************************)

\* A read of 0 bytes ends the operation.
Feed(u) ==
  /\ pc[u] = "feed" /\ net # <<>>
  /\ IF Head(net) = "eof"
       THEN Goto(u, "idle") /\ running' = "none" /\ UNCHANGED <<rbio, net>>
       ELSE rbio' = rbio \o net /\ net' = <<>> /\ Goto(u, "ssl") /\ UNCHANGED running
  /\ UNCHANGED <<users, op, after, chunk, handshake, wbio, made, wire, free, records, waiter, begun>>
FeedWaits(u) ==
  /\ pc[u] = "feed" /\ net = <<>>
  /\ running' = "none" /\ Goto(u, "starved")
  /\ UNCHANGED <<users, op, after, chunk, sslVars, socketVars, begun>>

(***************************************************************************)
(* The socket and the peer                                                 *)
(***************************************************************************)

\* The peer takes what is in the send buffer; the io_context resumes the one
\* coroutine that the slot holds.
Drained ==
  /\ running = "none" /\ free < Space /\ ~Closed
  /\ free' = Space /\ waiter' = "none"
  /\ IF waiter = "none" THEN UNCHANGED <<pc, running>>
     ELSE Goto(waiter, "write") /\ running' = waiter
  /\ UNCHANGED <<users, op, after, chunk, sslVars, wire, net, records, begun>>

\* Its handshake flights are answers, after that it sends what it likes.
Arrives(record) ==
  /\ users # <<>> /\ running = "none" /\ net = <<>> /\ records < 2 + MaxRecords /\ ~Closed
  /\ IF records < 2 THEN record \in {"flight", "bad", "eof"} /\ records = 2 - handshake
     ELSE record \in {"data", "key_update", "close_notify", "bad", "eof"} /\ handshake = 0
  /\ records' = records + 1 /\ net' = <<record>>
  /\ LET u == CHOOSE v \in DOMAIN users : pc[v] = "starved"
     IN  IF \E v \in DOMAIN users : pc[v] = "starved" THEN Goto(u, "feed") /\ running' = u
         ELSE UNCHANGED <<pc, running>>
  /\ UNCHANGED <<users, op, after, chunk, sslVars, wire, free, waiter, begun>>

TlsNext ==
  \/ \E us \in UserSets : OpenStream(us)
  \/ \E u \in DOMAIN users : running = u /\
       \/ SslWorks(u)
       \/ FlushTakes(u) \/ FlushWrites(u) \/ FlushWaits(u) \/ Flushed(u)
       \/ Feed(u) \/ FeedWaits(u)
  \/ \E u \in DOMAIN users, o \in {"read", "write", "close"} : StartOp(u, o)
  \/ Drained
  \/ \E record \in {"flight", "data", "key_update", "close_notify", "bad", "eof"} : Arrives(record)

TlsSpec == TlsInit /\ [][TlsNext]_tlsVars

(***************************************************************************)
(* Properties                                                              *)
(***************************************************************************)

\* Nobody is left waiting for a peer that waits for us: while no coroutine runs or
\* waits for room in the socket, all that OpenSSL has made is on the wire (the
\* flush before every feed), and with one coroutine it is there in the order in
\* which it was made, as it must be to be decrypted.
CiphertextGoesOut ==
  /\ running = "none" /\ (\A u \in DOMAIN users : pc[u] \notin {"blocked", "forgotten"}) => Len(wire) = made
  /\ Cardinality(DOMAIN users) = 1 => \A i \in DOMAIN wire : wire[i] = i
==============================================================================
