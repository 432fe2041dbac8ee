-------------------------- MODULE MCHttp1Connection --------------------------
(* Pairs of requests with every combination of body framings, sent one by one
   or pipelined, and single requests with each flaw; buffers of two tokens, so
   that lines, chunks and requests are split and joined by reads.  The answers
   have no body, one of known or unknown length, one longer than its length and
   one shorter. *)
EXTENDS Http1Connection

Plain(framing, chunks) == [framing |-> framing, chunks |-> chunks, close |-> FALSE, flaw |-> "none"]
Bodiless == Plain("none", <<>>)
Counted == Plain("length", <<2>>)
Chunked == Plain("chunked", <<2, 1>>)
Flawed(r, flaw) == [r EXCEPT !.flaw = flaw]

SomeScripts ==
  {<<a, b>> : a \in {Bodiless, Counted, Chunked}, b \in {Bodiless, Counted, Chunked}}
  \cup {<<Flawed(Bodiless, "line")>>, <<Flawed(Bodiless, "header")>>, <<Flawed(Counted, "length")>>,
        <<Flawed(Chunked, "size")>>, <<[Bodiless EXCEPT !.close = TRUE], Bodiless>>}

Reply(units, length) == [units |-> units, length |-> length, upgrade |-> FALSE, refused |-> FALSE]

SomeAnswers ==
  {Reply(-1, 0), Reply(1, -1), Reply(2, 1), Reply(1, 2), [Reply(-1, 0) EXCEPT !.upgrade = TRUE]}
==============================================================================
