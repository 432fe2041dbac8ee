---------------------------- MODULE MCIoContext ----------------------------
(* Two coroutines and two sockets, with three kinds of work.  A reader and a writer
   of one socket: an event can resume two coroutines, and the interest of a
   registration grows, shrinks and disappears.  Readers of two sockets: a batch holds
   two events, and the coroutine of the first runs before the second is looked at.
   The pumps of a splice: each reads one socket, writes the other and closes it. *)
EXTENDS IoContext

CONSTANTS s1, s2

TwoSocks == {s1, s2}
TwoCoros == {"a", "b"}

Does(a, b) == [h \in TwoCoros |-> IF h = "a" THEN a ELSE b]
Serves(s, d) == [uses |-> {<<s, d>>}, closes |-> {}]
Pumps(from, to) == [uses |-> {<<from, "r">>, <<to, "w">>}, closes |-> {to}]

Splice == {Does(Pumps(s1, s2), Pumps(s2, s1))}
ThreeWorkloads == {Does(Serves(s1, "r"), Serves(s1, "w")), Does(Serves(s1, "r"), Serves(s2, "r"))}
                    \cup Splice
==============================================================================
