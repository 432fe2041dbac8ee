---------------------------- MODULE MCThreadPool ----------------------------
(* Two reactor threads, two workers and a queue of two places: callers can
   publish out of order, the queue fills, and both workers can sleep. *)
EXTENDS ThreadPool
==============================================================================
