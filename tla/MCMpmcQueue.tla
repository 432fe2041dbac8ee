----------------------------- MODULE MCMpmcQueue -----------------------------
(* Two producers and two consumers on two slots, each producer pushing up to
   MaxItems items: the ring is lapped, filled and emptied, and every
   compare-and-swap is contended. *)
EXTENDS MpmcQueue
==============================================================================
