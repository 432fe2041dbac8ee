----------------------------- MODULE MCListener -----------------------------
(* Two contexts and three clients of two endpoints against a limit of one
   connection: the limit is reached, overrun by a racing context, and clients are
   turned away. *)
EXTENDS Listener

CONSTANT SecureClients
DialsBoth == [k \in Clients |-> IF k \in SecureClients THEN "tls" ELSE "plain"]
==============================================================================
