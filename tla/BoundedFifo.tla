----------------------------- MODULE BoundedFifo -----------------------------
(***************************************************************************)
(* What a bounded multi-producer multi-consumer queue promises, without    *)
(* its slots, sequence numbers and positions: items enter at the back of   *)
(* one sequence, at most Capacity of them are inside, and each leaves once *)
(* from the front into the hand of the consumer that popped it.  A failed  *)
(* try_push or try_pop changes nothing and is a stuttering step here.      *)
(***************************************************************************)
EXTENDS Naturals, Sequences

CONSTANTS Consumers, Capacity, Item, None

VARIABLES queue,      \* the items inside, oldest first
          hand,       \* hand[c]: the item c popped and has not moved out yet
          delivered   \* the items that some consumer has received

vars == <<queue, hand, delivered>>

Init ==
  /\ queue = <<>>
  /\ hand = [c \in Consumers |-> None]
  /\ delivered = {}

Push(item) ==
  /\ Len(queue) < Capacity
  /\ queue' = Append(queue, item)
  /\ UNCHANGED <<hand, delivered>>

Pop(c) ==
  /\ hand[c] = None
  /\ queue # <<>>
  /\ hand' = [hand EXCEPT ![c] = Head(queue)]
  /\ queue' = Tail(queue)
  /\ UNCHANGED delivered

\* An item that was received before is never received again.
Receive(c) ==
  /\ hand[c] # None
  /\ hand[c] \notin delivered
  /\ delivered' = delivered \cup {hand[c]}
  /\ hand' = [hand EXCEPT ![c] = None]
  /\ UNCHANGED queue

Next ==
  \/ \E item \in Item : Push(item)
  \/ \E c \in Consumers : Pop(c) \/ Receive(c)

Spec == Init /\ [][Next]_vars
==============================================================================
