------------------------------ MODULE MpmcQueue ------------------------------
(***************************************************************************)
(* nhttp::async::detail::mpmc_queue, the lock-free bounded queue under     *)
(* thread_pool (include/nhttp/async/detail/mpmc_queue.hpp).                *)
(*                                                                         *)
(* One step is one access to shared memory: the load of a position, the    *)
(* load of a slot's sequence number, the compare-and-swap, the move of the *)
(* value, the store that publishes or releases the slot.  The branch on    *)
(* diff is local and is taken together with the load that feeds it.        *)
(*                                                                         *)
(* Producers retry a failed push with the same object, as thread_pool's    *)
(* enqueue does, so the item of a producer changes only once it went in.   *)
(***************************************************************************)
EXTENDS Integers, Sequences

CONSTANTS Producers, Consumers,
          Capacity,      \* number of slots; mask_ = Capacity - 1
          MaxItems,      \* bound: how many items one producer pushes
          None

ASSUME CapacityAssumption ==
  /\ Capacity \in Nat
  /\ Capacity >= 2     \* one slot is the degenerate case of mpmc_queue.hpp:28-38

ASSUME ThreadAssumption ==
  /\ Producers \cap Consumers = {}
  /\ MaxItems \in Nat

Threads == Producers \cup Consumers

Item == Producers \X (0 .. MaxItems - 1)

\* A default-constructed T{} in a slot nobody wrote yet, or a moved-from one.
ASSUME NoneAssumption == None \notin Item

VARIABLES enqueue_pos, dequeue_pos,
          sequence,    \* sequence[i]: cell::sequence of slot i
          value,       \* value[i]: cell::value of slot i
          pc,          \* where each thread is inside try_push / try_pop
          pos,         \* the local pos of each thread
          arg,         \* arg[p]: the object p hands to try_push
          sent,        \* sent[p]: how many items of p have claimed a position
          log,         \* history: the items in the order their positions were claimed
          delivered    \* history: the items moved out by try_pop

vars == <<enqueue_pos, dequeue_pos, sequence, value, pc, pos, arg, sent, log, delivered>>

Slots == 0 .. Capacity - 1

\* buffer_[pos & mask_]; capacity is a power of two, so the mask is a remainder.
Slot(x) == x % Capacity

ProducerPc == {"idle", "loadSeq", "reload", "cas", "write", "publish"}
ConsumerPc == {"idle", "loadSeq", "reload", "cas", "read", "release"}

TypeOK ==
  /\ enqueue_pos \in Nat
  /\ dequeue_pos \in Nat
  /\ sequence \in [Slots -> Nat]
  /\ value \in [Slots -> Item \cup {None}]
  /\ pc \in [Threads -> ProducerPc \cup ConsumerPc]
  /\ \A p \in Producers : pc[p] \in ProducerPc
  /\ \A c \in Consumers : pc[c] \in ConsumerPc
  /\ pos \in [Threads -> Nat]
  /\ arg \in [Producers -> Item \cup {None}]
  /\ sent \in [Producers -> 0 .. MaxItems]
  /\ log \in Seq(Item)
  /\ delivered \in SUBSET (Item \cup {None})

Init ==
  /\ enqueue_pos = 0
  /\ dequeue_pos = 0
  /\ sequence = [i \in Slots |-> i]
  /\ value = [i \in Slots |-> None]
  /\ pc = [t \in Threads |-> "idle"]
  /\ pos = [t \in Threads |-> 0]
  /\ arg = [p \in Producers |-> None]
  /\ sent = [p \in Producers |-> 0]
  /\ log = <<>>
  /\ delivered = {}

Goto(t, label) == pc' = [pc EXCEPT ![t] = label]

------------------------------------------------------------------------------
(* try_push *)

PushBegin(p) ==
  /\ pc[p] = "idle"
  /\ sent[p] < MaxItems
  /\ pos' = [pos EXCEPT ![p] = enqueue_pos]
  /\ arg' = [arg EXCEPT ![p] = <<p, sent[p]>>]
  /\ Goto(p, "loadSeq")
  /\ UNCHANGED <<enqueue_pos, dequeue_pos, sequence, value, sent, log, delivered>>

\* Mutant: a slot of the previous lap is taken for a free one.
PushSeesFreeAnyLap(p) ==
  /\ pc[p] = "loadSeq"
  /\ sequence[Slot(pos[p])] <= pos[p]
  /\ Goto(p, "cas")
  /\ UNCHANGED <<enqueue_pos, dequeue_pos, sequence, value, pos, arg, sent, log, delivered>>

\* diff == 0: the slot is free for this position.
PushSeesFree(p) ==
  /\ pc[p] = "loadSeq"
  /\ sequence[Slot(pos[p])] = pos[p]
  /\ Goto(p, "cas")
  /\ UNCHANGED <<enqueue_pos, dequeue_pos, sequence, value, pos, arg, sent, log, delivered>>

\* Mutant: a stale position is taken for a full queue.
PushFullOnStale(p) ==
  /\ pc[p] = "loadSeq"
  /\ sequence[Slot(pos[p])] # pos[p]
  /\ Goto(p, "idle")
  /\ UNCHANGED <<enqueue_pos, dequeue_pos, sequence, value, pos, arg, sent, log, delivered>>

\* diff < 0: return false.
PushFull(p) ==
  /\ pc[p] = "loadSeq"
  /\ sequence[Slot(pos[p])] < pos[p]
  /\ Goto(p, "idle")
  /\ UNCHANGED <<enqueue_pos, dequeue_pos, sequence, value, pos, arg, sent, log, delivered>>

\* diff > 0: another producer took this position.
PushSeesStale(p) ==
  /\ pc[p] = "loadSeq"
  /\ sequence[Slot(pos[p])] > pos[p]
  /\ Goto(p, "reload")
  /\ UNCHANGED <<enqueue_pos, dequeue_pos, sequence, value, pos, arg, sent, log, delivered>>

\* Mutant: the retry keeps the stale position.
PushReloadForgotten(p) ==
  /\ pc[p] = "reload"
  /\ Goto(p, "loadSeq")
  /\ UNCHANGED <<enqueue_pos, dequeue_pos, sequence, value, pos, arg, sent, log, delivered>>

PushReload(p) ==
  /\ pc[p] = "reload"
  /\ pos' = [pos EXCEPT ![p] = enqueue_pos]
  /\ Goto(p, "loadSeq")
  /\ UNCHANGED <<enqueue_pos, dequeue_pos, sequence, value, arg, sent, log, delivered>>

\* Mutant: the slot is published without the value having been moved in.
PushClaimSkipsWrite(p) ==
  /\ pc[p] = "cas"
  /\ enqueue_pos = pos[p]
  /\ enqueue_pos' = pos[p] + 1
  /\ log' = Append(log, arg[p])
  /\ sent' = [sent EXCEPT ![p] = @ + 1]
  /\ Goto(p, "publish")
  /\ UNCHANGED <<dequeue_pos, sequence, value, pos, arg, delivered>>

PushClaim(p) ==
  /\ pc[p] = "cas"
  /\ enqueue_pos = pos[p]
  /\ enqueue_pos' = pos[p] + 1
  /\ log' = Append(log, arg[p])
  /\ sent' = [sent EXCEPT ![p] = @ + 1]
  /\ Goto(p, "write")
  /\ UNCHANGED <<dequeue_pos, sequence, value, pos, arg, delivered>>

\* compare_exchange_weak fails, for good or spuriously, and reloads pos.
PushCasFails(p) ==
  /\ pc[p] = "cas"
  /\ pos' = [pos EXCEPT ![p] = enqueue_pos]
  /\ Goto(p, "loadSeq")
  /\ UNCHANGED <<enqueue_pos, dequeue_pos, sequence, value, arg, sent, log, delivered>>

PushWrite(p) ==
  /\ pc[p] = "write"
  /\ value' = [value EXCEPT ![Slot(pos[p])] = arg[p]]
  /\ Goto(p, "publish")
  /\ UNCHANGED <<enqueue_pos, dequeue_pos, sequence, pos, arg, sent, log, delivered>>

PushPublish(p) ==
  /\ pc[p] = "publish"
  /\ sequence' = [sequence EXCEPT ![Slot(pos[p])] = pos[p] + 1]
  /\ Goto(p, "idle")
  /\ UNCHANGED <<enqueue_pos, dequeue_pos, value, pos, arg, sent, log, delivered>>

------------------------------------------------------------------------------
(* try_pop *)

PopBegin(c) ==
  /\ pc[c] = "idle"
  /\ pos' = [pos EXCEPT ![c] = dequeue_pos]
  /\ Goto(c, "loadSeq")
  /\ UNCHANGED <<enqueue_pos, dequeue_pos, sequence, value, arg, sent, log, delivered>>

PopSeesItem(c) ==
  /\ pc[c] = "loadSeq"
  /\ sequence[Slot(pos[c])] = pos[c] + 1
  /\ Goto(c, "cas")
  /\ UNCHANGED <<enqueue_pos, dequeue_pos, sequence, value, pos, arg, sent, log, delivered>>

\* diff < 0: return false.
PopEmpty(c) ==
  /\ pc[c] = "loadSeq"
  /\ sequence[Slot(pos[c])] < pos[c] + 1
  /\ Goto(c, "idle")
  /\ UNCHANGED <<enqueue_pos, dequeue_pos, sequence, value, pos, arg, sent, log, delivered>>

PopSeesStale(c) ==
  /\ pc[c] = "loadSeq"
  /\ sequence[Slot(pos[c])] > pos[c] + 1
  /\ Goto(c, "reload")
  /\ UNCHANGED <<enqueue_pos, dequeue_pos, sequence, value, pos, arg, sent, log, delivered>>

PopReload(c) ==
  /\ pc[c] = "reload"
  /\ pos' = [pos EXCEPT ![c] = dequeue_pos]
  /\ Goto(c, "loadSeq")
  /\ UNCHANGED <<enqueue_pos, dequeue_pos, sequence, value, arg, sent, log, delivered>>

\* Mutant: a plain store in place of the compare-and-swap.
PopClaimByStore(c) ==
  /\ pc[c] = "cas"
  /\ dequeue_pos' = pos[c] + 1
  /\ Goto(c, "read")
  /\ UNCHANGED <<enqueue_pos, sequence, value, pos, arg, sent, log, delivered>>

PopClaim(c) ==
  /\ pc[c] = "cas"
  /\ dequeue_pos = pos[c]
  /\ dequeue_pos' = pos[c] + 1
  /\ Goto(c, "read")
  /\ UNCHANGED <<enqueue_pos, sequence, value, pos, arg, sent, log, delivered>>

PopCasFails(c) ==
  /\ pc[c] = "cas"
  /\ pos' = [pos EXCEPT ![c] = dequeue_pos]
  /\ Goto(c, "loadSeq")
  /\ UNCHANGED <<enqueue_pos, dequeue_pos, sequence, value, arg, sent, log, delivered>>

PopRead(c) ==
  /\ pc[c] = "read"
  /\ delivered' = delivered \cup {value[Slot(pos[c])]}
  /\ value' = [value EXCEPT ![Slot(pos[c])] = None]     \* moved from
  /\ Goto(c, "release")
  /\ UNCHANGED <<enqueue_pos, dequeue_pos, sequence, pos, arg, sent, log>>

\* Mutant: released with pos + mask_, one short of the next lap.
PopReleaseOneShort(c) ==
  /\ pc[c] = "release"
  /\ sequence' = [sequence EXCEPT ![Slot(pos[c])] = pos[c] + Capacity - 1]
  /\ Goto(c, "idle")
  /\ UNCHANGED <<enqueue_pos, dequeue_pos, value, pos, arg, sent, log, delivered>>

\* pos + mask_ + 1 = pos + Capacity: free for the next lap.
PopRelease(c) ==
  /\ pc[c] = "release"
  /\ sequence' = [sequence EXCEPT ![Slot(pos[c])] = pos[c] + Capacity]
  /\ Goto(c, "idle")
  /\ UNCHANGED <<enqueue_pos, dequeue_pos, value, pos, arg, sent, log, delivered>>

------------------------------------------------------------------------------
Push(p) ==
  \/ PushBegin(p) \/ PushSeesFree(p) \/ PushFull(p) \/ PushSeesStale(p) \/ PushReload(p)
  \/ PushClaim(p) \/ PushCasFails(p) \/ PushWrite(p) \/ PushPublish(p)

Pop(c) ==
  \/ PopBegin(c) \/ PopSeesItem(c) \/ PopEmpty(c) \/ PopSeesStale(c) \/ PopReload(c)
  \/ PopClaim(c) \/ PopCasFails(c) \/ PopRead(c) \/ PopRelease(c)

Next ==
  \/ \E p \in Producers : Push(p)
  \/ \E c \in Consumers : Pop(c)

Spec == Init /\ [][Next]_vars

(* A thread inside an operation is scheduled, and compare_exchange_weak does
   not fail spuriously for ever: a claim that is possible again and again is
   made.  Nothing obliges a caller to begin an operation. *)
Fairness ==
  /\ \A p \in Producers :
       /\ WF_vars(PushSeesFree(p) \/ PushFull(p) \/ PushSeesStale(p) \/ PushReload(p)
                  \/ PushCasFails(p) \/ PushWrite(p) \/ PushPublish(p))
       /\ SF_vars(PushClaim(p))
  /\ \A c \in Consumers :
       /\ WF_vars(PopSeesItem(c) \/ PopEmpty(c) \/ PopSeesStale(c) \/ PopReload(c)
                  \/ PopCasFails(c) \/ PopRead(c) \/ PopRelease(c))
       /\ SF_vars(PopClaim(c))

FairSpec == Spec /\ Fairness

------------------------------------------------------------------------------
(* Properties *)

Writing(p) == pc[p] \in {"write", "publish"}
Reading(c) == pc[c] \in {"read", "release"}

(* The value move in try_push (86) and the one in try_pop (114) are plain,
   unsynchronised accesses: no two threads are ever between the claim and the
   store of the sequence number of the same slot. *)
SlotExclusive ==
  LET Inside(t) == (t \in Producers /\ Writing(t)) \/ (t \in Consumers /\ Reading(t))
  IN  \A t, u \in Threads :
        t # u /\ Inside(t) /\ Inside(u) => Slot(pos[t]) # Slot(pos[u])

(* Nothing is lost, duplicated or received half-written: the items received so
   far are exactly those of the claimed pop positions, except the ones whose
   consumer has claimed (103) but not yet moved the value out (114). *)
Conservation ==
  LET beingRead == {log[pos[c] + 1] : c \in {d \in Consumers : pc[d] = "read"}}
  IN  delivered = {log[i] : i \in 1 .. dequeue_pos} \ beingRead

(* try_push answers false (79) only at the current enqueue position, and only
   when all Capacity slots are taken or a consumer still holds the very slot
   the push needs; try_pop answers false (107) only at the current dequeue
   position, and only when nothing is inside or a producer has claimed the very
   position the pop needs and has not published it.  A stale pos never makes
   either fail. *)
PushHasCause(p) ==
  /\ pos[p] = enqueue_pos
  /\ \/ enqueue_pos - dequeue_pos = Capacity
     \/ \E c \in Consumers : Reading(c) /\ pos[c] = enqueue_pos - Capacity

PopHasCause(c) ==
  /\ pos[c] = dequeue_pos
  /\ \/ enqueue_pos = dequeue_pos
     \/ \E p \in Producers : Writing(p) /\ pos[p] = dequeue_pos

FalseHasACause ==
  [][/\ \A p \in Producers : PushFull(p) => PushHasCause(p)
     /\ \A c \in Consumers : PopEmpty(c) => PopHasCause(c)]_vars

(* The queue is a bounded FIFO: a push takes effect at its compare-and-swap
   (75), a pop at its own (103). *)
Fifo == INSTANCE BoundedFifo WITH
          queue <- SubSeq(log, dequeue_pos + 1, enqueue_pos),
          hand <- [c \in Consumers |-> IF pc[c] = "read" THEN log[pos[c] + 1] ELSE None]

ImplementsFifo == Fifo!Spec

(* Every try_push and every try_pop that was begun returns: the retry loops
   (69, 97) do not spin on a position that never becomes current again. *)
EveryCallReturns == \A t \in Threads : pc[t] # "idle" ~> pc[t] = "idle"

------------------------------------------------------------------------------
(* The inductive invariant behind the safety properties.  The positions
   dequeue_pos .. dequeue_pos + Capacity - 1 fall on distinct slots and cover
   the ring; the invariant says in which phase the slot of each of them is. *)

Positions ==
  /\ dequeue_pos <= enqueue_pos
  /\ enqueue_pos <= dequeue_pos + Capacity
  /\ Len(log) = enqueue_pos

\* A position that was claimed by a push and not yet by a pop.
InsideSlots ==
  \A x \in dequeue_pos .. enqueue_pos - 1 :
    \/ sequence[Slot(x)] = x + 1 /\ value[Slot(x)] = log[x + 1]
    \/ sequence[Slot(x)] = x /\ \E p \in Producers : Writing(p) /\ pos[p] = x

\* A position the next pushes will claim: free, or its consumer is not done.
OutsideSlots ==
  \A x \in enqueue_pos .. dequeue_pos + Capacity - 1 :
    \/ sequence[Slot(x)] = x
    \/ /\ sequence[Slot(x)] = x - Capacity + 1
       /\ \E c \in Consumers : Reading(c) /\ pos[c] = x - Capacity

Writers ==
  /\ \A p \in Producers : Writing(p) =>
       /\ dequeue_pos <= pos[p]
       /\ pos[p] < enqueue_pos
       /\ sequence[Slot(pos[p])] = pos[p]
       /\ log[pos[p] + 1] = arg[p]
       /\ pc[p] = "publish" => value[Slot(pos[p])] = arg[p]
  /\ \A p, q \in Producers : Writing(p) /\ Writing(q) /\ pos[p] = pos[q] => p = q

Readers ==
  /\ \A c \in Consumers : Reading(c) =>
       /\ pos[c] < dequeue_pos
       /\ enqueue_pos <= pos[c] + Capacity
       /\ sequence[Slot(pos[c])] = pos[c] + 1
       /\ pc[c] = "read" => value[Slot(pos[c])] = log[pos[c] + 1]
  /\ \A c, d \in Consumers : Reading(c) /\ Reading(d) /\ pos[c] = pos[d] => c = d

\* What a thread about to claim still knows of the slot it looked at.
Claimants ==
  /\ \A p \in Producers : pc[p] \in {"loadSeq", "reload", "cas"} =>
       /\ pos[p] <= enqueue_pos
       /\ pc[p] = "cas" /\ pos[p] = enqueue_pos => sequence[Slot(pos[p])] = pos[p]
  /\ \A c \in Consumers : pc[c] \in {"loadSeq", "reload", "cas"} =>
       /\ pos[c] <= dequeue_pos
       /\ pc[c] = "cas" /\ pos[c] = dequeue_pos => sequence[Slot(pos[c])] = pos[c] + 1

\* The items of the log are different from each other and from those to come.
Items ==
  /\ \A i, j \in 1 .. Len(log) : log[i] = log[j] => i = j
  /\ \A i \in 1 .. Len(log) : log[i][2] < sent[log[i][1]]
  /\ \A p \in Producers : pc[p] \in {"loadSeq", "reload", "cas"} =>
       sent[p] < MaxItems /\ arg[p] = <<p, sent[p]>>

QueueInv ==
  /\ Positions
  /\ InsideSlots
  /\ OutsideSlots
  /\ Writers
  /\ Readers
  /\ Claimants
  /\ Items
==============================================================================
