------------------------- MODULE MpmcQueueFifoProofs -------------------------
(* mpmc_queue delivers every item exactly once and implements BoundedFifo. *)
EXTENDS MpmcQueueProofs, SequenceTheorems

(* The positions claimed by try_pop whose value has been moved out. *)
Received(item) ==
  /\ \E i \in 1 .. dequeue_pos : log[i] = item
  /\ \A c \in Consumers : pc[c] = "read" => log[pos[c] + 1] # item

(* Conservation, item by item. *)
LEMMA ConservationPointwise ==
  Conservation <=> \A item : item \in delivered <=> Received(item)
BY DEF Conservation, Received

(* A claimed push position holds an item; the claimed pop positions are a
   prefix of them. *)
LEMMA LogFacts ==
  ASSUME IInv
  PROVE  /\ enqueue_pos \in Nat /\ dequeue_pos \in Nat
         /\ dequeue_pos <= enqueue_pos /\ enqueue_pos <= dequeue_pos + Capacity
         /\ Len(log) = enqueue_pos /\ log \in Seq(Item)
         /\ \A i \in 1 .. enqueue_pos : log[i] \in Item
         /\ \A i, j \in 1 .. enqueue_pos : log[i] = log[j] => i = j
<1>1. /\ enqueue_pos \in Nat /\ dequeue_pos \in Nat
      /\ dequeue_pos <= enqueue_pos /\ enqueue_pos <= dequeue_pos + Capacity
      /\ Len(log) = enqueue_pos /\ log \in Seq(Item)
  BY DEF IInv, TypeOK, QueueInv, Positions
<1>2. \A i \in 1 .. enqueue_pos : log[i] \in Item
  BY <1>1, ElementOfSeq
<1>3. \A i, j \in 1 .. enqueue_pos : log[i] = log[j] => i = j
  BY <1>1 DEF IInv, QueueInv, Items
<1> QED
  BY <1>1, <1>2, <1>3

(* The steps that neither claim nor receive leave the received items alone. *)
LEMMA ReceivedFrame ==
  ASSUME IInv, Conservation,
         UNCHANGED <<dequeue_pos, delivered>>,
         \A i \in 1 .. dequeue_pos : log'[i] = log[i],
         \A c \in Consumers : /\ (pc[c] = "read")' <=> pc[c] = "read"
                              /\ pc[c] = "read" => pos'[c] = pos[c]
  PROVE  Conservation'
<1>1. \A c \in Consumers : pc[c] = "read" =>
        /\ pos[c] + 1 \in 1 .. dequeue_pos
        /\ log'[pos'[c] + 1] = log[pos[c] + 1]
  BY DEF IInv, TypeOK, QueueInv, Readers, Reading, Threads
<1>2. \A item : Received(item)' <=> Received(item)
  BY <1>1 DEF Received
<1> QED
  BY <1>2, ConservationPointwise DEF Conservation, Received

(* No step of any thread loses, duplicates or invents an item. *)
LEMMA ConservationStep ==
  ASSUME IInv, Conservation, [Next]_vars
  PROVE  Conservation'
<1>1. CASE UNCHANGED vars
  BY <1>1, ReceivedFrame DEF vars
<1>2. ASSUME NEW p \in Producers, Push(p)
      PROVE  Conservation'
  <2>1. \A c \in Consumers : pc'[c] = pc[c] /\ pos'[c] = pos[c]
    BY <1>2, ThreadAssumption
       DEF Push, PushBegin, PushSeesFree, PushFull, PushSeesStale, PushReload, PushClaim,
           PushCasFails, PushWrite, PushPublish, Goto, IInv, TypeOK, Threads
  <2>2. UNCHANGED <<dequeue_pos, delivered>>
    BY <1>2 DEF Push, PushBegin, PushSeesFree, PushFull, PushSeesStale, PushReload, PushClaim,
                PushCasFails, PushWrite, PushPublish
  <2>3. log' = log \/ (PushClaim(p) /\ log' = Append(log, arg[p]))
    BY <1>2 DEF Push, PushBegin, PushSeesFree, PushFull, PushSeesStale, PushReload, PushClaim,
                PushCasFails, PushWrite, PushPublish
  <2>4. ASSUME PushClaim(p) PROVE arg[p] \in Item
    <3>1. arg[p] = <<p, sent[p]>> /\ sent[p] \in 0 .. MaxItems /\ sent[p] < MaxItems
      BY <2>4 DEF IInv, TypeOK, QueueInv, Items, PushClaim
    <3> QED
      BY <3>1, ThreadAssumption DEF Item
  <2>5. \A i \in 1 .. dequeue_pos : log'[i] = log[i]
    BY <2>3, <2>4, LogFacts, AppendProperties
  <2> QED
    BY <2>1, <2>2, <2>5, ReceivedFrame
<1>3. ASSUME NEW c \in Consumers, Pop(c), ~PopClaim(c), ~PopRead(c)
      PROVE  Conservation'
  <2>1. UNCHANGED <<dequeue_pos, delivered, log>>
    BY <1>3 DEF Pop, PopBegin, PopSeesItem, PopEmpty, PopSeesStale, PopReload, PopCasFails,
                PopRelease
  <2>2. \A d \in Consumers : /\ (pc[d] = "read")' <=> pc[d] = "read"
                             /\ pc[d] = "read" => pos'[d] = pos[d]
    BY <1>3 DEF Pop, PopBegin, PopSeesItem, PopEmpty, PopSeesStale, PopReload, PopCasFails,
                PopRelease, Goto, IInv, TypeOK, Threads
  <2> QED
    BY <2>1, <2>2, ReceivedFrame
<1>4. ASSUME NEW c \in Consumers, PopClaim(c)
      PROVE  Conservation'
  <2>1. /\ pos[c] = dequeue_pos /\ dequeue_pos' = dequeue_pos + 1
        /\ UNCHANGED <<delivered, log, pos>>
        /\ pc'[c] = "read" /\ pc[c] # "read"
        /\ \A d \in Consumers \ {c} : pc'[d] = pc[d]
    BY <1>4 DEF PopClaim, Goto, IInv, TypeOK, Threads
  <2>2. dequeue_pos + 1 <= enqueue_pos
    BY <1>4, <2>1, LogFacts, PopClaimStep DEF IInv, QueueInv, Positions, PopClaim
  <2>3. \A i \in 1 .. dequeue_pos : log[i] # log[dequeue_pos + 1]
    BY <2>2, LogFacts
  <2>4. \A item : Received(item)' <=> Received(item)
    BY <2>1, <2>2, <2>3, LogFacts DEF Received
  <2>5. \A item : item \in delivered' <=> Received(item)'
    BY <2>1, <2>4, ConservationPointwise
  <2> QED
    BY <2>5 DEF Conservation, Received
<1>5. ASSUME NEW c \in Consumers, PopRead(c)
      PROVE  Conservation'
  <2>1. /\ pc[c] = "read" /\ pos[c] \in Nat /\ pos[c] < dequeue_pos
        /\ value[Slot(pos[c])] = log[pos[c] + 1]
        /\ delivered' = delivered \cup {log[pos[c] + 1]}
        /\ UNCHANGED <<dequeue_pos, log, pos>>
        /\ pc'[c] = "release"
        /\ \A d \in Consumers \ {c} : pc'[d] = pc[d]
    BY <1>5 DEF PopRead, Goto, IInv, TypeOK, QueueInv, Readers, Reading, Threads
  <2>2. \A d \in Consumers \ {c} : pc[d] = "read" =>
          /\ pos[d] \in Nat /\ pos[d] < dequeue_pos /\ pos[d] # pos[c]
    BY <2>1 DEF IInv, TypeOK, QueueInv, Readers, Reading, Threads
  <2>3. \A d \in Consumers \ {c} : pc[d] = "read" => log[pos[d] + 1] # log[pos[c] + 1]
    BY <2>1, <2>2, LogFacts
  <2>4. \A item : Received(item)' <=> Received(item) \/ item = log[pos[c] + 1]
    BY <2>1, <2>3, LogFacts DEF Received
  <2> QED
    BY <2>1, <2>4, ConservationPointwise DEF Conservation, Received
<1> QED
  BY <1>1, <1>2, <1>3, <1>4, <1>5 DEF Next

(* Every item is received exactly once: what try_pop has moved out is what the
   claimed pop positions hold, less the items still being moved. *)
THEOREM ItemsConserved == Spec => []Conservation
<1>1. Init => Conservation
  BY DEF Init, Conservation
<1>2. IInv /\ Conservation /\ [Next]_vars => Conservation'
  BY ConservationStep
<1> QED
  BY InitInv, NextInv, <1>1, <1>2, PTL DEF Spec

------------------------------------------------------------------------------
(* The refinement mapping of Fifo: the abstract queue and the hands. *)
Inside == SubSeq(log, dequeue_pos + 1, enqueue_pos)
Hand == [c \in Consumers |-> IF pc[c] = "read" THEN log[pos[c] + 1] ELSE None]

(* A suffix of a sequence of items, element by element. *)
LEMMA SuffixFacts ==
  ASSUME NEW l \in Seq(Item), NEW d \in Nat, NEW e \in Nat, d <= e, Len(l) = e
  PROVE  /\ SubSeq(l, d + 1, e) \in Seq(Item)
         /\ Len(SubSeq(l, d + 1, e)) = e - d
         /\ \A i \in 1 .. e - d : SubSeq(l, d + 1, e)[i] = l[d + i]
<1> DEFINE m == d + 1
<1>1. m \in Int /\ e \in Int /\ \A i \in m .. e : l[i] \in Item
  BY ElementOfSeq
<1>2. /\ SubSeq(l, m, e) \in Seq(Item)
      /\ Len(SubSeq(l, m, e)) = IF m <= e THEN e - m + 1 ELSE 0
      /\ \A i \in 1 .. e - m + 1 : SubSeq(l, m, e)[i] = l[m + i - 1]
  BY <1>1, SubSeqProperties
<1>3. e - m + 1 = e - d /\ \A i \in Int : m + i - 1 = d + i
  OBVIOUS
<1>4. Len(SubSeq(l, m, e)) = e - d
  BY <1>2, <1>3
<1>5. \A i \in 1 .. e - d : SubSeq(l, m, e)[i] = l[d + i]
  BY <1>2, <1>3
<1> QED
  BY <1>2, <1>4, <1>5

(* The abstract queue holds the items of the positions between the two
   counters, oldest first. *)
LEMMA InsideFacts ==
  ASSUME IInv
  PROVE  /\ Inside \in Seq(Item)
         /\ Len(Inside) = enqueue_pos - dequeue_pos
         /\ \A i \in 1 .. enqueue_pos - dequeue_pos : Inside[i] = log[dequeue_pos + i]
BY LogFacts, SuffixFacts DEF Inside

(* A consumer about to move a value out holds an item, not None. *)
LEMMA HandFacts ==
  ASSUME IInv, NEW c \in Consumers, pc[c] = "read"
  PROVE  pos[c] \in Nat /\ pos[c] < dequeue_pos /\ log[pos[c] + 1] \in Item
<1>1. pos[c] \in Nat /\ pos[c] < dequeue_pos
  BY DEF IInv, TypeOK, QueueInv, Readers, Reading, Threads
<1> QED
  BY <1>1, LogFacts

(* A push takes effect at its compare-and-swap (75). *)
LEMMA PushClaimIsPush ==
  ASSUME IInv, IInv', NEW p \in Producers, PushClaim(p)
  PROVE  Fifo!Push(arg[p]) /\ arg[p] \in Item
<1>1. arg[p] \in Item
  <2>1. arg[p] = <<p, sent[p]>> /\ sent[p] \in 0 .. MaxItems /\ sent[p] < MaxItems
    BY DEF IInv, TypeOK, QueueInv, Items, PushClaim
  <2> QED
    BY <2>1, ThreadAssumption DEF Item
<1>2. /\ enqueue_pos' = enqueue_pos + 1 /\ UNCHANGED <<dequeue_pos, delivered, pos>>
      /\ log' = Append(log, arg[p])
      /\ \A c \in Consumers : pc'[c] = pc[c]
  BY ThreadAssumption DEF PushClaim, Goto, IInv, TypeOK, Threads
<1>3. enqueue_pos' \in Nat /\ enqueue_pos' <= dequeue_pos' + Capacity
  BY DEF IInv, TypeOK, QueueInv, Positions
<1>4. /\ Inside' \in Seq(Item)
      /\ Len(Inside') = enqueue_pos' - dequeue_pos'
      /\ \A i \in 1 .. enqueue_pos' - dequeue_pos' : Inside'[i] = log'[dequeue_pos' + i]
  <2>1. log' \in Seq(Item) /\ Len(log') = enqueue_pos' /\ dequeue_pos' <= enqueue_pos'
        /\ dequeue_pos' \in Nat /\ enqueue_pos' \in Nat
    BY DEF IInv, TypeOK, QueueInv, Positions
  <2> QED
    BY <2>1, SuffixFacts DEF Inside
<1>5. Inside' = Append(Inside, arg[p])
  <2>1. /\ Append(Inside, arg[p]) \in Seq(Item)
        /\ Len(Append(Inside, arg[p])) = Len(Inside) + 1
        /\ \A i \in 1 .. Len(Inside) : Append(Inside, arg[p])[i] = Inside[i]
        /\ Append(Inside, arg[p])[Len(Inside) + 1] = arg[p]
    BY <1>1, InsideFacts, AppendProperties
  <2>2. /\ \A i \in 1 .. enqueue_pos : log'[i] = log[i]
        /\ log'[enqueue_pos + 1] = arg[p]
    BY <1>1, <1>2, LogFacts, AppendProperties
  <2>3. Len(Inside') = Len(Append(Inside, arg[p]))
    BY <1>2, <1>4, <2>1, InsideFacts, LogFacts
  <2>4. \A i \in 1 .. Len(Inside') : Inside'[i] = Append(Inside, arg[p])[i]
    BY <1>2, <1>4, <2>1, <2>2, InsideFacts, LogFacts, SMTT(30)
  <2> QED
    BY <1>4, <2>1, <2>3, <2>4, SeqEqual
<1>6. Len(Inside) < Capacity
  BY <1>2, <1>3, InsideFacts, LogFacts, CapacityAssumption
<1>7. Hand' = Hand
  BY <1>1, <1>2, HandFacts, LogFacts, AppendProperties DEF Hand
<1> QED
  BY <1>1, <1>2, <1>5, <1>6, <1>7 DEF Fifo!Push, Inside, Hand

(* A pop takes effect at its compare-and-swap (103). *)
LEMMA PopClaimIsPop ==
  ASSUME IInv, IInv', NEW c \in Consumers, PopClaim(c)
  PROVE  Fifo!Pop(c)
<1>1. /\ pos[c] = dequeue_pos /\ dequeue_pos' = dequeue_pos + 1
      /\ UNCHANGED <<enqueue_pos, delivered, log, pos>>
      /\ pc'[c] = "read" /\ pc[c] = "cas"
      /\ \A d \in Consumers \ {c} : pc'[d] = pc[d]
  BY DEF PopClaim, Goto, IInv, TypeOK, Threads
<1>2. dequeue_pos + 1 <= enqueue_pos
  BY <1>1 DEF IInv, QueueInv, Positions
<1> DEFINE m == dequeue_pos + 1
<1>3. log \in Seq(Item) /\ m \in 1 .. Len(log) /\ enqueue_pos \in m .. Len(log)
  BY <1>2, LogFacts
<1> HIDE DEF m
<1>a. /\ Head(SubSeq(log, m, enqueue_pos)) = log[m]
      /\ Tail(SubSeq(log, m, enqueue_pos)) = SubSeq(log, m + 1, enqueue_pos)
  BY <1>3, HeadTailOfSubSeq, Zenon
<1>4. /\ Head(Inside) = log[dequeue_pos + 1]
      /\ Tail(Inside) = SubSeq(log, dequeue_pos + 1 + 1, enqueue_pos)
  BY <1>a, Zenon DEF Inside, m
<1>5. Inside' = Tail(Inside)
  BY <1>1, <1>4 DEF Inside
<1>6. Inside # <<>>
  BY <1>2, InsideFacts, LogFacts
<1>7. Hand[c] = None
  BY <1>1 DEF Hand
<1>8. Hand' = [Hand EXCEPT ![c] = Head(Inside)]
  BY <1>1, <1>4 DEF Hand
<1> QED
  BY <1>1, <1>5, <1>6, <1>7, <1>8 DEF Fifo!Pop, Inside, Hand

(* The move out of the slot (114) delivers the item in the consumer's hand, and
   that item was not delivered before. *)
LEMMA PopReadIsReceive ==
  ASSUME IInv, Conservation, NEW c \in Consumers, PopRead(c)
  PROVE  Fifo!Receive(c)
<1>1. /\ pc[c] = "read" /\ pc'[c] = "release"
      /\ value[Slot(pos[c])] = log[pos[c] + 1]
      /\ delivered' = delivered \cup {log[pos[c] + 1]}
      /\ UNCHANGED <<enqueue_pos, dequeue_pos, log, pos>>
      /\ \A d \in Consumers \ {c} : pc'[d] = pc[d]
  BY DEF PopRead, Goto, IInv, TypeOK, QueueInv, Readers, Reading, Threads
<1>2. Hand[c] = log[pos[c] + 1] /\ Hand[c] # None
  BY <1>1, HandFacts, NoneAssumption DEF Hand
<1>3. Hand[c] \notin delivered
  BY <1>1, <1>2 DEF Conservation
<1>4. Hand' = [Hand EXCEPT ![c] = None]
  BY <1>1 DEF Hand
<1>5. Inside' = Inside
  BY <1>1 DEF Inside
<1> QED
  BY <1>1, <1>2, <1>3, <1>4, <1>5 DEF Fifo!Receive, Inside, Hand

(* Every other step is invisible: a load, a failed compare-and-swap, a failed
   operation, the write into a claimed slot, a publish or a release. *)
LEMMA OtherStepsStutter ==
  ASSUME IInv, [Next]_vars,
         \A p \in Producers : ~PushClaim(p),
         \A c \in Consumers : ~PopClaim(c) /\ ~PopRead(c)
  PROVE  UNCHANGED Fifo!vars
<1>1. UNCHANGED <<enqueue_pos, dequeue_pos, log, delivered>>
  BY DEF Next, Push, Pop, PushBegin, PushSeesFree, PushFull, PushSeesStale, PushReload,
         PushCasFails, PushWrite, PushPublish, PopBegin, PopSeesItem, PopEmpty, PopSeesStale,
         PopReload, PopCasFails, PopRelease, vars
<1>2. \A c \in Consumers : /\ (pc[c] = "read")' <=> pc[c] = "read"
                           /\ pc[c] = "read" => pos'[c] = pos[c]
  <2>1. ASSUME NEW p \in Producers, Push(p), NEW c \in Consumers
        PROVE  pc'[c] = pc[c] /\ pos'[c] = pos[c]
    BY <2>1, ThreadAssumption
       DEF Push, PushBegin, PushSeesFree, PushFull, PushSeesStale, PushReload, PushCasFails,
           PushWrite, PushPublish, Goto, IInv, TypeOK, Threads
  <2>2. ASSUME NEW c \in Consumers, Pop(c), NEW d \in Consumers
        PROVE  /\ (pc[d] = "read")' <=> pc[d] = "read"
               /\ pc[d] = "read" => pos'[d] = pos[d]
    BY <2>2 DEF Pop, PopBegin, PopSeesItem, PopEmpty, PopSeesStale, PopReload, PopCasFails,
                PopRelease, Goto, IInv, TypeOK, Threads
  <2> QED
    BY <2>1, <2>2 DEF Next, vars
<1>3. Hand' = Hand
  BY <1>1, <1>2 DEF Hand
<1> QED
  BY <1>1, <1>3 DEF Fifo!vars, Hand

(* mpmc_queue is a bounded FIFO queue: every behaviour of its threads is a
   behaviour of BoundedFifo, a push taking effect at its compare-and-swap (75)
   and a pop at its own (103). *)
THEOREM QueueIsFifo == Spec => ImplementsFifo
<1>1. Init => Conservation
  BY DEF Init, Conservation
<1>2. IInv /\ Conservation /\ [Next]_vars => Conservation'
  BY ConservationStep
<1>3. Init => Fifo!Init
  <2> SUFFICES ASSUME Init PROVE Fifo!Init
    OBVIOUS
  <2>1. SubSeq(log, dequeue_pos + 1, enqueue_pos) = <<>>
    BY SubSeqEmpty DEF Init
  <2> QED
    BY <2>1, ThreadAssumption DEF Init, Fifo!Init, Threads
<1>4. IInv /\ IInv' /\ Conservation /\ [Next]_vars => [Fifo!Next]_(Fifo!vars)
  <2> SUFFICES ASSUME IInv, IInv', Conservation, [Next]_vars PROVE [Fifo!Next]_(Fifo!vars)
    OBVIOUS
  <2>1. ASSUME NEW p \in Producers, PushClaim(p) PROVE Fifo!Next
    BY <2>1, PushClaimIsPush DEF Fifo!Next
  <2>2. ASSUME NEW c \in Consumers, PopClaim(c) PROVE Fifo!Next
    BY <2>2, PopClaimIsPop DEF Fifo!Next
  <2>3. ASSUME NEW c \in Consumers, PopRead(c) PROVE Fifo!Next
    BY <2>3, PopReadIsReceive DEF Fifo!Next
  <2> QED
    BY <2>1, <2>2, <2>3, OtherStepsStutter
<1> QED
  BY InitInv, NextInv, <1>1, <1>2, <1>3, <1>4, PTL DEF Spec, ImplementsFifo, Fifo!Spec
==============================================================================
