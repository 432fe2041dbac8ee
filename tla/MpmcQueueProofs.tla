--------------------------- MODULE MpmcQueueProofs ---------------------------
(* Proofs about mpmc_queue for any number of threads, slots and items. *)
EXTENDS MpmcQueue, TLAPS

------------------------------------------------------------------------------
(* The ring: how positions fall on slots. *)

(* A position is its lap times the number of slots, plus its slot. *)
LEMMA LapAndSlot ==
  ASSUME NEW x \in Nat
  PROVE  /\ x \div Capacity \in Int
         /\ Slot(x) \in 0 .. Capacity - 1
         /\ x = Capacity * (x \div Capacity) + Slot(x)
BY CapacityAssumption DEF Slot

(* Laps do not overlap. *)
LEMMA LapsApart ==
  ASSUME NEW a \in Int, NEW b \in Int, a < b
  PROVE  Capacity * a + Capacity <= Capacity * b
<1> DEFINE d == b - a
<1>1. d \in Int /\ d >= 1 /\ b = a + d
  OBVIOUS
<1>2. Capacity * d >= Capacity
  BY <1>1, CapacityAssumption
<1>3. Capacity * b = Capacity * a + Capacity * d
  BY <1>1, CapacityAssumption
<1> QED
  BY <1>1, <1>2, <1>3, CapacityAssumption

(* Lap and slot of a position are unique. *)
LEMMA LapAndSlotUnique ==
  ASSUME NEW a \in Int, NEW b \in Int,
         NEW r \in 0 .. Capacity - 1, NEW s \in 0 .. Capacity - 1,
         Capacity * a + r = Capacity * b + s
  PROVE  a = b /\ r = s
<1>1. Capacity * a \in Int /\ Capacity * b \in Int
  BY CapacityAssumption
<1>2. CASE a < b
  BY <1>1, <1>2, LapsApart, CapacityAssumption
<1>3. CASE b < a
  BY <1>1, <1>3, LapsApart, CapacityAssumption
<1>4. CASE a = b
  BY <1>1, <1>4, CapacityAssumption
<1> QED
  BY <1>2, <1>3, <1>4

(* The slot index pos & mask_ lies in the ring. *)
LEMMA SlotRange ==
  ASSUME NEW x \in Nat
  PROVE  Slot(x) \in Slots
BY LapAndSlot DEF Slots

(* One lap later a position falls on the same slot. *)
LEMMA SlotLap ==
  ASSUME NEW x \in Nat
  PROVE  Slot(x + Capacity) = Slot(x)
<1> DEFINE y == x + Capacity
<1>1. y \in Nat
  BY CapacityAssumption
<1>2. /\ x \div Capacity \in Int
      /\ Slot(x) \in 0 .. Capacity - 1
      /\ x = Capacity * (x \div Capacity) + Slot(x)
  BY LapAndSlot
<1>3. /\ y \div Capacity \in Int
      /\ Slot(y) \in 0 .. Capacity - 1
      /\ y = Capacity * (y \div Capacity) + Slot(y)
  BY <1>1, LapAndSlot
<1>4. Capacity * (x \div Capacity + 1) = Capacity * (x \div Capacity) + Capacity
  BY <1>2, CapacityAssumption
<1>5. Capacity * (x \div Capacity + 1) + Slot(x) = Capacity * (y \div Capacity) + Slot(y)
  <2> HIDE DEF y
  <2>1. Capacity * (x \div Capacity) \in Int
    BY <1>2, CapacityAssumption
  <2>2. y = x + Capacity
    BY DEF y
  <2> QED
    BY <1>2, <1>3, <1>4, <2>1, <2>2, CapacityAssumption
<1> QED
  BY <1>2, <1>3, <1>5, LapAndSlotUnique

(* Two positions less than a lap apart fall on different slots. *)
LEMMA SlotInjective ==
  ASSUME NEW x \in Nat, NEW y \in Nat, x < y, y < x + Capacity
  PROVE  Slot(x) # Slot(y)
<1> SUFFICES ASSUME Slot(x) = Slot(y) PROVE FALSE
  OBVIOUS
<1>1. /\ x \div Capacity \in Int
      /\ Slot(x) \in 0 .. Capacity - 1
      /\ x = Capacity * (x \div Capacity) + Slot(x)
  BY LapAndSlot
<1>2. /\ y \div Capacity \in Int
      /\ y = Capacity * (y \div Capacity) + Slot(y)
  BY LapAndSlot
<1>3. Capacity * (x \div Capacity) \in Int /\ Capacity * (y \div Capacity) \in Int
  BY <1>1, <1>2, CapacityAssumption
<1>4. CASE x \div Capacity < y \div Capacity
  <2>1. Capacity * (x \div Capacity) + Capacity <= Capacity * (y \div Capacity)
    BY <1>1, <1>2, <1>4, LapsApart
  <2> QED
    BY <2>1, <1>1, <1>2, <1>3, CapacityAssumption
<1>5. CASE y \div Capacity < x \div Capacity
  <2>1. Capacity * (y \div Capacity) + Capacity <= Capacity * (x \div Capacity)
    BY <1>1, <1>2, <1>5, LapsApart
  <2> QED
    BY <2>1, <1>1, <1>2, <1>3, CapacityAssumption
<1>6. CASE x \div Capacity = y \div Capacity
  BY <1>1, <1>2, <1>6
<1> QED
  BY <1>1, <1>2, <1>4, <1>5, <1>6

(* Any Capacity consecutive positions cover every slot. *)
LEMMA SlotCovered ==
  ASSUME NEW d \in Nat, NEW x \in Nat
  PROVE  \E y \in d .. d + Capacity - 1 : Slot(y) = Slot(x)
<1> DEFINE r == Slot(x)
           s == Slot(d)
           lap == d \div Capacity
<1>1. r \in 0 .. Capacity - 1
  BY LapAndSlot
<1>2. lap \in Int /\ s \in 0 .. Capacity - 1 /\ d = Capacity * lap + s
  BY LapAndSlot
<1>3. Capacity * lap \in Int /\ Capacity * (lap + 1) = Capacity * lap + Capacity
  BY <1>2, CapacityAssumption
<1> HIDE DEF r, s, lap
<1>4. CASE r >= s
  <2> DEFINE y == d + (r - s)
  <2>1. y \in Nat /\ y \in d .. d + Capacity - 1 /\ y = Capacity * lap + r
    BY <1>1, <1>2, <1>3, <1>4, CapacityAssumption
  <2> HIDE DEF y
  <2>2. /\ y \div Capacity \in Int
        /\ Slot(y) \in 0 .. Capacity - 1
        /\ y = Capacity * (y \div Capacity) + Slot(y)
    BY <2>1, LapAndSlot
  <2>3. Slot(y) = r
    BY <1>1, <1>2, <2>1, <2>2, LapAndSlotUnique
  <2> QED
    BY <2>1, <2>3 DEF r
<1>5. CASE r < s
  <2> DEFINE y == d + (r - s) + Capacity
  <2>1. y \in Nat /\ y \in d .. d + Capacity - 1 /\ y = Capacity * (lap + 1) + r
    BY <1>1, <1>2, <1>3, <1>5, CapacityAssumption
  <2> HIDE DEF y
  <2>2. /\ y \div Capacity \in Int
        /\ Slot(y) \in 0 .. Capacity - 1
        /\ y = Capacity * (y \div Capacity) + Slot(y)
    BY <2>1, LapAndSlot
  <2>3. lap + 1 \in Int
    BY <1>2
  <2>4. Slot(y) = r
    BY <1>1, <2>1, <2>2, <2>3, LapAndSlotUnique
  <2> QED
    BY <2>1, <2>4 DEF r
<1> QED
  BY <1>1, <1>2, <1>4, <1>5

------------------------------------------------------------------------------
IInv == TypeOK /\ QueueInv

\* The labels at which a thread holds no position.
Roaming == {"idle", "loadSeq", "reload", "cas"}

(* A step that only moves a thread which holds no position changes nothing
   that the slots, the writers and the readers can see. *)
LEMMA QuietStep ==
  ASSUME IInv,
         NEW t \in Threads, NEW label \in Roaming,
         pc[t] \in Roaming,
         pc' = [pc EXCEPT ![t] = label],
         \A u \in Threads \ {t} : pos'[u] = pos[u],
         \A q \in Producers \ {t} : arg'[q] = arg[q],
         UNCHANGED <<enqueue_pos, dequeue_pos, sequence, value, log>>
  PROVE  Positions' /\ InsideSlots' /\ OutsideSlots' /\ Writers' /\ Readers'
<1>1. \A p \in Producers : /\ Writing(p)' <=> Writing(p)
                           /\ (pc[p] = "publish")' <=> pc[p] = "publish"
                           /\ Writing(p) => pos'[p] = pos[p] /\ arg'[p] = arg[p]
  BY DEF IInv, TypeOK, Threads, Roaming, Writing
<1>2. \A c \in Consumers : /\ Reading(c)' <=> Reading(c)
                           /\ (pc[c] = "read")' <=> pc[c] = "read"
                           /\ Reading(c) => pos'[c] = pos[c]
  BY DEF IInv, TypeOK, Threads, Roaming, Reading
<1>3. Positions'
  BY DEF IInv, QueueInv, Positions
<1>4. InsideSlots'
  BY <1>1 DEF IInv, QueueInv, InsideSlots
<1>5. OutsideSlots'
  BY <1>2 DEF IInv, QueueInv, OutsideSlots
<1>6. Writers'
  BY <1>1 DEF IInv, QueueInv, Writers
<1>7. Readers'
  BY <1>2 DEF IInv, QueueInv, Readers
<1> QED
  BY <1>3, <1>4, <1>5, <1>6, <1>7

(* The steps of try_push that only load (66-82) preserve the invariant. *)
LEMMA PushLocalStep ==
  ASSUME IInv, NEW p \in Producers,
         \/ PushBegin(p)
         \/ PushSeesFree(p)
         \/ PushFull(p)
         \/ PushSeesStale(p)
         \/ PushReload(p)
         \/ PushCasFails(p)
  PROVE  IInv'
<1>1. CASE PushBegin(p)
  <2>1. TypeOK'
    BY <1>1, ThreadAssumption, SMTT(20)
       DEF IInv, TypeOK, PushBegin, Goto, Threads, ProducerPc, ConsumerPc, QueueInv, Items, Item
  <2>2. Positions' /\ InsideSlots' /\ OutsideSlots' /\ Writers' /\ Readers'
    BY <1>1, QuietStep, Zenon DEF IInv, TypeOK, PushBegin, Goto, Threads, Roaming
  <2>3. Claimants'
    BY <1>1, ThreadAssumption DEF IInv, TypeOK, QueueInv, Claimants, PushBegin, Goto, Threads
  <2>4. Items'
    BY <1>1, ThreadAssumption, Zenon DEF IInv, TypeOK, QueueInv, Items, PushBegin, Goto, Threads
  <2> QED
    BY <2>1, <2>2, <2>3, <2>4 DEF IInv, QueueInv
<1>2. CASE PushSeesFree(p)
  <2>1. TypeOK'
    BY <1>2, ThreadAssumption, SMTT(20)
       DEF IInv, TypeOK, PushSeesFree, Goto, Threads, ProducerPc, ConsumerPc, QueueInv, Items, Item
  <2>2. Positions' /\ InsideSlots' /\ OutsideSlots' /\ Writers' /\ Readers'
    BY <1>2, QuietStep, Zenon DEF IInv, TypeOK, PushSeesFree, Goto, Threads, Roaming
  <2>3. Claimants'
    BY <1>2, ThreadAssumption DEF IInv, TypeOK, QueueInv, Claimants, PushSeesFree, Goto, Threads
  <2>4. Items'
    BY <1>2, ThreadAssumption DEF IInv, TypeOK, QueueInv, Items, PushSeesFree, Goto, Threads
  <2> QED
    BY <2>1, <2>2, <2>3, <2>4 DEF IInv, QueueInv
<1>3. CASE PushFull(p)
  <2>1. TypeOK'
    BY <1>3, ThreadAssumption
       DEF IInv, TypeOK, PushFull, Goto, Threads, ProducerPc, ConsumerPc, QueueInv, Items, Item
  <2>2. Positions' /\ InsideSlots' /\ OutsideSlots' /\ Writers' /\ Readers'
    BY <1>3, QuietStep, Zenon DEF IInv, TypeOK, PushFull, Goto, Threads, Roaming
  <2>3. Claimants'
    BY <1>3, ThreadAssumption DEF IInv, TypeOK, QueueInv, Claimants, PushFull, Goto, Threads
  <2>4. Items'
    BY <1>3, ThreadAssumption DEF IInv, TypeOK, QueueInv, Items, PushFull, Goto, Threads
  <2> QED
    BY <2>1, <2>2, <2>3, <2>4 DEF IInv, QueueInv
<1>4. CASE PushSeesStale(p)
  <2>1. TypeOK'
    BY <1>4, ThreadAssumption, SMTT(20)
       DEF IInv, TypeOK, PushSeesStale, Goto, Threads, ProducerPc, ConsumerPc, QueueInv, Items, Item
  <2>2. Positions' /\ InsideSlots' /\ OutsideSlots' /\ Writers' /\ Readers'
    BY <1>4, QuietStep, Zenon DEF IInv, TypeOK, PushSeesStale, Goto, Threads, Roaming
  <2>3. Claimants'
    BY <1>4, ThreadAssumption DEF IInv, TypeOK, QueueInv, Claimants, PushSeesStale, Goto, Threads
  <2>4. Items'
    BY <1>4, ThreadAssumption DEF IInv, TypeOK, QueueInv, Items, PushSeesStale, Goto, Threads
  <2> QED
    BY <2>1, <2>2, <2>3, <2>4 DEF IInv, QueueInv
<1>5. CASE PushReload(p)
  <2>1. TypeOK'
    BY <1>5, ThreadAssumption, SMTT(20)
       DEF IInv, TypeOK, PushReload, Goto, Threads, ProducerPc, ConsumerPc, QueueInv, Items, Item
  <2>2. Positions' /\ InsideSlots' /\ OutsideSlots' /\ Writers' /\ Readers'
    BY <1>5, QuietStep, Zenon DEF IInv, TypeOK, PushReload, Goto, Threads, Roaming
  <2>3. Claimants'
    BY <1>5, ThreadAssumption DEF IInv, TypeOK, QueueInv, Claimants, PushReload, Goto, Threads
  <2>4. Items'
    BY <1>5, ThreadAssumption, Zenon DEF IInv, TypeOK, QueueInv, Items, PushReload, Goto, Threads
  <2> QED
    BY <2>1, <2>2, <2>3, <2>4 DEF IInv, QueueInv
<1>6. CASE PushCasFails(p)
  <2>1. TypeOK'
    BY <1>6, ThreadAssumption, SMTT(20)
       DEF IInv, TypeOK, PushCasFails, Goto, Threads, ProducerPc, ConsumerPc, QueueInv, Items, Item
  <2>2. Positions' /\ InsideSlots' /\ OutsideSlots' /\ Writers' /\ Readers'
    BY <1>6, QuietStep, Zenon DEF IInv, TypeOK, PushCasFails, Goto, Threads, Roaming
  <2>3. Claimants'
    BY <1>6, ThreadAssumption DEF IInv, TypeOK, QueueInv, Claimants, PushCasFails, Goto, Threads
  <2>4. Items'
    BY <1>6, ThreadAssumption, Zenon DEF IInv, TypeOK, QueueInv, Items, PushCasFails, Goto, Threads
  <2> QED
    BY <2>1, <2>2, <2>3, <2>4 DEF IInv, QueueInv
<1> QED
  BY <1>1, <1>2, <1>3, <1>4, <1>5, <1>6

(* The steps of try_pop that only load (94-110) preserve the invariant. *)
LEMMA PopLocalStep ==
  ASSUME IInv, NEW c \in Consumers,
         \/ PopBegin(c)
         \/ PopSeesItem(c)
         \/ PopEmpty(c)
         \/ PopSeesStale(c)
         \/ PopReload(c)
         \/ PopCasFails(c)
  PROVE  IInv'
<1>1. CASE PopBegin(c)
  <2>1. TypeOK'
    BY <1>1, ThreadAssumption, SMTT(20)
       DEF IInv, TypeOK, PopBegin, Goto, Threads, ProducerPc, ConsumerPc, QueueInv, Items, Item
  <2>2. Positions' /\ InsideSlots' /\ OutsideSlots' /\ Writers' /\ Readers'
    BY <1>1, QuietStep, Zenon DEF IInv, TypeOK, PopBegin, Goto, Threads, Roaming
  <2>3. Claimants'
    BY <1>1, ThreadAssumption DEF IInv, TypeOK, QueueInv, Claimants, PopBegin, Goto, Threads
  <2>4. Items'
    BY <1>1, ThreadAssumption, Zenon DEF IInv, TypeOK, QueueInv, Items, PopBegin, Goto, Threads
  <2> QED
    BY <2>1, <2>2, <2>3, <2>4 DEF IInv, QueueInv
<1>2. CASE PopSeesItem(c)
  <2>1. TypeOK'
    BY <1>2, ThreadAssumption
       DEF IInv, TypeOK, PopSeesItem, Goto, Threads, ProducerPc, ConsumerPc, QueueInv, Items, Item
  <2>2. Positions' /\ InsideSlots' /\ OutsideSlots' /\ Writers' /\ Readers'
    BY <1>2, QuietStep, Zenon DEF IInv, TypeOK, PopSeesItem, Goto, Threads, Roaming
  <2>3. Claimants'
    BY <1>2, ThreadAssumption DEF IInv, TypeOK, QueueInv, Claimants, PopSeesItem, Goto, Threads
  <2>4. Items'
    BY <1>2, ThreadAssumption DEF IInv, TypeOK, QueueInv, Items, PopSeesItem, Goto, Threads
  <2> QED
    BY <2>1, <2>2, <2>3, <2>4 DEF IInv, QueueInv
<1>3. CASE PopEmpty(c)
  <2>1. TypeOK'
    BY <1>3, ThreadAssumption, SMTT(20)
       DEF IInv, TypeOK, PopEmpty, Goto, Threads, ProducerPc, ConsumerPc, QueueInv, Items, Item
  <2>2. Positions' /\ InsideSlots' /\ OutsideSlots' /\ Writers' /\ Readers'
    BY <1>3, QuietStep, Zenon DEF IInv, TypeOK, PopEmpty, Goto, Threads, Roaming
  <2>3. Claimants'
    BY <1>3, ThreadAssumption DEF IInv, TypeOK, QueueInv, Claimants, PopEmpty, Goto, Threads
  <2>4. Items'
    BY <1>3, ThreadAssumption DEF IInv, TypeOK, QueueInv, Items, PopEmpty, Goto, Threads
  <2> QED
    BY <2>1, <2>2, <2>3, <2>4 DEF IInv, QueueInv
<1>4. CASE PopSeesStale(c)
  <2>1. TypeOK'
    BY <1>4, ThreadAssumption, SMTT(20)
       DEF IInv, TypeOK, PopSeesStale, Goto, Threads, ProducerPc, ConsumerPc, QueueInv, Items, Item
  <2>2. Positions' /\ InsideSlots' /\ OutsideSlots' /\ Writers' /\ Readers'
    BY <1>4, QuietStep, Zenon DEF IInv, TypeOK, PopSeesStale, Goto, Threads, Roaming
  <2>3. Claimants'
    BY <1>4, ThreadAssumption DEF IInv, TypeOK, QueueInv, Claimants, PopSeesStale, Goto, Threads
  <2>4. Items'
    BY <1>4, ThreadAssumption DEF IInv, TypeOK, QueueInv, Items, PopSeesStale, Goto, Threads
  <2> QED
    BY <2>1, <2>2, <2>3, <2>4 DEF IInv, QueueInv
<1>5. CASE PopReload(c)
  <2>1. TypeOK'
    BY <1>5, ThreadAssumption
       DEF IInv, TypeOK, PopReload, Goto, Threads, ProducerPc, ConsumerPc, QueueInv, Items, Item
  <2>2. Positions' /\ InsideSlots' /\ OutsideSlots' /\ Writers' /\ Readers'
    BY <1>5, QuietStep, Zenon DEF IInv, TypeOK, PopReload, Goto, Threads, Roaming
  <2>3. Claimants'
    BY <1>5, ThreadAssumption DEF IInv, TypeOK, QueueInv, Claimants, PopReload, Goto, Threads
  <2>4. Items'
    BY <1>5, ThreadAssumption, Zenon DEF IInv, TypeOK, QueueInv, Items, PopReload, Goto, Threads
  <2> QED
    BY <2>1, <2>2, <2>3, <2>4 DEF IInv, QueueInv
<1>6. CASE PopCasFails(c)
  <2>1. TypeOK'
    BY <1>6, ThreadAssumption
       DEF IInv, TypeOK, PopCasFails, Goto, Threads, ProducerPc, ConsumerPc, QueueInv, Items, Item
  <2>2. Positions' /\ InsideSlots' /\ OutsideSlots' /\ Writers' /\ Readers'
    BY <1>6, QuietStep, Zenon DEF IInv, TypeOK, PopCasFails, Goto, Threads, Roaming
  <2>3. Claimants'
    BY <1>6, ThreadAssumption DEF IInv, TypeOK, QueueInv, Claimants, PopCasFails, Goto, Threads
  <2>4. Items'
    BY <1>6, ThreadAssumption, Zenon DEF IInv, TypeOK, QueueInv, Items, PopCasFails, Goto, Threads
  <2> QED
    BY <2>1, <2>2, <2>3, <2>4 DEF IInv, QueueInv
<1> QED
  BY <1>1, <1>2, <1>3, <1>4, <1>5, <1>6

(* The compare-and-swap of try_push (75): the position it takes was the first
   free one, and a new inside position with this writer appears. *)
LEMMA PushClaimStep ==
  ASSUME IInv, NEW p \in Producers, PushClaim(p)
  PROVE  IInv'
<1>1. /\ pc[p] = "cas" /\ pos[p] = enqueue_pos /\ sequence[Slot(enqueue_pos)] = enqueue_pos
      /\ sent[p] < MaxItems /\ arg[p] = <<p, sent[p]>>
  BY DEF IInv, TypeOK, QueueInv, Claimants, Items, PushClaim
<1>2. /\ enqueue_pos \in Nat /\ dequeue_pos \in Nat /\ Len(log) = enqueue_pos /\ log \in Seq(Item)
      /\ dequeue_pos <= enqueue_pos
      /\ enqueue_pos' = enqueue_pos + 1
      /\ dequeue_pos' = dequeue_pos /\ sequence' = sequence /\ value' = value /\ pos' = pos
      /\ arg' = arg
      /\ \A t \in Threads : pos[t] \in Nat
  BY <1>1 DEF IInv, TypeOK, QueueInv, Positions, PushClaim
<1>3. enqueue_pos < dequeue_pos + Capacity
  <2> SUFFICES ASSUME enqueue_pos = dequeue_pos + Capacity PROVE FALSE
    BY CapacityAssumption DEF IInv, TypeOK, QueueInv, Positions
  <2>1. Slot(enqueue_pos) = Slot(dequeue_pos)
    BY SlotLap, <1>2
  <2>2. sequence[Slot(dequeue_pos)] \in {dequeue_pos, dequeue_pos + 1}
    BY <1>2, CapacityAssumption DEF IInv, QueueInv, InsideSlots
  <2> QED
    BY <1>1, <1>2, <2>1, <2>2, CapacityAssumption
<1>4. TypeOK'
  <2>1. arg[p] \in Item
    BY <1>1, ThreadAssumption DEF IInv, TypeOK, Item
  <2>2. log' \in Seq(Item)
    BY <1>2, <2>1 DEF PushClaim
  <2> QED
    BY <1>1, <2>2, ThreadAssumption, SMTT(20) DEF IInv, TypeOK, PushClaim, Goto, Threads, ProducerPc, ConsumerPc
<1>5. /\ Len(log') = enqueue_pos + 1
      /\ log'[enqueue_pos + 1] = arg[p]
      /\ \A i \in 1 .. enqueue_pos : log'[i] = log[i]
  BY <1>1, <1>2 DEF PushClaim
<1>6. Positions'
  BY <1>2, <1>3, <1>5, CapacityAssumption DEF Positions
<1>7. /\ Writing(p)' /\ ~Writing(p) /\ ~(pc[p] = "publish")'
      /\ \A q \in Producers \ {p} : /\ Writing(q)' <=> Writing(q)
                                    /\ (pc[q] = "publish")' <=> pc[q] = "publish"
      /\ \A c \in Consumers : /\ Reading(c)' <=> Reading(c)
                              /\ (pc[c] = "read")' <=> pc[c] = "read"
  BY <1>1, ThreadAssumption DEF IInv, TypeOK, PushClaim, Goto, Threads, Writing, Reading
<1>8. InsideSlots'
  <2> SUFFICES ASSUME NEW x \in dequeue_pos .. enqueue_pos
               PROVE  \/ sequence[Slot(x)] = x + 1 /\ value[Slot(x)] = log'[x + 1]
                      \/ sequence[Slot(x)] = x /\ \E q \in Producers : Writing(q)' /\ pos[q] = x
    BY <1>2 DEF InsideSlots
  <2>1. CASE x = enqueue_pos
    BY <1>1, <1>7, <2>1
  <2>2. CASE x < enqueue_pos
    <3>1. \/ sequence[Slot(x)] = x + 1 /\ value[Slot(x)] = log[x + 1]
          \/ sequence[Slot(x)] = x /\ \E q \in Producers : Writing(q) /\ pos[q] = x
      BY <1>2, <2>2 DEF IInv, QueueInv, InsideSlots
    <3>2. log'[x + 1] = log[x + 1]
      BY <1>2, <1>5, <2>2
    <3> QED
      BY <1>7, <3>1, <3>2
  <2> QED
    BY <2>1, <2>2, <1>2
<1>9. OutsideSlots'
  BY <1>2, <1>7, CapacityAssumption DEF IInv, QueueInv, OutsideSlots
<1>10. Writers'
  <2>1. \A q \in Producers \ {p} : Writing(q) =>
          /\ pos[q] < enqueue_pos /\ pos[q] \in Nat
          /\ log'[pos[q] + 1] = log[pos[q] + 1]
    BY <1>2, <1>5 DEF IInv, QueueInv, Writers, Threads
  <2>2. ASSUME NEW q \in Producers, Writing(q)'
        PROVE  /\ dequeue_pos <= pos[q] /\ pos[q] < enqueue_pos'
               /\ sequence[Slot(pos[q])] = pos[q]
               /\ log'[pos[q] + 1] = arg[q]
               /\ (pc[q] = "publish")' => value[Slot(pos[q])] = arg[q]
    <3>1. CASE q = p
      BY <1>1, <1>2, <1>5, <1>7, <3>1
    <3>2. CASE q # p
      <4>1. Writing(q) /\ ((pc[q] = "publish")' <=> pc[q] = "publish")
        BY <1>7, <2>2, <3>2
      <4>2. /\ dequeue_pos <= pos[q] /\ sequence[Slot(pos[q])] = pos[q]
            /\ log[pos[q] + 1] = arg[q]
            /\ pc[q] = "publish" => value[Slot(pos[q])] = arg[q]
        BY <4>1 DEF IInv, QueueInv, Writers
      <4> QED
        BY <1>2, <2>1, <3>2, <4>1, <4>2
    <3> QED
      BY <3>1, <3>2
  <2>3. ASSUME NEW q \in Producers, NEW r \in Producers, Writing(q)', Writing(r)', pos[q] = pos[r]
        PROVE  q = r
    <3>1. \A o \in Producers : o # p /\ Writing(o)' => Writing(o) /\ pos[o] # enqueue_pos
      BY <1>2, <1>7, <2>1
    <3> QED
      BY <1>1, <2>3, <3>1 DEF IInv, QueueInv, Writers
  <2> QED
    BY <1>2, <2>2, <2>3 DEF Writers
<1>11. Readers'
  <2>1. ASSUME NEW c \in Consumers, Reading(c)
        PROVE  /\ enqueue_pos + 1 <= pos[c] + Capacity
               /\ log'[pos[c] + 1] = log[pos[c] + 1]
    <3>1. /\ pos[c] \in Nat /\ pos[c] < dequeue_pos /\ enqueue_pos <= pos[c] + Capacity
          /\ sequence[Slot(pos[c])] = pos[c] + 1
      BY <1>2, <2>1 DEF IInv, QueueInv, Readers, Threads
    <3>2. ASSUME enqueue_pos = pos[c] + Capacity PROVE FALSE
      <4>1. Slot(enqueue_pos) = Slot(pos[c])
        BY <3>1, <3>2, SlotLap
      <4> QED
        BY <1>1, <1>2, <3>1, <3>2, <4>1, CapacityAssumption, SMTT(20)
    <3> QED
      <4>1. enqueue_pos + 1 <= pos[c] + Capacity
        BY <1>2, <3>1, <3>2, CapacityAssumption
      <4>2. pos[c] + 1 \in 1 .. enqueue_pos
        BY <1>2, <3>1
      <4> QED
        BY <1>5, <4>1, <4>2
  <2> QED
    BY <1>2, <1>7, <2>1 DEF IInv, QueueInv, Readers
<1>12. Claimants'
  BY <1>1, <1>2, ThreadAssumption DEF IInv, TypeOK, QueueInv, Claimants, PushClaim, Goto, Threads
<1>13. Items'
  <2>1. /\ sent'[p] = sent[p] + 1
        /\ \A q \in Producers \ {p} : sent'[q] = sent[q]
        /\ \A q \in Producers : sent[q] \in Nat
    BY ThreadAssumption DEF IInv, TypeOK, PushClaim
  <2>2. \A i \in 1 .. enqueue_pos : /\ log[i][1] \in Producers
                                    /\ log[i][2] \in Nat
                                    /\ log[i][2] < sent[log[i][1]]
                                    /\ log[i] # arg[p]
    BY <1>1, <1>2, ThreadAssumption DEF IInv, QueueInv, Items, Item
  <2>3. \A i, j \in 1 .. Len(log') : log'[i] = log'[j] => i = j
    BY <1>2, <1>5, <2>2, SMTT(20) DEF IInv, QueueInv, Items
  <2>4. \A i \in 1 .. Len(log') : log'[i][2] < sent'[log'[i][1]]
    <3> SUFFICES ASSUME NEW i \in 1 .. enqueue_pos + 1
                 PROVE  log'[i][2] < sent'[log'[i][1]]
      BY <1>5
    <3>1. CASE i = enqueue_pos + 1
      <4>1. log'[i] = <<p, sent[p]>>
        BY <1>1, <1>5, <3>1
      <4> QED
        BY <2>1, <4>1
    <3>2. CASE i # enqueue_pos + 1
      <4>1. i \in 1 .. enqueue_pos
        BY <1>2, <3>2
      <4>2. /\ log'[i] = log[i] /\ log[i][1] \in Producers /\ log[i][2] \in Nat
            /\ log[i][2] < sent[log[i][1]]
        BY <1>5, <2>2, <4>1
      <4>3. sent'[log[i][1]] \in {sent[log[i][1]], sent[log[i][1]] + 1} /\ sent[log[i][1]] \in Nat
        BY <2>1, <4>2
      <4> QED
        BY <4>2, <4>3
    <3> QED
      BY <3>1, <3>2
  <2>5. \A q \in Producers : pc'[q] \in {"loadSeq", "reload", "cas"} =>
          sent'[q] < MaxItems /\ arg'[q] = <<q, sent'[q]>>
    BY <1>1, <1>2, <2>1 DEF IInv, TypeOK, QueueInv, Items, PushClaim, Goto, Threads
  <2> QED
    BY <2>3, <2>4, <2>5 DEF Items
<1> QED
  BY <1>4, <1>6, <1>8, <1>9, <1>10, <1>11, <1>12, <1>13 DEF IInv, QueueInv

(* The move of the value into the claimed slot (86). *)
LEMMA PushWriteStep ==
  ASSUME IInv, NEW p \in Producers, PushWrite(p)
  PROVE  IInv'
<1>1. /\ pc[p] = "write" /\ Writing(p)
      /\ dequeue_pos <= pos[p] /\ pos[p] < enqueue_pos
      /\ sequence[Slot(pos[p])] = pos[p]
      /\ log[pos[p] + 1] = arg[p]
      /\ pos[p] \in Nat /\ Slot(pos[p]) \in Slots
  BY SlotRange DEF IInv, TypeOK, QueueInv, Writers, Writing, PushWrite, Threads
<1>2. /\ enqueue_pos \in Nat /\ dequeue_pos \in Nat
      /\ enqueue_pos <= dequeue_pos + Capacity
      /\ enqueue_pos' = enqueue_pos /\ dequeue_pos' = dequeue_pos /\ sequence' = sequence /\ pos' = pos
      /\ arg' = arg /\ sent' = sent /\ log' = log
      /\ \A t \in Threads : pos[t] \in Nat
  BY DEF IInv, TypeOK, QueueInv, Positions, PushWrite
<1>3. TypeOK'
  BY <1>1, ThreadAssumption DEF IInv, TypeOK, PushWrite, Goto, Threads, ProducerPc, ConsumerPc
<1>4. /\ \A q \in Producers : Writing(q)' <=> Writing(q)
      /\ \A q \in Producers \ {p} : (pc[q] = "publish")' <=> pc[q] = "publish"
      /\ \A c \in Consumers : /\ Reading(c)' <=> Reading(c)
                              /\ (pc[c] = "read")' <=> pc[c] = "read"
  BY <1>1, ThreadAssumption DEF IInv, TypeOK, PushWrite, Goto, Threads, Writing, Reading
<1>5. /\ value'[Slot(pos[p])] = arg[p]
      /\ \A x \in Nat : Slot(x) # Slot(pos[p]) => value'[Slot(x)] = value[Slot(x)]
  BY <1>1, SlotRange DEF IInv, TypeOK, PushWrite
<1>6. \A x \in Nat : x # pos[p] /\ enqueue_pos <= x + Capacity /\ x < enqueue_pos
        => Slot(x) # Slot(pos[p])
  BY <1>1, <1>2, SlotInjective, CapacityAssumption
<1>7. Positions'
  BY <1>2 DEF IInv, QueueInv, Positions
<1>8. InsideSlots'
  <2> SUFFICES ASSUME NEW x \in dequeue_pos .. enqueue_pos - 1
               PROVE  \/ sequence[Slot(x)] = x + 1 /\ value'[Slot(x)] = log[x + 1]
                      \/ sequence[Slot(x)] = x /\ \E q \in Producers : Writing(q)' /\ pos[q] = x
    BY <1>2 DEF InsideSlots
  <2>1. CASE x = pos[p]
    BY <1>1, <1>4, <2>1
  <2>2. CASE x # pos[p]
    <3>1. value'[Slot(x)] = value[Slot(x)]
      BY <1>2, <1>5, <1>6, <2>2, CapacityAssumption
    <3> QED
      BY <1>2, <1>4, <3>1 DEF IInv, QueueInv, InsideSlots
  <2> QED
    BY <2>1, <2>2
<1>9. OutsideSlots'
  BY <1>2, <1>4 DEF IInv, QueueInv, OutsideSlots
<1>10. Writers'
  <2>1. \A q \in Producers \ {p} : Writing(q) => value'[Slot(pos[q])] = value[Slot(pos[q])]
    BY <1>1, <1>2, <1>5, <1>6, CapacityAssumption, SMTT(20) DEF IInv, QueueInv, Writers, Threads
  <2> QED
    BY <1>1, <1>2, <1>4, <1>5, <2>1 DEF IInv, QueueInv, Writers
<1>11. Readers'
  <2>1. \A c \in Consumers : Reading(c) => value'[Slot(pos[c])] = value[Slot(pos[c])]
    BY <1>1, <1>2, <1>5, <1>6, SMTT(20) DEF IInv, QueueInv, Readers, Threads
  <2>9. Readers
    BY DEF IInv, QueueInv
  <2> QED
    BY <1>2, <1>4, <2>1, <2>9, SMTT(20) DEF Readers
<1>12. Claimants'
  BY <1>1, <1>2 DEF IInv, TypeOK, QueueInv, Claimants, PushWrite, Goto, Threads
<1>13. Items'
  BY <1>1, <1>2 DEF IInv, TypeOK, QueueInv, Items, PushWrite, Goto, Threads
<1> QED
  BY <1>3, <1>7, <1>8, <1>9, <1>10, <1>11, <1>12, <1>13 DEF IInv, QueueInv

(* The store that hands the slot to the consumers (87). *)
LEMMA PushPublishStep ==
  ASSUME IInv, NEW p \in Producers, PushPublish(p)
  PROVE  IInv'
<1> USE ThreadAssumption, CapacityAssumption
<1>1. /\ pc[p] = "publish" /\ Writing(p)
      /\ dequeue_pos <= pos[p] /\ pos[p] < enqueue_pos
      /\ sequence[Slot(pos[p])] = pos[p]
      /\ log[pos[p] + 1] = arg[p]
      /\ value[Slot(pos[p])] = arg[p]
      /\ pos[p] \in Nat /\ Slot(pos[p]) \in Slots
  BY SlotRange DEF IInv, TypeOK, QueueInv, Writers, Writing, PushPublish, Threads
<1>2. TypeOK'
  BY <1>1 DEF IInv, TypeOK, PushPublish, Goto, Threads, ProducerPc, ConsumerPc
<1>3. /\ ~Writing(p)'
      /\ \A q \in Producers \ {p} : /\ Writing(q)' <=> Writing(q)
                                    /\ (pc[q] = "publish")' <=> pc[q] = "publish"
      /\ \A c \in Consumers : /\ Reading(c)' <=> Reading(c)
                              /\ (pc[c] = "read")' <=> pc[c] = "read"
  BY <1>1 DEF IInv, TypeOK, PushPublish, Goto, Threads, Writing, Reading
<1>4. Positions'
  BY DEF IInv, QueueInv, Positions, PushPublish
<1>5. /\ sequence'[Slot(pos[p])] = pos[p] + 1
      /\ \A x \in Nat : Slot(x) # Slot(pos[p]) => sequence'[Slot(x)] = sequence[Slot(x)]
  BY <1>1, SlotRange DEF IInv, TypeOK, PushPublish
<1>6. \A x \in dequeue_pos .. dequeue_pos + Capacity - 1 : x # pos[p] => Slot(x) # Slot(pos[p])
  BY <1>1, SlotInjective DEF IInv, TypeOK, QueueInv, Positions
<1>7. InsideSlots'
  BY <1>1, <1>3, <1>5, <1>6, SMTT(20) DEF IInv, TypeOK, QueueInv, InsideSlots, Positions, PushPublish
<1>8. OutsideSlots'
  BY <1>1, <1>3, <1>5, <1>6 DEF IInv, TypeOK, QueueInv, OutsideSlots, Positions, PushPublish
<1>9. Writers'
  <2>1. /\ enqueue_pos' = enqueue_pos /\ dequeue_pos' = dequeue_pos /\ value' = value
        /\ log' = log /\ arg' = arg /\ pos' = pos
    BY DEF PushPublish
  <2>2. ASSUME NEW q \in Producers \ {p}, Writing(q)
        PROVE  sequence'[Slot(pos[q])] = sequence[Slot(pos[q])]
    <3>1. /\ enqueue_pos \in Nat /\ dequeue_pos \in Nat /\ enqueue_pos <= dequeue_pos + Capacity
          /\ pos[q] \in Nat /\ dequeue_pos <= pos[q] /\ pos[q] < enqueue_pos
      BY <2>2 DEF IInv, TypeOK, QueueInv, Positions, Writers, Threads
    <3>2. pos[q] # pos[p]
      BY <1>1, <2>2 DEF IInv, QueueInv, Writers
    <3>3. pos[q] \in dequeue_pos .. dequeue_pos + Capacity - 1
      BY <3>1
    <3> QED
      BY <1>5, <1>6, <3>1, <3>2, <3>3
  <2>9. Writers
    BY DEF IInv, QueueInv
  <2> QED
    BY <1>3, <2>1, <2>2, <2>9, SMTT(20) DEF Writers
<1>10. Readers'
  <2>1. enqueue_pos' = enqueue_pos /\ dequeue_pos' = dequeue_pos /\ value' = value /\ log' = log /\ pos' = pos
    BY DEF PushPublish
  <2>2. ASSUME NEW c \in Consumers, Reading(c)
        PROVE  sequence'[Slot(pos[c])] = sequence[Slot(pos[c])]
    <3>1. /\ enqueue_pos \in Nat /\ dequeue_pos \in Nat
          /\ pos[c] \in Nat /\ pos[c] < dequeue_pos /\ enqueue_pos <= pos[c] + Capacity
      BY <2>2 DEF IInv, TypeOK, QueueInv, Readers, Threads
    <3>2. pos[c] < pos[p] /\ pos[p] < pos[c] + Capacity
      BY <1>1, <3>1
    <3>3. Slot(pos[c]) # Slot(pos[p])
      BY <1>1, <3>1, <3>2, SlotInjective
    <3> QED
      BY <1>5, <3>1, <3>3
  <2>9. Readers
    BY DEF IInv, QueueInv
  <2> QED
    BY <1>3, <2>1, <2>2, <2>9 DEF Readers
<1>11. Claimants'
  <2>1. \A q \in Producers : pos[q] \in Nat /\ (sequence[Slot(pos[q])] = enqueue_pos =>
          sequence'[Slot(pos[q])] = sequence[Slot(pos[q])])
    <3>1. enqueue_pos \in Nat /\ \A q \in Producers : pos[q] \in Nat
      BY DEF IInv, TypeOK, Threads
    <3>2. enqueue_pos # pos[p]
      BY <1>1, <3>1
    <3> QED
      BY <1>1, <1>5, <3>1, <3>2, SMTT(20)
  <2>2. \A c \in Consumers : pos[c] \in Nat /\
          (pos[c] = dequeue_pos /\ sequence[Slot(pos[c])] = dequeue_pos + 1 =>
             sequence'[Slot(pos[c])] = sequence[Slot(pos[c])])
    <3>1. sequence[Slot(dequeue_pos)] = dequeue_pos + 1 => Slot(dequeue_pos) # Slot(pos[p])
      BY <1>1, <1>6, CapacityAssumption DEF IInv, TypeOK
    <3> QED
      BY <3>1, <1>5 DEF IInv, TypeOK, Threads
  <2>3. enqueue_pos' = enqueue_pos /\ dequeue_pos' = dequeue_pos /\ pos' = pos
    BY DEF PushPublish
  <2> QED
    BY <1>1, <2>1, <2>2, <2>3 DEF IInv, TypeOK, QueueInv, Claimants, PushPublish, Goto, Threads
<1>12. Items'
  BY <1>1 DEF IInv, TypeOK, QueueInv, Items, PushPublish, Goto, Threads
<1> QED
  BY <1>2, <1>4, <1>7, <1>8, <1>9, <1>10, <1>11, <1>12 DEF IInv, QueueInv

(* The compare-and-swap of try_pop (103): the oldest item was published, and
   its slot becomes the last outside position, held by this reader. *)
LEMMA PopClaimStep ==
  ASSUME IInv, NEW c \in Consumers, PopClaim(c)
  PROVE  IInv'
<1>1. /\ pc[c] = "cas" /\ pos[c] = dequeue_pos
      /\ sequence[Slot(dequeue_pos)] = dequeue_pos + 1
  BY DEF IInv, TypeOK, QueueInv, Claimants, PopClaim
<1>2. /\ enqueue_pos \in Nat /\ dequeue_pos \in Nat
      /\ dequeue_pos <= enqueue_pos /\ enqueue_pos <= dequeue_pos + Capacity
      /\ dequeue_pos' = dequeue_pos + 1
      /\ enqueue_pos' = enqueue_pos /\ sequence' = sequence /\ value' = value /\ pos' = pos
      /\ arg' = arg /\ sent' = sent /\ log' = log
      /\ \A t \in Threads : pos[t] \in Nat
  BY <1>1 DEF IInv, TypeOK, QueueInv, Positions, PopClaim
<1>3. dequeue_pos < enqueue_pos
  <2> SUFFICES ASSUME dequeue_pos = enqueue_pos PROVE FALSE
    BY <1>2
  <2>1. sequence[Slot(enqueue_pos)] \in {enqueue_pos, enqueue_pos - Capacity + 1}
    BY <1>2, CapacityAssumption DEF IInv, QueueInv, OutsideSlots
  <2> QED
    BY <1>1, <1>2, <2>1, CapacityAssumption
<1>4. TypeOK'
  BY <1>1, ThreadAssumption DEF IInv, TypeOK, PopClaim, Goto, Threads, ProducerPc, ConsumerPc
<1>5. Positions'
  BY <1>2, <1>3, CapacityAssumption DEF IInv, QueueInv, Positions
<1>6. /\ Reading(c)' /\ ~Reading(c)
      /\ \A d \in Consumers \ {c} : /\ Reading(d)' <=> Reading(d)
                                    /\ (pc[d] = "read")' <=> pc[d] = "read"
      /\ \A p \in Producers : /\ Writing(p)' <=> Writing(p)
                              /\ (pc[p] = "publish")' <=> pc[p] = "publish"
  BY <1>1, ThreadAssumption DEF IInv, TypeOK, PopClaim, Goto, Threads, Writing, Reading
<1>7. value[Slot(dequeue_pos)] = log[dequeue_pos + 1]
  BY <1>1, <1>2, <1>3 DEF IInv, QueueInv, InsideSlots
<1>8. InsideSlots'
  <2> SUFFICES ASSUME NEW x \in dequeue_pos + 1 .. enqueue_pos - 1
               PROVE  \/ sequence[Slot(x)] = x + 1 /\ value[Slot(x)] = log[x + 1]
                      \/ sequence[Slot(x)] = x /\ \E p \in Producers : Writing(p)' /\ pos[p] = x
    BY <1>2 DEF InsideSlots
  <2>1. x \in dequeue_pos .. enqueue_pos - 1
    BY <1>2
  <2> QED
    BY <1>6, <2>1 DEF IInv, QueueInv, InsideSlots
<1>9. OutsideSlots'
  <2> SUFFICES ASSUME NEW x \in enqueue_pos .. dequeue_pos + Capacity
               PROVE  \/ sequence[Slot(x)] = x
                      \/ /\ sequence[Slot(x)] = x - Capacity + 1
                         /\ \E d \in Consumers : Reading(d)' /\ pos[d] = x - Capacity
    BY <1>2, CapacityAssumption DEF OutsideSlots
  <2>1. CASE x = dequeue_pos + Capacity
    <3>1. Slot(x) = Slot(dequeue_pos)
      BY <1>2, <2>1, SlotLap
    <3>2. x - Capacity = dequeue_pos
      BY <1>2, <2>1, CapacityAssumption
    <3> QED
      BY <1>1, <1>6, <3>1, <3>2
  <2>2. CASE x < dequeue_pos + Capacity
    BY <1>2, <1>6, <2>2, CapacityAssumption DEF IInv, QueueInv, OutsideSlots
  <2> QED
    BY <1>2, <2>1, <2>2, CapacityAssumption
<1>10. Writers'
  <2>1. \A p \in Producers : Writing(p) => dequeue_pos + 1 <= pos[p]
    <3> SUFFICES ASSUME NEW p \in Producers, Writing(p)
                 PROVE  dequeue_pos + 1 <= pos[p]
      OBVIOUS
    <3>1. /\ pos[p] \in Nat /\ dequeue_pos <= pos[p]
          /\ sequence[Slot(pos[p])] = pos[p]
      BY <1>2, SMTT(20) DEF IInv, QueueInv, Writers, Threads
    <3>2. pos[p] # dequeue_pos
      BY <1>1, <1>2, <3>1
    <3> QED
      BY <1>2, <3>1, <3>2
  <2> QED
    BY <1>2, <1>6, <2>1 DEF IInv, QueueInv, Writers
<1>11. Readers'
  <2>1. \A d \in Consumers \ {c} : Reading(d) => pos[d] \in Nat /\ pos[d] < dequeue_pos
    BY <1>2 DEF IInv, QueueInv, Readers, Threads
  <2>2. ASSUME NEW d \in Consumers, Reading(d)'
        PROVE  /\ pos[d] < dequeue_pos + 1 /\ enqueue_pos <= pos[d] + Capacity
               /\ sequence[Slot(pos[d])] = pos[d] + 1
               /\ (pc[d] = "read")' => value[Slot(pos[d])] = log[pos[d] + 1]
    <3>1. CASE d = c
      BY <1>1, <1>2, <1>7, <3>1
    <3>2. CASE d # c
      <4>1. Reading(d) /\ ((pc[d] = "read")' <=> pc[d] = "read")
        BY <1>6, <2>2, <3>2
      <4>2. /\ enqueue_pos <= pos[d] + Capacity /\ sequence[Slot(pos[d])] = pos[d] + 1
            /\ pc[d] = "read" => value[Slot(pos[d])] = log[pos[d] + 1]
        BY <4>1 DEF IInv, QueueInv, Readers
      <4> QED
        BY <1>2, <2>1, <3>2, <4>1, <4>2
    <3> QED
      BY <3>1, <3>2
  <2>3. ASSUME NEW d \in Consumers, NEW e \in Consumers, Reading(d)', Reading(e)', pos[d] = pos[e]
        PROVE  d = e
    <3>1. \A o \in Consumers : o # c /\ Reading(o)' => Reading(o) /\ pos[o] # dequeue_pos
      BY <1>2, <1>6, <2>1, SMTT(20)
    <3> QED
      BY <1>1, <2>3, <3>1 DEF IInv, QueueInv, Readers
  <2> QED
    BY <1>2, <2>2, <2>3 DEF Readers
<1>12. Claimants'
  BY <1>1, <1>2, ThreadAssumption, SMTT(20) DEF IInv, TypeOK, QueueInv, Claimants, PopClaim, Goto, Threads
<1>13. Items'
  BY <1>1, <1>2, ThreadAssumption, SMTT(20) DEF IInv, TypeOK, QueueInv, Items, PopClaim, Goto, Threads
<1> QED
  BY <1>4, <1>5, <1>8, <1>9, <1>10, <1>11, <1>12, <1>13 DEF IInv, QueueInv

(* The move of the value out of the claimed slot (114). *)
LEMMA PopReadStep ==
  ASSUME IInv, NEW c \in Consumers, PopRead(c)
  PROVE  IInv'
<1>1. /\ pc[c] = "read" /\ Reading(c)
      /\ pos[c] < dequeue_pos /\ enqueue_pos <= pos[c] + Capacity
      /\ pos[c] \in Nat /\ Slot(pos[c]) \in Slots
  BY SlotRange DEF IInv, TypeOK, QueueInv, Readers, Reading, PopRead, Threads
<1>2. /\ enqueue_pos \in Nat /\ dequeue_pos \in Nat
      /\ dequeue_pos <= enqueue_pos
      /\ enqueue_pos' = enqueue_pos /\ dequeue_pos' = dequeue_pos /\ sequence' = sequence /\ pos' = pos
      /\ arg' = arg /\ sent' = sent /\ log' = log
      /\ \A t \in Threads : pos[t] \in Nat
  BY DEF IInv, TypeOK, QueueInv, Positions, PopRead
<1>3. TypeOK'
  BY <1>1, ThreadAssumption, SMTT(20) DEF IInv, TypeOK, PopRead, Goto, Threads, ProducerPc, ConsumerPc
<1>4. /\ \A d \in Consumers : Reading(d)' <=> Reading(d)
      /\ ~(pc[c] = "read")'
      /\ \A d \in Consumers \ {c} : (pc[d] = "read")' <=> pc[d] = "read"
      /\ \A p \in Producers : /\ Writing(p)' <=> Writing(p)
                              /\ (pc[p] = "publish")' <=> pc[p] = "publish"
  BY <1>1, ThreadAssumption DEF IInv, TypeOK, PopRead, Goto, Threads, Writing, Reading
<1>5. \A x \in Nat : Slot(x) # Slot(pos[c]) => value'[Slot(x)] = value[Slot(x)]
  BY <1>1, SlotRange DEF IInv, TypeOK, PopRead
<1>6. \A x \in Nat : x # pos[c] /\ enqueue_pos <= x + Capacity /\ x < enqueue_pos
        => value'[Slot(x)] = value[Slot(x)]
  BY <1>1, <1>2, <1>5, SlotInjective, CapacityAssumption
<1>7. Positions'
  BY <1>2 DEF IInv, QueueInv, Positions
<1>8. InsideSlots'
  <2>1. \A x \in dequeue_pos .. enqueue_pos - 1 : value'[Slot(x)] = value[Slot(x)]
    BY <1>1, <1>2, <1>6, CapacityAssumption DEF IInv, QueueInv, Positions
  <2> QED
    BY <1>2, <1>4, <2>1, SMTT(20) DEF IInv, QueueInv, InsideSlots
<1>9. OutsideSlots'
  BY <1>2, <1>4 DEF IInv, QueueInv, OutsideSlots
<1>10. Writers'
  <2>1. ASSUME NEW p \in Producers, Writing(p)
        PROVE  value'[Slot(pos[p])] = value[Slot(pos[p])]
    <3>1. /\ pos[p] \in Nat /\ dequeue_pos <= pos[p] /\ pos[p] < enqueue_pos
          /\ enqueue_pos <= dequeue_pos + Capacity
      BY <1>2, <2>1, SMTT(20) DEF IInv, QueueInv, Writers, Positions, Threads
    <3>2. pos[p] # pos[c] /\ enqueue_pos <= pos[p] + Capacity
      BY <1>1, <1>2, <3>1, CapacityAssumption
    <3> QED
      BY <1>6, <3>1, <3>2
  <2>9. Writers
    BY DEF IInv, QueueInv
  <2> QED
    BY <1>2, <1>4, <2>1, <2>9, SMTT(20) DEF Writers
<1>11. Readers'
  <2>1. ASSUME NEW d \in Consumers \ {c}, Reading(d)
        PROVE  value'[Slot(pos[d])] = value[Slot(pos[d])]
    <3>1. /\ pos[d] \in Nat /\ pos[d] # pos[c]
          /\ pos[d] < dequeue_pos /\ enqueue_pos <= pos[d] + Capacity
      BY <1>1, <1>2, <2>1 DEF IInv, QueueInv, Readers, Threads
    <3>2. pos[d] < enqueue_pos
      BY <1>2, <3>1
    <3> QED
      BY <1>6, <3>1, <3>2
  <2>9. Readers
    BY DEF IInv, QueueInv
  <2> QED
    BY <1>2, <1>4, <2>1, <2>9, SMTT(20) DEF Readers
<1>12. Claimants'
  BY <1>1, <1>2, ThreadAssumption DEF IInv, TypeOK, QueueInv, Claimants, PopRead, Goto, Threads
<1>13. Items'
  BY <1>1, <1>2, ThreadAssumption, SMTT(20) DEF IInv, TypeOK, QueueInv, Items, PopRead, Goto, Threads
<1> QED
  BY <1>3, <1>7, <1>8, <1>9, <1>10, <1>11, <1>12, <1>13 DEF IInv, QueueInv

(* The store that frees the slot for the next lap (115). *)
LEMMA PopReleaseStep ==
  ASSUME IInv, NEW c \in Consumers, PopRelease(c)
  PROVE  IInv'
<1>1. /\ pc[c] = "release" /\ Reading(c)
      /\ pos[c] < dequeue_pos /\ enqueue_pos <= pos[c] + Capacity
      /\ sequence[Slot(pos[c])] = pos[c] + 1
      /\ pos[c] \in Nat /\ Slot(pos[c]) \in Slots
  BY SlotRange DEF IInv, TypeOK, QueueInv, Readers, Reading, PopRelease, Threads
<1>2. /\ enqueue_pos \in Nat /\ dequeue_pos \in Nat
      /\ dequeue_pos <= enqueue_pos
      /\ enqueue_pos' = enqueue_pos /\ dequeue_pos' = dequeue_pos /\ value' = value /\ pos' = pos
      /\ arg' = arg /\ sent' = sent /\ log' = log
      /\ \A t \in Threads : pos[t] \in Nat
  BY DEF IInv, TypeOK, QueueInv, Positions, PopRelease
<1>3. TypeOK'
  BY <1>1, ThreadAssumption, CapacityAssumption, SMTT(20)
     DEF IInv, TypeOK, PopRelease, Goto, Threads, ProducerPc, ConsumerPc
<1>4. /\ ~Reading(c)'
      /\ \A d \in Consumers \ {c} : /\ Reading(d)' <=> Reading(d)
                                    /\ (pc[d] = "read")' <=> pc[d] = "read"
      /\ \A p \in Producers : /\ Writing(p)' <=> Writing(p)
                              /\ (pc[p] = "publish")' <=> pc[p] = "publish"
  BY <1>1, ThreadAssumption DEF IInv, TypeOK, PopRelease, Goto, Threads, Writing, Reading
<1>5. /\ sequence'[Slot(pos[c])] = pos[c] + Capacity
      /\ \A x \in Nat : Slot(x) # Slot(pos[c]) => sequence'[Slot(x)] = sequence[Slot(x)]
  BY <1>1, SlotRange DEF IInv, TypeOK, PopRelease
<1>6. \A x \in Nat : x # pos[c] /\ enqueue_pos <= x + Capacity /\ x < enqueue_pos
        => sequence'[Slot(x)] = sequence[Slot(x)]
  BY <1>1, <1>2, <1>5, SlotInjective, CapacityAssumption, SMTT(20)
<1>7. Positions'
  BY <1>2 DEF IInv, QueueInv, Positions
<1>8. InsideSlots'
  <2>1. \A x \in dequeue_pos .. enqueue_pos - 1 : sequence'[Slot(x)] = sequence[Slot(x)]
    BY <1>1, <1>2, <1>6, CapacityAssumption DEF IInv, QueueInv, Positions
  <2> QED
    BY <1>2, <1>4, <2>1, SMTT(20) DEF IInv, QueueInv, InsideSlots
<1>9. OutsideSlots'
  <2> SUFFICES ASSUME NEW x \in enqueue_pos .. dequeue_pos + Capacity - 1
               PROVE  \/ sequence'[Slot(x)] = x
                      \/ /\ sequence'[Slot(x)] = x - Capacity + 1
                         /\ \E d \in Consumers : Reading(d)' /\ pos[d] = x - Capacity
    BY <1>2 DEF OutsideSlots
  <2>1. CASE x = pos[c] + Capacity
    BY <1>1, <1>5, <2>1, SlotLap, SMTT(20)
  <2>2. CASE x # pos[c] + Capacity
    <3>1. Slot(x) # Slot(pos[c])
      <4>1. pos[c] + Capacity \in Nat /\ x \in Nat /\ Slot(pos[c] + Capacity) = Slot(pos[c])
        BY <1>1, <1>2, SlotLap, CapacityAssumption
      <4>2. x < pos[c] + Capacity => pos[c] + Capacity < x + Capacity
        BY <1>1, <1>2, <4>1, CapacityAssumption
      <4>3. pos[c] + Capacity < x => x < pos[c] + Capacity + Capacity
        BY <1>1, <1>2, <4>1, CapacityAssumption
      <4> QED
        BY <2>2, <4>1, <4>2, <4>3, SlotInjective, CapacityAssumption
    <3> QED
      <4>1. x \in Nat /\ sequence'[Slot(x)] = sequence[Slot(x)]
        BY <1>2, <1>5, <3>1, SMTT(20)
      <4>2. \/ sequence[Slot(x)] = x
            \/ /\ sequence[Slot(x)] = x - Capacity + 1
               /\ \E d \in Consumers : Reading(d) /\ pos[d] = x - Capacity
        BY DEF IInv, QueueInv, OutsideSlots
      <4>3. x - Capacity # pos[c]
        BY <1>1, <2>2, <4>1, CapacityAssumption
      <4> QED
        BY <1>4, <4>1, <4>2, <4>3, SMTT(20)
  <2> QED
    BY <2>1, <2>2
<1>10. Writers'
  <2>1. ASSUME NEW p \in Producers, Writing(p)
        PROVE  sequence'[Slot(pos[p])] = sequence[Slot(pos[p])]
    <3>1. /\ pos[p] \in Nat /\ dequeue_pos <= pos[p] /\ pos[p] < enqueue_pos
          /\ enqueue_pos <= dequeue_pos + Capacity
      BY <1>2, <2>1, SMTT(20) DEF IInv, QueueInv, Writers, Positions, Threads
    <3>2. pos[p] # pos[c] /\ enqueue_pos <= pos[p] + Capacity
      BY <1>1, <1>2, <3>1, CapacityAssumption
    <3> QED
      BY <1>6, <3>1, <3>2
  <2>9. Writers
    BY DEF IInv, QueueInv
  <2> QED
    BY <1>2, <1>4, <2>1, <2>9, SMTT(20) DEF Writers
<1>11. Readers'
  <2>1. ASSUME NEW d \in Consumers \ {c}, Reading(d)
        PROVE  sequence'[Slot(pos[d])] = sequence[Slot(pos[d])]
    <3>1. /\ pos[d] \in Nat /\ pos[d] # pos[c]
          /\ pos[d] < dequeue_pos /\ enqueue_pos <= pos[d] + Capacity
      BY <1>1, <1>2, <2>1, SMTT(20) DEF IInv, QueueInv, Readers, Threads
    <3>2. pos[d] < enqueue_pos
      BY <1>2, <3>1
    <3> QED
      BY <1>6, <3>1, <3>2
  <2>9. Readers
    BY DEF IInv, QueueInv
  <2> QED
    BY <1>2, <1>4, <2>1, <2>9, SMTT(20) DEF Readers
<1>12. Claimants'
  <2>1. \A p \in Producers : pos[p] \in Nat /\
          (pos[p] = enqueue_pos /\ sequence[Slot(pos[p])] = enqueue_pos =>
             sequence'[Slot(pos[p])] = sequence[Slot(pos[p])])
    <3>1. Slot(pos[c] + 1) # Slot(pos[c])
      BY <1>1, SlotInjective, CapacityAssumption
    <3>2. Slot(enqueue_pos) = Slot(pos[c]) => sequence[Slot(enqueue_pos)] # enqueue_pos
      BY <1>1, <1>2, <3>1, SMTT(20)
    <3> QED
      <4> SUFFICES ASSUME NEW p \in Producers
                   PROVE  /\ pos[p] \in Nat
                          /\ pos[p] = enqueue_pos /\ sequence[Slot(pos[p])] = enqueue_pos
                             => sequence'[Slot(pos[p])] = sequence[Slot(pos[p])]
        OBVIOUS
      <4>1. pos[p] \in Nat
        BY <1>2 DEF Threads
      <4> QED
        BY <1>5, <3>2, <4>1, SMTT(20)
  <2>2. \A d \in Consumers : pos[d] \in Nat /\
          (sequence[Slot(pos[d])] = dequeue_pos + 1 =>
             sequence'[Slot(pos[d])] = sequence[Slot(pos[d])])
    <3>1. dequeue_pos + 1 # pos[c] + 1
      <4>1. dequeue_pos \in Nat /\ pos[c] \in Nat /\ pos[c] < dequeue_pos
        BY <1>1, <1>2, SMTT(20)
      <4> QED
        BY <4>1
    <3> QED
      <4> SUFFICES ASSUME NEW d \in Consumers
                   PROVE  /\ pos[d] \in Nat
                          /\ sequence[Slot(pos[d])] = dequeue_pos + 1
                             => sequence'[Slot(pos[d])] = sequence[Slot(pos[d])]
        BY SMTT(20)
      <4>1. pos[d] \in Nat
        BY <1>2 DEF Threads
      <4>2. sequence[Slot(pos[c])] # dequeue_pos + 1
        BY <1>1, <3>1, SMTT(20)
      <4> QED
        BY <1>5, <4>1, <4>2
  <2> QED
    BY <1>1, <1>2, <2>1, <2>2, SMTT(20) DEF IInv, TypeOK, QueueInv, Claimants, PopRelease, Goto, Threads
<1>13. Items'
  BY <1>1, <1>2, ThreadAssumption, Zenon DEF IInv, TypeOK, QueueInv, Items, PopRelease, Goto, Threads
<1> QED
  BY <1>3, <1>7, <1>8, <1>9, <1>10, <1>11, <1>12, <1>13 DEF IInv, QueueInv

------------------------------------------------------------------------------
(* The constructor (43-48) establishes the invariant. *)
LEMMA InitInv == Init => IInv
<1> SUFFICES ASSUME Init PROVE IInv
  OBVIOUS
<1>1. TypeOK
  BY CapacityAssumption, ThreadAssumption
     DEF Init, TypeOK, Slots, ProducerPc, ConsumerPc, Threads
<1>2. \A x \in 0 .. Capacity - 1 : Slot(x) = x
  BY CapacityAssumption DEF Slot
<1>3. Positions /\ InsideSlots
  BY CapacityAssumption DEF Init, Positions, InsideSlots
<1>4. OutsideSlots
  BY <1>2, CapacityAssumption DEF Init, OutsideSlots, Slots
<1>5. Writers /\ Readers /\ Claimants /\ Items
  BY DEF Init, Writers, Readers, Claimants, Items, Writing, Reading, Threads
<1> QED
  BY <1>1, <1>3, <1>4, <1>5 DEF IInv, QueueInv

(* No step of any thread breaks the invariant. *)
LEMMA NextInv == IInv /\ [Next]_vars => IInv'
<1> SUFFICES ASSUME IInv, [Next]_vars PROVE IInv'
  OBVIOUS
<1>1. ASSUME NEW p \in Producers, Push(p) PROVE IInv'
  BY <1>1, PushLocalStep, PushClaimStep, PushWriteStep, PushPublishStep DEF Push
<1>2. ASSUME NEW c \in Consumers, Pop(c) PROVE IInv'
  BY <1>2, PopLocalStep, PopClaimStep, PopReadStep, PopReleaseStep DEF Pop
<1>3. CASE UNCHANGED vars
  <2>1. TypeOK'
    BY <1>3 DEF IInv, TypeOK, vars
  <2>2. Positions' /\ InsideSlots' /\ OutsideSlots'
    BY <1>3, SMTT(20) DEF IInv, QueueInv, Positions, InsideSlots, OutsideSlots, Writing, Reading, vars
  <2>3. Writers' /\ Readers'
    BY <1>3, SMTT(20) DEF IInv, QueueInv, Writers, Readers, Writing, Reading, vars
  <2>4. Claimants' /\ Items'
    BY <1>3, SMTT(20) DEF IInv, QueueInv, Claimants, Items, vars
  <2> QED
    BY <2>1, <2>2, <2>3, <2>4 DEF IInv, QueueInv
<1> QED
  BY <1>1, <1>2, <1>3 DEF Next

(* Whatever the threads do in try_push and try_pop, the variables keep their
   types: positions and sequence numbers never go negative, and a slot holds
   an item or a default-constructed or moved-from object. *)
THEOREM TypeCorrect == Spec => []TypeOK
<1>1. IInv => TypeOK
  BY DEF IInv
<1> QED
  BY InitInv, NextInv, <1>1, PTL DEF Spec

(* In every reachable state each position of the current lap is in one of its
   phases (free, being written, published, being read), and the thread the
   code relies on is the one that holds it. *)
THEOREM RingPhases == Spec => []QueueInv
<1>1. IInv => QueueInv
  BY DEF IInv
<1> QED
  BY InitInv, NextInv, <1>1, PTL DEF Spec

(* No two threads are between the claim and the store of the sequence number of
   the same slot, so the plain value accesses (86, 114) never race, for any
   number of threads and any capacity. *)
THEOREM NoSlotRace == Spec => []SlotExclusive
<1>1. IInv => SlotExclusive
  <2> SUFFICES ASSUME IInv,
                      NEW t \in Threads, NEW u \in Threads, t # u,
                      (t \in Producers /\ Writing(t)) \/ (t \in Consumers /\ Reading(t)),
                      (u \in Producers /\ Writing(u)) \/ (u \in Consumers /\ Reading(u)),
                      Slot(pos[t]) = Slot(pos[u])
               PROVE  FALSE
    BY DEF SlotExclusive
  <2>1. /\ enqueue_pos \in Nat /\ dequeue_pos \in Nat /\ enqueue_pos <= dequeue_pos + Capacity
        /\ pos[t] \in Nat /\ pos[u] \in Nat
    BY DEF IInv, TypeOK, QueueInv, Positions
  <2>2. /\ pos[t] < enqueue_pos /\ enqueue_pos <= pos[t] + Capacity
        /\ pos[u] < enqueue_pos /\ enqueue_pos <= pos[u] + Capacity
    BY <2>1, CapacityAssumption, SMTT(20) DEF IInv, QueueInv, Writers, Readers, Positions
  <2>3. pos[t] = pos[u]
    <3>1. CASE pos[t] < pos[u]
      BY <2>1, <2>2, <3>1, SlotInjective, CapacityAssumption
    <3>2. CASE pos[u] < pos[t]
      BY <2>1, <2>2, <3>2, SlotInjective, CapacityAssumption
    <3> QED
      BY <2>1, <3>1, <3>2
  <2>4. \A p \in Producers : Writing(p) => dequeue_pos <= pos[p]
    BY DEF IInv, QueueInv, Writers
  <2>5. \A c \in Consumers : Reading(c) => pos[c] < dequeue_pos
    BY SMTT(20) DEF IInv, QueueInv, Readers
  <2>6. CASE t \in Producers /\ Writing(t) /\ u \in Producers /\ Writing(u)
    BY <2>3, <2>6, SMTT(20) DEF IInv, QueueInv, Writers
  <2>7. CASE t \in Consumers /\ Reading(t) /\ u \in Consumers /\ Reading(u)
    BY <2>3, <2>7, SMTT(20) DEF IInv, QueueInv, Readers
  <2> QED
    BY <2>1, <2>3, <2>4, <2>5, <2>6, <2>7
<1> QED
  BY InitInv, NextInv, <1>1, PTL DEF Spec

(* The sequence number of a slot never lags behind a position that was already
   claimed, however stale the pos a thread still holds (66, 94). *)
LEMMA SequenceCoversPast ==
  ASSUME IInv, NEW x \in Nat, x < enqueue_pos
  PROVE  /\ sequence[Slot(x)] >= x
         /\ x < dequeue_pos => sequence[Slot(x)] >= x + 1
<1>1. /\ enqueue_pos \in Nat /\ dequeue_pos \in Nat
      /\ dequeue_pos <= enqueue_pos /\ enqueue_pos <= dequeue_pos + Capacity
  BY DEF IInv, TypeOK, QueueInv, Positions
<1>2. CASE dequeue_pos <= x
  <2>1. sequence[Slot(x)] \in {x, x + 1}
    BY <1>1, <1>2 DEF IInv, QueueInv, InsideSlots
  <2> QED
    BY <1>1, <1>2, <2>1
<1>3. CASE x < dequeue_pos
  <2>1. PICK y \in dequeue_pos .. dequeue_pos + Capacity - 1 : Slot(y) = Slot(x)
    BY <1>1, SlotCovered
  <2>2. y \in Nat /\ x < y
    BY <1>1, <1>3, <2>1, CapacityAssumption
  <2>3. x + Capacity <= y
    BY <2>1, <2>2, SlotInjective, CapacityAssumption
  <2>4. sequence[Slot(y)] \in {y, y + 1, y - Capacity + 1}
    BY <1>1, <2>1, <2>2, CapacityAssumption DEF IInv, QueueInv, InsideSlots, OutsideSlots
  <2> QED
    BY <2>1, <2>2, <2>3, <2>4, CapacityAssumption
<1> QED
  BY <1>1, <1>2, <1>3

(* try_push answers false only at the current position, and only because every
   slot is taken or because one consumer is still inside the slot it needs. *)
LEMMA FalsePushExplained ==
  ASSUME IInv, NEW p \in Producers, PushFull(p) PROVE PushHasCause(p)
<1>1. /\ enqueue_pos \in Nat /\ dequeue_pos \in Nat /\ pos[p] \in Nat
      /\ dequeue_pos <= enqueue_pos /\ enqueue_pos <= dequeue_pos + Capacity
      /\ pos[p] <= enqueue_pos
      /\ sequence[Slot(pos[p])] < pos[p]
      /\ sequence[Slot(pos[p])] \in Nat
  BY SlotRange DEF IInv, TypeOK, QueueInv, Positions, Claimants, PushFull, Threads
<1>2. pos[p] = enqueue_pos
  BY <1>1, SequenceCoversPast
<1>3. CASE enqueue_pos < dequeue_pos + Capacity
  BY <1>1, <1>2, <1>3, CapacityAssumption DEF IInv, QueueInv, OutsideSlots, PushHasCause
<1>4. CASE enqueue_pos = dequeue_pos + Capacity
  BY <1>1, <1>2, <1>4, CapacityAssumption DEF PushHasCause
<1> QED
  BY <1>1, <1>3, <1>4, CapacityAssumption

(* try_pop answers false only at the current position, and only because
   nothing is inside or because the oldest item is not published yet. *)
LEMMA FalsePopExplained ==
  ASSUME IInv, NEW c \in Consumers, PopEmpty(c) PROVE PopHasCause(c)
<1>1. /\ enqueue_pos \in Nat /\ dequeue_pos \in Nat /\ pos[c] \in Nat
      /\ dequeue_pos <= enqueue_pos
      /\ pos[c] <= dequeue_pos
      /\ sequence[Slot(pos[c])] < pos[c] + 1
      /\ sequence[Slot(pos[c])] \in Nat
  BY SlotRange, SMTT(20) DEF IInv, TypeOK, QueueInv, Positions, Claimants, PopEmpty, Threads
<1>2. pos[c] = dequeue_pos
  BY <1>1, SequenceCoversPast
<1>3. CASE dequeue_pos < enqueue_pos
  BY <1>1, <1>2, <1>3 DEF IInv, QueueInv, InsideSlots, PopHasCause
<1> QED
  BY <1>1, <1>2, <1>3 DEF PopHasCause

(* Neither try_push nor try_pop answers false without a cause. *)
THEOREM FalseExplained == Spec => FalseHasACause
<1>1. IInv /\ [Next]_vars => [/\ \A p \in Producers : PushFull(p) => PushHasCause(p)
                             /\ \A c \in Consumers : PopEmpty(c) => PopHasCause(c)]_vars
  BY FalsePushExplained, FalsePopExplained
<1> QED
  BY InitInv, NextInv, <1>1, PTL DEF Spec, FalseHasACause
==============================================================================
