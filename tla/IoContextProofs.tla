--------------------------- MODULE IoContextProofs ---------------------------
(***************************************************************************)
(* CoroutineInOnePlace and OnlyPumpsFreeEarly of IoContext, for every set  *)
(* of sockets and coroutines and every distribution of work in which no    *)
(* two coroutines wait in the same slot of a registration.                 *)
(*                                                                         *)
(* Every coroutine has one kind of place at a time, and every step moves   *)
(* at most those coroutines that it names from one kind to another.  An    *)
(* event of the batch whose socket is open has a waiter that no event      *)
(* before it takes away, and which keeps the socket from being destroyed.  *)
(***************************************************************************)
EXTENDS IoContext, FiniteSetTheorems, TLAPS

Slots == Socks \X Dirs
Event == [sock : Socks, dirs : SUBSET Dirs]

TypeOK ==
  /\ work \in Workloads
  /\ waiter \in [Slots -> Coros \cup {Nobody}]
  /\ open \in [Socks -> BOOLEAN]
  /\ registered \in [Socks -> BOOLEAN]
  /\ interest \in [Socks -> SUBSET Dirs]
  /\ epoll \in [Socks -> SUBSET Dirs]
  /\ batch \in Seq(Event)
  /\ ready \in Seq(Coros)
  /\ posted \in Seq(Coros)
  /\ \A t \in timers : t[2] \in Coros
  /\ away \subseteq Coros
  /\ done \subseteq Coros

\* A slot holds a coroutine that uses it, on an open socket, and the kernel is told
\* to report exactly the directions that have a waiter.
SlotsInv ==
  /\ \A u \in Slots : waiter[u] # Nobody => u \in work[waiter[u]].uses /\ open[u[1]]
  /\ \A s \in Socks : /\ epoll[s] = Waited(s) /\ interest[s] = Waited(s)
                      /\ registered[s] <=> Waited(s) # {}

\* The kernel names a socket once, and an event whose socket is open has a waiter.
BatchInv ==
  /\ \A i, j \in DOMAIN batch : batch[i].sock = batch[j].sock => i = j
  /\ \A i \in DOMAIN batch :
       open[batch[i].sock] => \E d \in batch[i].dirs : waiter[<<batch[i].sock, d>>] # Nobody

Listed(s, x) == \E i \in DOMAIN s : s[i] = x
Once(s) == \A i, j \in DOMAIN s : s[i] = s[j] => i = j

\* No place names a coroutine twice.
NamedOnce ==
  /\ Once(ready) /\ Once(posted)
  /\ \A t, v \in timers : t[2] = v[2] => t = v
  /\ \A u, v \in Slots : waiter[u] # Nobody /\ waiter[u] = waiter[v] => u = v

Kinds == {"ready", "posted", "timer", "slot", "away", "done", "lost"}

\* kind tells for each coroutine the one kind of place that names it.
PlacedBy(kind) ==
  \A h \in Coros :
    /\ Listed(ready, h) <=> kind[h] = "ready"
    /\ Listed(posted, h) <=> kind[h] = "posted"
    /\ (\E t \in timers : t[2] = h) <=> kind[h] = "timer"
    /\ (\E u \in Slots : waiter[u] = h) <=> kind[h] = "slot"
    /\ h \in away <=> kind[h] = "away"
    /\ h \in done <=> kind[h] = "done"
    /\ kind[h] = "lost" => CutOff(h)

PlaceInv ==
  /\ NamedOnce
  /\ \E kind \in [Coros -> Kinds] : PlacedBy(kind)
  /\ pc = "drain" => ready = <<>>

IInv == TypeOK /\ SlotsInv /\ BatchInv /\ OnlyPumpsFreeEarly /\ PlaceInv

------------------------------------------------------------------------------
(* Sequences that name nothing twice, and what a set of at most one element counts *)

LEMMA EmptyNames == Once(<<>>) /\ \A x : ~Listed(<<>>, x)
  BY DEF Once, Listed

LEMMA OneNames == ASSUME NEW S, NEW y \in S
                  PROVE  /\ <<y>> \in Seq(S) /\ Once(<<y>>)
                         /\ \A x : Listed(<<y>>, x) <=> x = y
<1>1. <<y>> \in Seq(S) /\ DOMAIN <<y>> = {1} /\ <<y>>[1] = y
  OBVIOUS
<1> QED
  BY <1>1, Zenon DEF Once, Listed

LEMMA TailNames ==
  ASSUME NEW S, NEW s \in Seq(S), s # <<>>, Once(s)
  PROVE  /\ Tail(s) \in Seq(S) /\ Once(Tail(s)) /\ Head(s) \in S /\ Listed(s, Head(s))
         /\ \A x : Listed(Tail(s), x) <=> Listed(s, x) /\ x # Head(s)
<1> DEFINE t == Tail(s)
<1>1. /\ t \in Seq(S) /\ Len(s) \in Nat /\ Len(s) >= 1 /\ Len(t) = Len(s) - 1
      /\ DOMAIN s = 1 .. Len(s) /\ DOMAIN t = 1 .. Len(t) /\ Head(s) = s[1] /\ s[1] \in S
      /\ \A i \in 1 .. Len(t) : t[i] = s[i + 1]
  OBVIOUS
<1> HIDE DEF t
<1>2. Once(t)
  <2>1. ASSUME NEW i \in 1 .. Len(t), NEW j \in 1 .. Len(t), t[i] = t[j] PROVE i = j
    <3>1. i + 1 \in DOMAIN s /\ j + 1 \in DOMAIN s /\ s[i + 1] = s[j + 1]
      BY <1>1, <2>1
    <3>2. i + 1 = j + 1
      BY Zenon, <3>1 DEF Once
    <3> QED
      BY <1>1, <3>2
  <2> QED
    BY Zenon, <1>1, <2>1 DEF Once
<1>3. ASSUME NEW x, Listed(t, x) PROVE Listed(s, x) /\ x # s[1]
  BY <1>1, <1>3 DEF Once, Listed
<1>4. ASSUME NEW x, Listed(s, x), x # s[1] PROVE Listed(t, x)
  <2>1. PICK i \in 1 .. Len(s) : s[i] = x
    BY <1>1, <1>4 DEF Listed
  <2>2. i - 1 \in 1 .. Len(t) /\ t[i - 1] = x
    BY <1>1, <1>4, <2>1
  <2> QED
    BY <1>1, <2>2 DEF Listed
<1>5. Listed(s, s[1])
  BY <1>1 DEF Listed
<1> QED
  BY Zenon, <1>1, <1>2, <1>3, <1>4, <1>5 DEF t

LEMMA AppendNames ==
  ASSUME NEW S, NEW s \in Seq(S), NEW y \in S, Once(s), ~Listed(s, y)
  PROVE  /\ Append(s, y) \in Seq(S) /\ Once(Append(s, y))
         /\ \A x : Listed(Append(s, y), x) <=> Listed(s, x) \/ x = y
<1> DEFINE t == Append(s, y)
           n == Len(s)
<1>1. /\ t \in Seq(S) /\ n \in Nat /\ DOMAIN s = 1 .. n /\ DOMAIN t = 1 .. (n + 1)
      /\ t[n + 1] = y /\ \A i \in 1 .. n : t[i] = s[i]
  OBVIOUS
<1> HIDE DEF t, n
<1>2. \A i \in DOMAIN t : (i \in DOMAIN s /\ t[i] = s[i]) \/ i = n + 1
  BY <1>1
<1>3. Once(t)
  BY <1>1, <1>2 DEF Once, Listed
<1>4. \A i \in DOMAIN s : i \in DOMAIN t
  BY <1>1
<1>5. n + 1 \in DOMAIN t
  BY <1>1
<1>6. \A x : Listed(t, x) <=> Listed(s, x) \/ x = y
  BY Zenon, <1>1, <1>2, <1>4, <1>5 DEF Listed
<1> QED
  BY <1>1, <1>3, <1>6 DEF t

LEMMA CountOfOne ==
  ASSUME NEW S, \A x, y \in S : x = y
  PROVE  Cardinality(S) = IF S = {} THEN 0 ELSE 1
<1>1. CASE S = {}
  BY <1>1, FS_EmptySet
<1>2. CASE S # {}
  <2>1. PICK x : S = {x}
    BY <1>2
  <2> QED
    BY <1>2, <2>1, FS_Singleton
<1> QED
  BY <1>1, <1>2

------------------------------------------------------------------------------
(* update_interest, and the steps that leave the coroutines where they are *)

LEMMA UpdateFollows ==
  ASSUME TypeOK, SlotsInv, NEW s \in Socks, NEW want \in SUBSET Dirs, UpdateInterest(s, want)
  PROVE  /\ epoll' = [epoll EXCEPT ![s] = want]
         /\ interest' = [interest EXCEPT ![s] = want]
         /\ registered' = [registered EXCEPT ![s] = (want # {})]
<1>1. /\ epoll \in [Socks -> SUBSET Dirs] /\ interest \in [Socks -> SUBSET Dirs]
      /\ registered \in [Socks -> BOOLEAN]
      /\ epoll[s] = interest[s] /\ registered[s] = (interest[s] # {})
  BY DEF TypeOK, SlotsInv
<1>2. CASE want = interest[s]
  <2>1. UNCHANGED <<registered, interest, epoll>>
    BY <1>1, <1>2 DEF UpdateInterest
  <2> QED
    BY <1>1, <1>2, <2>1
<1>3. CASE want # interest[s]
  BY <1>1, <1>3 DEF UpdateInterest
<1> QED
  BY <1>2, <1>3

\* What SlotsInv says of one socket, when its slots and what the kernel is told change.
LEMMA SlotsFollow ==
  ASSUME TypeOK, SlotsInv, NEW s \in Socks, NEW want \in SUBSET Dirs,
         waiter' \in [Slots -> Coros \cup {Nobody}], UNCHANGED <<open, work>>,
         epoll' = [epoll EXCEPT ![s] = want], interest' = [interest EXCEPT ![s] = want],
         registered' = [registered EXCEPT ![s] = (want # {})],
         \A u \in Slots : u[1] # s => waiter'[u] = waiter[u],
         \A d \in Dirs : d \in want <=> waiter'[<<s, d>>] # Nobody,
         \A u \in Slots : waiter'[u] # Nobody => u \in work[waiter'[u]].uses /\ open[u[1]]
  PROVE  SlotsInv'
<1>1. ASSUME NEW r \in Socks, r # s
      PROVE  (Waited(r))' = Waited(r) /\ epoll'[r] = epoll[r] /\ interest'[r] = interest[r]
             /\ registered'[r] = registered[r]
  <2>1. \A d \in Dirs : waiter'[<<r, d>>] = waiter[<<r, d>>]
    BY <1>1 DEF Slots
  <2>2. epoll'[r] = epoll[r] /\ interest'[r] = interest[r] /\ registered'[r] = registered[r]
    BY <1>1 DEF TypeOK
  <2> QED
    BY <2>1, <2>2 DEF Waited
<1>2. (Waited(s))' = want /\ epoll'[s] = want /\ interest'[s] = want /\ registered'[s] = (want # {})
  BY DEF Waited, TypeOK
<1>3. ASSUME NEW r \in Socks
      PROVE  /\ epoll'[r] = (Waited(r))' /\ interest'[r] = (Waited(r))'
             /\ registered'[r] <=> (Waited(r))' # {}
  <2>1. CASE r = s
    BY <1>2, <2>1
  <2>2. CASE r # s
    <3>1. /\ epoll[r] = Waited(r) /\ interest[r] = Waited(r)
          /\ registered[r] <=> Waited(r) # {}
      BY Zenon DEF SlotsInv
    <3> QED
      BY Zenon, <1>1, <2>2, <3>1
  <2> QED
    BY <2>1, <2>2
<1>4. open' = open /\ work' = work
  OBVIOUS
<1> QED
  BY Zenon, <1>3, <1>4 DEF SlotsInv

\* Being cut off is for good.
LEMMA CutOffStays ==
  ASSUME NEW h, CutOff(h), done \subseteq done', work' = work, work \in [Coros -> Work],
         done \subseteq Coros, \A s \in Socks : open'[s] => open[s]
  PROVE  CutOff(h)'
<1>1. PICK g \in done \ {h} : \E s \in work[g].closes \cap SocksOf(h) : ~open[s]
  BY DEF CutOff
<1>2. PICK s \in work[g].closes \cap SocksOf(h) : ~open[s]
  BY <1>1
<1>3. s \in Socks
  BY <1>1, <1>2 DEF Work
<1>4. SocksOf(h)' = SocksOf(h)
  BY DEF SocksOf
<1> QED
  BY <1>1, <1>2, <1>3, <1>4 DEF CutOff

LEMMA PlacesStay ==
  ASSUME PlaceInv, UNCHANGED <<ready, posted, timers, waiter, away, done, open, work>>,
         pc' = "drain" => ready' = <<>>
  PROVE  PlaceInv'
<1>1. /\ ready' = ready /\ posted' = posted /\ timers' = timers /\ waiter' = waiter
      /\ away' = away /\ done' = done /\ open' = open /\ work' = work
  OBVIOUS
<1>2. NamedOnce'
  BY Zenon, <1>1 DEF PlaceInv, NamedOnce
<1>3. PICK kind \in [Coros -> Kinds] : PlacedBy(kind)
  BY Zenon DEF PlaceInv
<1>4. \A h : CutOff(h)' = CutOff(h)
  BY Zenon, <1>1 DEF CutOff, SocksOf
<1>5. PlacedBy(kind)'
  <2>1. SUFFICES ASSUME NEW h \in Coros
                 PROVE  /\ Listed(ready', h) <=> kind[h] = "ready"
                        /\ Listed(posted', h) <=> kind[h] = "posted"
                        /\ (\E t \in timers' : t[2] = h) <=> kind[h] = "timer"
                        /\ (\E u \in Slots : waiter'[u] = h) <=> kind[h] = "slot"
                        /\ h \in away' <=> kind[h] = "away"
                        /\ h \in done' <=> kind[h] = "done"
                        /\ kind[h] = "lost" => CutOff(h)'
    BY DEF PlacedBy
  <2> QED
    BY Zenon, <1>1, <1>3, <1>4 DEF PlacedBy
<1> QED
  BY Zenon, <1>2, <1>3, <1>5 DEF PlaceInv

\* A step that says for each coroutine where it is now.
LEMMA PlacedAnew ==
  ASSUME NEW kind \in [Coros -> Kinds], NamedOnce', pc' = "drain" => ready' = <<>>,
         \A h \in Coros : /\ Listed(ready', h) <=> kind[h] = "ready"
                          /\ Listed(posted', h) <=> kind[h] = "posted"
                          /\ (\E t \in timers' : t[2] = h) <=> kind[h] = "timer"
                          /\ (\E u \in Slots : waiter'[u] = h) <=> kind[h] = "slot"
                          /\ h \in away' <=> kind[h] = "away"
                          /\ h \in done' <=> kind[h] = "done"
                          /\ kind[h] = "lost" => CutOff(h)'
  PROVE  PlaceInv'
<1>1. PlacedBy(kind)'
  BY DEF PlacedBy
<1> QED
  BY Zenon, <1>1 DEF PlaceInv

\* The events after the first one.
LEMMA RestOfBatch ==
  ASSUME TypeOK, BatchInv, batch # <<>>
  PROVE  /\ Head(batch) \in Event /\ Tail(batch) \in Seq(Event)
         /\ 1 \in DOMAIN batch /\ Head(batch) = batch[1]
         /\ \A i \in DOMAIN Tail(batch) : \E j \in DOMAIN batch :
              /\ Tail(batch)[i] = batch[j] /\ batch[j].sock # Head(batch).sock /\ j = i + 1
<1> DEFINE rest == Tail(batch)
<1>1. /\ batch \in Seq(Event) /\ rest \in Seq(Event) /\ Len(batch) \in Nat /\ Len(batch) >= 1
      /\ Head(batch) = batch[1] /\ batch[1] \in Event
      /\ DOMAIN batch = 1 .. Len(batch) /\ DOMAIN rest = 1 .. (Len(batch) - 1)
      /\ \A i \in DOMAIN rest : rest[i] = batch[i + 1]
  BY DEF TypeOK
<1> HIDE DEF rest
<1>2. 1 \in DOMAIN batch
  BY <1>1
<1>3. ASSUME NEW i \in DOMAIN rest
      PROVE  i + 1 \in DOMAIN batch /\ rest[i] = batch[i + 1] /\ batch[i + 1].sock # batch[1].sock
  <2>1. i + 1 \in DOMAIN batch /\ i + 1 # 1 /\ rest[i] = batch[i + 1]
    BY <1>1
  <2> QED
    BY Zenon, <1>2, <2>1 DEF BatchInv
<1> QED
  BY <1>1, <1>2, <1>3 DEF rest

\* What is left of the batch is as good as before.
LEMMA BatchGoesOn ==
  ASSUME TypeOK, BatchInv, OnlyPumpsFreeEarly, batch # <<>>, batch' = Tail(batch),
         UNCHANGED <<open, done, work>>,
         \A i \in DOMAIN batch' : \A d \in Dirs : batch'[i].sock # Head(batch).sock
            => waiter'[<<batch'[i].sock, d>>] = waiter[<<batch'[i].sock, d>>]
  PROVE  BatchInv' /\ OnlyPumpsFreeEarly' /\ batch' \in Seq(Event)
<1>1. /\ Tail(batch) \in Seq(Event)
      /\ \A i \in DOMAIN Tail(batch) : \E j \in DOMAIN batch :
           /\ Tail(batch)[i] = batch[j] /\ batch[j].sock # Head(batch).sock /\ j = i + 1
  BY Zenon, RestOfBatch
<1>2. /\ batch' \in Seq(Event)
      /\ \A i \in DOMAIN batch' : \E j \in DOMAIN batch :
           /\ batch'[i] = batch[j] /\ batch'[i].sock # Head(batch).sock /\ j = i + 1
  BY Zenon, <1>1
<1>3. open' = open /\ done' = done /\ work' = work
  OBVIOUS
<1>4. ASSUME NEW i \in DOMAIN batch', NEW k \in DOMAIN batch', batch'[i].sock = batch'[k].sock
      PROVE  i = k
  <2>1. PICK j \in DOMAIN batch : batch'[i] = batch[j] /\ j = i + 1
    BY Zenon, <1>2
  <2>2. PICK l \in DOMAIN batch : batch'[k] = batch[l] /\ l = k + 1
    BY Zenon, <1>2
  <2>3. j = l
    BY Zenon, <1>4, <2>1, <2>2 DEF BatchInv
  <2>4. i \in Int /\ k \in Int
    BY <1>2
  <2> QED
    BY <2>1, <2>2, <2>3, <2>4
<1>5. ASSUME NEW i \in DOMAIN batch', open'[batch'[i].sock]
      PROVE  \E d \in batch'[i].dirs : waiter'[<<batch'[i].sock, d>>] # Nobody
  <2>1. PICK j \in DOMAIN batch : batch'[i] = batch[j] /\ batch'[i].sock # Head(batch).sock
    BY Zenon, <1>2
  <2>2. PICK d \in batch'[i].dirs : waiter[<<batch'[i].sock, d>>] # Nobody
    <3>1. open[batch[j].sock]
      BY <1>3, <1>5, <2>1
    <3>2. \E d \in batch[j].dirs : waiter[<<batch[j].sock, d>>] # Nobody
      BY Zenon, <3>1 DEF BatchInv
    <3> QED
      BY <2>1, <3>2
  <2>3. batch'[i] \in Event
    BY <1>2
  <2>4. d \in Dirs
    BY <2>2, <2>3 DEF Event
  <2>5. waiter'[<<batch'[i].sock, d>>] = waiter[<<batch'[i].sock, d>>]
    BY <2>1, <2>4
  <2> QED
    BY Zenon, <2>2, <2>5
<1>6. ASSUME NEW i \in DOMAIN batch'
      PROVE  open'[batch'[i].sock] \/ \E g \in done' : batch'[i].sock \in work'[g].closes
  <2>1. PICK j \in DOMAIN batch : batch'[i] = batch[j]
    BY Zenon, <1>2
  <2> QED
    BY Zenon, <1>3, <2>1 DEF OnlyPumpsFreeEarly
<1> QED
  BY Zenon, <1>2, <1>4, <1>5, <1>6 DEF BatchInv, OnlyPumpsFreeEarly

LEMMA SlotsStay ==
  ASSUME SlotsInv, UNCHANGED <<waiter, registered, interest, epoll, open, work>>
  PROVE  SlotsInv'
<1>1. /\ waiter' = waiter /\ registered' = registered /\ interest' = interest
      /\ epoll' = epoll /\ open' = open /\ work' = work
  OBVIOUS
<1>2. \A s : (Waited(s))' = Waited(s)
  BY Zenon, <1>1 DEF Waited
<1> QED
  BY Zenon, <1>1, <1>2 DEF SlotsInv

LEMMA BatchStays ==
  ASSUME BatchInv, OnlyPumpsFreeEarly, UNCHANGED <<batch, open, done, work, waiter>>
  PROVE  BatchInv' /\ OnlyPumpsFreeEarly'
<1>1. batch' = batch /\ open' = open /\ done' = done /\ work' = work /\ waiter' = waiter
  OBVIOUS
<1> QED
  BY Zenon, <1>1 DEF BatchInv, OnlyPumpsFreeEarly

\* A step that moves neither a coroutine nor a registration, and the batch by one
\* event at most.
LEMMA QuietStep ==
  ASSUME IInv,
         UNCHANGED <<waiter, registered, interest, epoll, open, work, ready, posted, timers, away, done>>,
         batch' = batch \/ (batch # <<>> /\ batch' = Tail(batch)),
         pc' = "drain" => ready' = <<>>
  PROVE  IInv'
<1>1. TypeOK /\ SlotsInv /\ BatchInv /\ OnlyPumpsFreeEarly /\ PlaceInv
  BY DEF IInv
<1>2. /\ waiter' = waiter /\ registered' = registered /\ interest' = interest /\ epoll' = epoll
      /\ open' = open /\ work' = work /\ ready' = ready /\ posted' = posted /\ timers' = timers
      /\ away' = away /\ done' = done
  OBVIOUS
<1>3. SlotsInv' /\ PlaceInv'
  BY Zenon, <1>1, <1>2, SlotsStay, PlacesStay
<1>4. BatchInv' /\ OnlyPumpsFreeEarly' /\ batch' \in Seq(Event)
  <2>1. CASE batch' = batch
    BY Zenon, <1>1, <1>2, <2>1, BatchStays DEF TypeOK
  <2>2. CASE batch # <<>> /\ batch' = Tail(batch)
    BY Zenon, <1>1, <1>2, <2>2, BatchGoesOn
  <2> QED
    BY <2>1, <2>2
<1>5. TypeOK'
  BY Zenon, <1>1, <1>2, <1>4 DEF TypeOK
<1> QED
  BY Zenon, <1>3, <1>4, <1>5 DEF IInv

------------------------------------------------------------------------------
(* The loop *)

LEMMA WaitReturnsInv == ASSUME IInv, WaitReturns PROVE IInv'
<1>1. /\ TypeOK /\ SlotsInv /\ BatchInv /\ OnlyPumpsFreeEarly /\ PlaceInv
      /\ pc' = "events"
      /\ UNCHANGED <<ready, posted, timers, away, done, work>>
      /\ UNCHANGED <<waiter, registered, interest, epoll, open>>
  BY DEF IInv, WaitReturns, sockVars, timeVars, lifeVars
<1>2. PICK order \in Bijection(1 .. Cardinality(Reported), Reported) :
        batch' = [i \in DOMAIN order |->
                    [sock |-> order[i], dirs |-> readiness[order[i]] \cap epoll[order[i]]]]
  BY Zenon DEF WaitReturns
<1> DEFINE n == Cardinality(Reported)
<1>3. n \in Nat
  BY ContextAssumption, FS_Subset, FS_CardinalityType DEF Reported
<1>4. order \in [1 .. n -> Reported] /\ \A i, j \in 1 .. n : i # j => order[i] # order[j]
  BY <1>2 DEF Bijection, Injection, IsInjective
<1> HIDE DEF n
<1>5. \A i \in 1 .. n : order[i] \in Socks /\ readiness[order[i]] \cap epoll[order[i]] # {}
  BY <1>4 DEF Reported
<1>6. batch' = [i \in 1 .. n |->
                  [sock |-> order[i], dirs |-> readiness[order[i]] \cap epoll[order[i]]]]
  BY <1>2, <1>4
<1>7. \A i \in 1 .. n : /\ batch'[i] \in Event /\ batch'[i].sock = order[i]
                        /\ batch'[i].dirs # {} /\ batch'[i].dirs \subseteq epoll[order[i]]
  BY <1>1, <1>5, <1>6 DEF TypeOK, Event
<1>8. batch' \in Seq(Event) /\ DOMAIN batch' = 1 .. n
  BY <1>3, <1>6, <1>7
<1>9. TypeOK'
  BY Zenon, <1>1, <1>8 DEF TypeOK
<1>10. ASSUME NEW i \in 1 .. n
       PROVE  /\ open[order[i]]
              /\ \E d \in batch'[i].dirs : waiter[<<order[i], d>>] # Nobody
  <2>1. PICK d \in batch'[i].dirs : TRUE
    BY <1>7
  <2>2. d \in epoll[order[i]] /\ order[i] \in Socks
    BY <1>5, <1>7, <2>1
  <2>3. d \in Dirs /\ waiter[<<order[i], d>>] # Nobody
    BY <1>1, <2>2 DEF SlotsInv, Waited
  <2>4. <<order[i], d>> \in Slots /\ <<order[i], d>>[1] = order[i]
    BY <2>2, <2>3 DEF Slots
  <2>5. open[order[i]]
    BY Zenon, <1>1, <2>3, <2>4 DEF SlotsInv
  <2> QED
    BY <2>1, <2>3, <2>5
<1>11. BatchInv'
  <2>1. \A i, j \in 1 .. n : batch'[i].sock = batch'[j].sock => i = j
    BY <1>4, <1>7
  <2>2. ASSUME NEW i \in 1 .. n
        PROVE  \E d \in batch'[i].dirs : waiter'[<<batch'[i].sock, d>>] # Nobody
    <3>1. batch'[i].sock = order[i] /\ waiter' = waiter
      BY <1>1, <1>7
    <3> QED
      BY Zenon, <1>10, <3>1
  <2> QED
    BY Zenon, <1>8, <2>1, <2>2 DEF BatchInv
<1>12. \A i \in DOMAIN batch' : open'[batch'[i].sock]
  BY <1>1, <1>7, <1>8, <1>10
<1>13. OnlyPumpsFreeEarly'
  BY Zenon, <1>12 DEF OnlyPumpsFreeEarly
<1>14. SlotsInv' /\ PlaceInv'
  BY <1>1, SlotsStay, PlacesStay
<1> QED
  BY Zenon, <1>9, <1>11, <1>13, <1>14 DEF IInv

\* process_ready_events resumes, once each, the coroutines that waited for what happened.
LEMMA ToResumeNames ==
  ASSUME TypeOK, NamedOnce, NEW s \in Socks, NEW dirs \in SUBSET Dirs
  PROVE  /\ ToResume(s, dirs) \in Seq(Coros) /\ Once(ToResume(s, dirs))
         /\ \A h \in Coros :
              Listed(ToResume(s, dirs), h) <=> \E d \in dirs : waiter[<<s, d>>] = h
<1> DEFINE a == Taken(s, "r", dirs)
           b == Taken(s, "w", dirs)
           x == waiter[<<s, "r">>]
           y == waiter[<<s, "w">>]
<1>1. <<s, "r">> \in Slots /\ <<s, "w">> \in Slots /\ <<s, "r">> # <<s, "w">>
  BY DEF Slots, Dirs
<1>2. x \in Coros \cup {Nobody} /\ y \in Coros \cup {Nobody} /\ (x # Nobody => x # y)
  BY Zenon, <1>1 DEF TypeOK, NamedOnce
<1>3. dirs \subseteq {"r", "w"} /\ Nobody \notin Coros
  BY ContextAssumption DEF Dirs
<1>4. ToResume(s, dirs) = a \o b
  BY DEF ToResume
<1>5. /\ a = IF "r" \in dirs /\ x # Nobody THEN <<x>> ELSE <<>>
      /\ b = IF "w" \in dirs /\ y # Nobody THEN <<y>> ELSE <<>>
  BY Zenon DEF Taken
<1>6. \A h : (\E d \in dirs : waiter[<<s, d>>] = h) <=> ("r" \in dirs /\ x = h) \/ ("w" \in dirs /\ y = h)
  BY <1>3
<1> HIDE DEF a, b, x, y
<1>7. CASE a = <<>> /\ b = <<>>
  <2>1. a \o b = <<>>
    BY <1>7
  <2>2. \A h \in Coros : ~\E d \in dirs : waiter[<<s, d>>] = h
    <3>1. ~("r" \in dirs /\ x # Nobody) /\ ~("w" \in dirs /\ y # Nobody)
      BY <1>5, <1>7
    <3> QED
      BY Zenon, <1>3, <1>6, <3>1
  <2>3. <<>> \in Seq(Coros)
    OBVIOUS
  <2> QED
    BY Zenon, <1>4, <2>1, <2>2, <2>3, EmptyNames
<1>8. CASE a = <<>> /\ b = <<y>> /\ "w" \in dirs /\ y # Nobody
  <2>1. a \o b = <<y>> /\ y \in Coros
    BY <1>2, <1>8
  <2>2. ~("r" \in dirs /\ x # Nobody)
    BY <1>5, <1>8
  <2>3. \A h \in Coros : (\E d \in dirs : waiter[<<s, d>>] = h) <=> h = y
    BY Zenon, <1>3, <1>6, <1>8, <2>2
  <2>4. <<y>> \in Seq(Coros) /\ Once(<<y>>) /\ \A h : Listed(<<y>>, h) <=> h = y
    BY <2>1, OneNames
  <2>5. ToResume(s, dirs) = <<y>>
    BY <1>4, <2>1
  <2> QED
    BY Zenon, <2>3, <2>4, <2>5
<1>9. CASE a = <<x>> /\ b = <<>> /\ "r" \in dirs /\ x # Nobody
  <2>1. a \o b = <<x>> /\ x \in Coros
    BY <1>2, <1>9
  <2>2. ~("w" \in dirs /\ y # Nobody)
    BY <1>5, <1>9
  <2>3. \A h \in Coros : (\E d \in dirs : waiter[<<s, d>>] = h) <=> h = x
    BY Zenon, <1>3, <1>6, <1>9, <2>2
  <2>4. <<x>> \in Seq(Coros) /\ Once(<<x>>) /\ \A h : Listed(<<x>>, h) <=> h = x
    BY <2>1, OneNames
  <2>5. ToResume(s, dirs) = <<x>>
    BY <1>4, <2>1
  <2> QED
    BY Zenon, <2>3, <2>4, <2>5
<1>10. CASE a = <<x>> /\ b = <<y>> /\ "r" \in dirs /\ x # Nobody /\ "w" \in dirs /\ y # Nobody
  <2>1. x \in Coros /\ y \in Coros /\ x # y
    BY <1>2, <1>10
  <2>2. a \o b = Append(<<x>>, y) /\ <<x>> \in Seq(Coros)
    BY <1>10, <2>1
  <2>3. Once(<<x>>) /\ \A h : Listed(<<x>>, h) <=> h = x
    BY <2>1, OneNames
  <2>4. /\ Append(<<x>>, y) \in Seq(Coros) /\ Once(Append(<<x>>, y))
        /\ \A h : Listed(Append(<<x>>, y), h) <=> Listed(<<x>>, h) \/ h = y
    BY <2>1, <2>2, <2>3, AppendNames
  <2> QED
    BY Zenon, <1>4, <1>6, <1>10, <2>2, <2>3, <2>4
<1> QED
  BY Zenon, <1>5, <1>7, <1>8, <1>9, <1>10

LEMMA ProcessEventInv == ASSUME IInv, ProcessEvent PROVE IInv'
<1> DEFINE e == Head(batch)
           taken(h) == \E d \in e.dirs : waiter[<<e.sock, d>>] = h
<1>1. /\ TypeOK /\ SlotsInv /\ BatchInv /\ OnlyPumpsFreeEarly /\ PlaceInv
      /\ ready = <<>> /\ batch # <<>> /\ batch' = Tail(batch) /\ pc = "events"
      /\ waiter' = [u \in Slots |-> IF u[1] = e.sock /\ u[2] \in e.dirs THEN Nobody ELSE waiter[u]]
      /\ UpdateInterest(e.sock, Waited(e.sock) \ e.dirs)
      /\ ready' = ToResume(e.sock, e.dirs)
  BY DEF IInv, ProcessEvent, Slots
<1>2. /\ pc' = pc /\ open' = open /\ timers' = timers /\ posted' = posted
      /\ away' = away /\ work' = work /\ done' = done
  BY DEF ProcessEvent, timeVars, postVars, lifeVars
<1>3. e.sock \in Socks /\ e.dirs \in SUBSET Dirs
  <2>1. e \in Event
    BY Zenon, <1>1, RestOfBatch
  <2> QED
    BY <2>1 DEF Event
<1>4. NamedOnce /\ work \in [Coros -> Work] /\ Nobody \notin Coros /\ done \subseteq Coros
  BY <1>1, ContextAssumption DEF PlaceInv, TypeOK
<1>5. /\ ready' \in Seq(Coros) /\ Once(ready')
      /\ \A h \in Coros : Listed(ready', h) <=> taken(h)
  <2>1. TypeOK /\ NamedOnce /\ e.sock \in Socks /\ e.dirs \in SUBSET Dirs
    BY Zenon, <1>1, <1>3, <1>4
  <2>2. ready' = ToResume(e.sock, e.dirs)
    BY Zenon, <1>1
  <2> HIDE DEF e
  <2>3. /\ ToResume(e.sock, e.dirs) \in Seq(Coros) /\ Once(ToResume(e.sock, e.dirs))
        /\ \A h \in Coros :
             Listed(ToResume(e.sock, e.dirs), h) <=> \E d \in e.dirs : waiter[<<e.sock, d>>] = h
    BY Zenon, <2>1, ToResumeNames
  <2> QED
    BY Zenon, <2>2, <2>3
<1> HIDE DEF e
<1>6. ASSUME NEW u \in Slots
      PROVE  /\ u[1] \in Socks /\ u[2] \in Dirs /\ u = <<u[1], u[2]>>
             /\ waiter[u] \in Coros \cup {Nobody}
             /\ u[1] = e.sock /\ u[2] \in e.dirs => waiter'[u] = Nobody
             /\ ~(u[1] = e.sock /\ u[2] \in e.dirs) => waiter'[u] = waiter[u]
  <2>1. u[1] \in Socks /\ u[2] \in Dirs /\ u = <<u[1], u[2]>>
    BY DEF Slots
  <2>2. waiter'[u] = IF u[1] = e.sock /\ u[2] \in e.dirs THEN Nobody ELSE waiter[u]
    BY Zenon, <1>1
  <2>3. waiter[u] \in Coros \cup {Nobody}
    BY <1>1 DEF TypeOK
  <2> QED
    BY Zenon, <2>1, <2>2, <2>3
<1>7. waiter' \in [Slots -> Coros \cup {Nobody}]
  BY <1>1, <1>6
<1> DEFINE want == Waited(e.sock) \ e.dirs
<1>8. want \in SUBSET Dirs
  BY DEF Waited
<1>9. /\ epoll' = [epoll EXCEPT ![e.sock] = want]
      /\ interest' = [interest EXCEPT ![e.sock] = want]
      /\ registered' = [registered EXCEPT ![e.sock] = (want # {})]
  BY Zenon, <1>1, <1>3, <1>8, UpdateFollows
<1>10. ASSUME NEW d \in Dirs PROVE d \in want <=> waiter'[<<e.sock, d>>] # Nobody
  <2>1. <<e.sock, d>> \in Slots /\ <<e.sock, d>>[1] = e.sock /\ <<e.sock, d>>[2] = d
    BY <1>3 DEF Slots
  <2>2. waiter'[<<e.sock, d>>] = IF d \in e.dirs THEN Nobody ELSE waiter[<<e.sock, d>>]
    BY <1>6, <2>1
  <2>3. d \in want <=> d \notin e.dirs /\ waiter[<<e.sock, d>>] # Nobody
    BY DEF Waited
  <2> QED
    BY Zenon, <2>2, <2>3
<1> HIDE DEF want
<1>11. \A u \in Slots : waiter'[u] # Nobody => waiter'[u] = waiter[u]
  BY Zenon, <1>6
<1>12. \A u \in Slots : waiter'[u] # Nobody => u \in work[waiter'[u]].uses /\ open[u[1]]
  BY Zenon, <1>1, <1>11 DEF SlotsInv
<1>13. \A u \in Slots : u[1] # e.sock => waiter'[u] = waiter[u]
  BY Zenon, <1>6
<1>14. SlotsInv'
  BY <1>1, <1>2, <1>3, <1>7, <1>8, <1>9, <1>10, <1>12, <1>13, SlotsFollow
<1>15. BatchInv' /\ OnlyPumpsFreeEarly' /\ batch' \in Seq(Event)
  <2>1. ASSUME NEW i \in DOMAIN batch', NEW d \in Dirs, batch'[i].sock # e.sock
        PROVE  waiter'[<<batch'[i].sock, d>>] = waiter[<<batch'[i].sock, d>>]
    <3>1. batch' \in Seq(Event)
      BY Zenon, <1>1, RestOfBatch
    <3>2. batch'[i].sock \in Socks
      <4>1. batch'[i] \in Event
        BY <3>1
      <4> QED
        BY <4>1 DEF Event
    <3>3. <<batch'[i].sock, d>> \in Slots /\ <<batch'[i].sock, d>>[1] = batch'[i].sock
      BY <3>2 DEF Slots
    <3> QED
      BY Zenon, <1>13, <2>1, <3>3
  <2> QED
    BY Zenon, <1>1, <1>2, <2>1, BatchGoesOn DEF e
<1>16. TypeOK'
  <2>1. /\ epoll' \in [Socks -> SUBSET Dirs] /\ interest' \in [Socks -> SUBSET Dirs]
        /\ registered' \in [Socks -> BOOLEAN]
    BY <1>1, <1>8, <1>9 DEF TypeOK
  <2> QED
    BY Zenon, <1>1, <1>2, <1>5, <1>7, <1>15, <2>1 DEF TypeOK
<1>17. PlaceInv'
  <2>1. PICK kind \in [Coros -> Kinds] : PlacedBy(kind)
    BY Zenon, <1>1 DEF PlaceInv
  <2> DEFINE new == [h \in Coros |-> IF taken(h) THEN "ready" ELSE kind[h]]
  <2>2. new \in [Coros -> Kinds] /\ \A h \in Coros : new[h] = IF taken(h) THEN "ready" ELSE kind[h]
    BY DEF Kinds
  <2>3. \A h \in Coros : taken(h) => kind[h] = "slot" /\ ~\E u \in Slots : waiter'[u] = h
    <3>1. ASSUME NEW h \in Coros, NEW d \in e.dirs, waiter[<<e.sock, d>>] = h
          PROVE  kind[h] = "slot" /\ ~\E u \in Slots : waiter'[u] = h
      <4>1. <<e.sock, d>> \in Slots /\ <<e.sock, d>>[1] = e.sock /\ <<e.sock, d>>[2] = d
        BY <1>3 DEF Slots
      <4>2. kind[h] = "slot"
        BY Zenon, <2>1, <3>1, <4>1 DEF PlacedBy
      <4>3. ASSUME NEW u \in Slots, waiter'[u] = h PROVE FALSE
        <5>1. h # Nobody
          BY <1>4
        <5>2. waiter[u] = h
          BY <1>11, <4>3, <5>1
        <5>3. u = <<e.sock, d>>
          BY Zenon, <1>4, <3>1, <4>1, <5>1, <5>2 DEF NamedOnce
        <5> QED
          BY Zenon, <1>6, <4>1, <4>3, <5>1, <5>3
      <4> QED
        BY <4>2, <4>3
    <3> QED
      BY Zenon, <3>1
  <2>4. \A h \in Coros : ~taken(h) =>
          ((\E u \in Slots : waiter'[u] = h) <=> (\E u \in Slots : waiter[u] = h))
    <3>1. ASSUME NEW h \in Coros, ~taken(h), NEW u \in Slots, waiter[u] = h PROVE waiter'[u] = h
      <4>1. ~(u[1] = e.sock /\ u[2] \in e.dirs)
        BY Zenon, <1>6, <3>1
      <4> QED
        BY Zenon, <1>6, <3>1, <4>1
    <3> QED
      BY Zenon, <1>4, <1>11, <3>1
  <2>5. \A h \in Coros : kind[h] # "ready"
    BY Zenon, <1>1, <2>1, EmptyNames DEF PlacedBy
  <2>6. \A h : CutOff(h)' = CutOff(h)
    BY Zenon, <1>2 DEF CutOff, SocksOf
  <2>7. NamedOnce'
    <3>1. Once(ready') /\ Once(posted') /\ \A t, v \in timers' : t[2] = v[2] => t = v
      BY Zenon, <1>2, <1>4, <1>5 DEF NamedOnce
    <3>2. \A u, v \in Slots : waiter'[u] # Nobody /\ waiter'[u] = waiter'[v] => u = v
      BY Zenon, <1>4, <1>11 DEF NamedOnce
    <3> QED
      BY Zenon, <3>1, <3>2 DEF NamedOnce
  <2> HIDE DEF new, taken
  <2>8. ASSUME NEW h \in Coros
        PROVE  /\ Listed(ready', h) <=> new[h] = "ready"
               /\ Listed(posted', h) <=> new[h] = "posted"
               /\ (\E t \in timers' : t[2] = h) <=> new[h] = "timer"
               /\ (\E u \in Slots : waiter'[u] = h) <=> new[h] = "slot"
               /\ h \in away' <=> new[h] = "away"
               /\ h \in done' <=> new[h] = "done"
               /\ new[h] = "lost" => CutOff(h)'
    <3>1. /\ Listed(posted, h) <=> kind[h] = "posted"
          /\ (\E t \in timers : t[2] = h) <=> kind[h] = "timer"
          /\ (\E u \in Slots : waiter[u] = h) <=> kind[h] = "slot"
          /\ h \in away <=> kind[h] = "away"
          /\ h \in done <=> kind[h] = "done"
          /\ kind[h] = "lost" => CutOff(h)
      BY Zenon, <2>1 DEF PlacedBy
    <3>2. CASE taken(h)
      <4>1. new[h] = "ready" /\ kind[h] = "slot"
        BY Zenon, <2>2, <2>3, <3>2
      <4> QED
        BY Zenon, <1>2, <1>5, <2>3, <3>1, <3>2, <4>1
    <3>3. CASE ~taken(h)
      <4>1. new[h] = kind[h] /\ kind[h] # "ready"
        BY Zenon, <2>2, <2>5, <3>3
      <4> QED
        BY Zenon, <1>2, <1>5, <2>4, <2>6, <3>1, <3>3, <4>1
    <3> QED
      BY <3>2, <3>3
  <2>9. pc' = "drain" => ready' = <<>>
    BY <1>1, <1>2
  <2> QED
    BY Zenon, <2>2, <2>7, <2>8, <2>9, PlacedAnew
<1> QED
  BY Zenon, <1>14, <1>15, <1>16, <1>17 DEF IInv

\* The one kind of place of a coroutine.
LEMMA KindOf ==
  ASSUME PlaceInv, NEW h \in Coros
  PROVE  \E k \in Kinds :
           /\ Listed(ready, h) <=> k = "ready"
           /\ Listed(posted, h) <=> k = "posted"
           /\ (\E t \in timers : t[2] = h) <=> k = "timer"
           /\ (\E u \in Slots : waiter[u] = h) <=> k = "slot"
           /\ h \in away <=> k = "away"
           /\ h \in done <=> k = "done"
           /\ k = "lost" => CutOff(h)
<1>1. PICK kind \in [Coros -> Kinds] : PlacedBy(kind)
  BY Zenon DEF PlaceInv
<1>2. kind[h] \in Kinds
  OBVIOUS
<1> QED
  BY Zenon, <1>1, <1>2 DEF PlacedBy

\* A step that moves one coroutine, g, to a place of kind k.
LEMMA OneMoves ==
  ASSUME PlaceInv, NEW g \in Coros, NEW k \in Kinds \ {"lost"},
         NamedOnce', pc' = "drain" => ready' = <<>>,
         \A h \in Coros : CutOff(h) => CutOff(h)',
         \A h \in Coros \ {g} : Listed(ready', h) <=> Listed(ready, h),
         \A h \in Coros \ {g} : Listed(posted', h) <=> Listed(posted, h),
         \A h \in Coros \ {g} : (\E t \in timers' : t[2] = h) <=> (\E t \in timers : t[2] = h),
         \A h \in Coros \ {g} : (\E u \in Slots : waiter'[u] = h) <=> (\E u \in Slots : waiter[u] = h),
         \A h \in Coros \ {g} : h \in away' <=> h \in away,
         \A h \in Coros \ {g} : h \in done' <=> h \in done,
         /\ Listed(ready', g) <=> k = "ready"
         /\ Listed(posted', g) <=> k = "posted"
         /\ (\E t \in timers' : t[2] = g) <=> k = "timer"
         /\ (\E u \in Slots : waiter'[u] = g) <=> k = "slot"
         /\ g \in away' <=> k = "away"
         /\ g \in done' <=> k = "done"
  PROVE  PlaceInv'
<1>1. PICK kind \in [Coros -> Kinds] : PlacedBy(kind)
  BY Zenon DEF PlaceInv
<1> DEFINE new == [kind EXCEPT ![g] = k]
<1>2. /\ new \in [Coros -> Kinds] /\ new[g] = k /\ k # "lost"
      /\ \A h \in Coros \ {g} : new[h] = kind[h]
  OBVIOUS
<1> HIDE DEF new
<1>3. ASSUME NEW h \in Coros
      PROVE  /\ Listed(ready', h) <=> new[h] = "ready"
             /\ Listed(posted', h) <=> new[h] = "posted"
             /\ (\E t \in timers' : t[2] = h) <=> new[h] = "timer"
             /\ (\E u \in Slots : waiter'[u] = h) <=> new[h] = "slot"
             /\ h \in away' <=> new[h] = "away"
             /\ h \in done' <=> new[h] = "done"
             /\ new[h] = "lost" => CutOff(h)'
  <2>1. CASE h = g
    BY Zenon, <1>2, <2>1
  <2>2. CASE h # g
    <3>1. h \in Coros \ {g} /\ new[h] = kind[h]
      BY Zenon, <1>2, <2>2
    <3>2. /\ Listed(ready, h) <=> kind[h] = "ready"
          /\ Listed(posted, h) <=> kind[h] = "posted"
          /\ (\E t \in timers : t[2] = h) <=> kind[h] = "timer"
          /\ (\E u \in Slots : waiter[u] = h) <=> kind[h] = "slot"
          /\ h \in away <=> kind[h] = "away"
          /\ h \in done <=> kind[h] = "done"
          /\ kind[h] = "lost" => CutOff(h)
      BY Zenon, <1>1 DEF PlacedBy
    <3> QED
      BY Zenon, <3>1, <3>2
  <2> QED
    BY <2>1, <2>2
<1> QED
  BY Zenon, <1>2, <1>3, PlacedAnew

LEMMA FireTimerInv == ASSUME IInv, FireTimer PROVE IInv'
<1>1. /\ TypeOK /\ SlotsInv /\ BatchInv /\ OnlyPumpsFreeEarly /\ PlaceInv
      /\ pc = "timers" /\ ready = <<>>
  BY DEF IInv, FireTimer
<1>2. PICK timer \in timers : timers' = timers \ {timer} /\ ready' = <<timer[2]>>
  BY DEF FireTimer
<1>3. /\ pc' = pc /\ batch' = batch /\ waiter' = waiter /\ registered' = registered
      /\ interest' = interest /\ epoll' = epoll /\ open' = open /\ posted' = posted
      /\ away' = away /\ work' = work /\ done' = done
  BY DEF FireTimer, sockVars, postVars, lifeVars
<1> DEFINE g == timer[2]
<1>4. g \in Coros
  BY <1>1, <1>2 DEF TypeOK
<1>5. ready' \in Seq(Coros) /\ Once(ready') /\ \A x : Listed(ready', x) <=> x = g
  BY <1>2, <1>4, OneNames
<1>6. \A h : (\E t \in timers' : t[2] = h) <=> h # g /\ \E t \in timers : t[2] = h
  <2>1. \A t \in timers : t[2] = g => t = timer
    BY Zenon, <1>1, <1>2 DEF PlaceInv, NamedOnce
  <2>2. \A t : t \in timers' <=> t \in timers /\ t # timer
    BY <1>2
  <2> QED
    BY Zenon, <2>1, <2>2
<1>7. NamedOnce'
  <2>1. \A t, v \in timers' : t[2] = v[2] => t = v
    BY <1>1, <1>2 DEF PlaceInv, NamedOnce
  <2> QED
    BY Zenon, <1>1, <1>3, <1>5, <2>1 DEF PlaceInv, NamedOnce
<1>8. PICK k \in Kinds :
           /\ Listed(posted, g) <=> k = "posted"
           /\ (\E t \in timers : t[2] = g) <=> k = "timer"
           /\ (\E u \in Slots : waiter[u] = g) <=> k = "slot"
           /\ g \in away <=> k = "away"
           /\ g \in done <=> k = "done"
  BY Zenon, <1>1, <1>4, KindOf
<1>9. \A h : CutOff(h)' = CutOff(h)
  BY Zenon, <1>3 DEF CutOff, SocksOf
<1>10. k = "timer" /\ ~\E t \in timers' : t[2] = g
  BY Zenon, <1>2, <1>6, <1>8
<1>11. pc' # "drain" /\ "ready" \in Kinds \ {"lost"}
  BY <1>1, <1>3 DEF Kinds
<1>12. \A h : ~Listed(ready, h)
  BY Zenon, <1>1, EmptyNames
<1> HIDE DEF g
<1>13. PlaceInv'
  BY Zenon, <1>1, <1>3, <1>4, <1>5, <1>6, <1>7, <1>8, <1>9, <1>10, <1>11, <1>12, OneMoves
<1>14. SlotsInv' /\ BatchInv' /\ OnlyPumpsFreeEarly'
  BY Zenon, <1>1, <1>3, SlotsStay, BatchStays
<1>15. TypeOK'
  <2>1. \A t \in timers' : t[2] \in Coros
    BY <1>1, <1>2 DEF TypeOK
  <2> QED
    BY Zenon, <1>1, <1>3, <1>5, <2>1 DEF TypeOK
<1> QED
  BY Zenon, <1>13, <1>14, <1>15 DEF IInv

LEMMA DrainPostedInv == ASSUME IInv, DrainPosted PROVE IInv'
<1>1. /\ TypeOK /\ SlotsInv /\ BatchInv /\ OnlyPumpsFreeEarly /\ PlaceInv
      /\ pc = "drain" /\ pc' = "local" /\ ready' = posted /\ posted' = <<>>
  BY DEF IInv, DrainPosted
<1>2. /\ batch' = batch /\ waiter' = waiter /\ registered' = registered
      /\ interest' = interest /\ epoll' = epoll /\ open' = open /\ timers' = timers
      /\ away' = away /\ work' = work /\ done' = done
  BY DEF DrainPosted, sockVars, timeVars, lifeVars
<1>3. SlotsInv' /\ BatchInv' /\ OnlyPumpsFreeEarly'
  BY Zenon, <1>1, <1>2, SlotsStay, BatchStays
<1>4. posted' \in Seq(Coros)
  BY <1>1
<1>5. TypeOK'
  BY Zenon, <1>1, <1>2, <1>4 DEF TypeOK
<1>6. PICK kind \in [Coros -> Kinds] : PlacedBy(kind)
  BY Zenon, <1>1 DEF PlaceInv
<1> DEFINE new == [h \in Coros |-> IF kind[h] = "posted" THEN "ready" ELSE kind[h]]
<1>7. /\ new \in [Coros -> Kinds]
      /\ \A h \in Coros : new[h] = IF kind[h] = "posted" THEN "ready" ELSE kind[h]
  BY DEF Kinds
<1> HIDE DEF new
<1>8. \A h : ~Listed(posted', h) /\ Once(posted')
  BY Zenon, <1>1, EmptyNames
<1>9. \A h \in Coros : kind[h] # "ready"
  <2>1. ready = <<>>
    BY Zenon, <1>1 DEF PlaceInv
  <2> QED
    BY Zenon, <1>6, <2>1, EmptyNames DEF PlacedBy
<1>10. NamedOnce'
  BY Zenon, <1>1, <1>2, <1>8 DEF PlaceInv, NamedOnce
<1>11. \A h : CutOff(h)' = CutOff(h)
  BY Zenon, <1>2 DEF CutOff, SocksOf
<1>12. ASSUME NEW h \in Coros
       PROVE  /\ Listed(ready', h) <=> new[h] = "ready"
              /\ Listed(posted', h) <=> new[h] = "posted"
              /\ (\E t \in timers' : t[2] = h) <=> new[h] = "timer"
              /\ (\E u \in Slots : waiter'[u] = h) <=> new[h] = "slot"
              /\ h \in away' <=> new[h] = "away"
              /\ h \in done' <=> new[h] = "done"
              /\ new[h] = "lost" => CutOff(h)'
  <2>1. /\ Listed(posted, h) <=> kind[h] = "posted"
        /\ (\E t \in timers : t[2] = h) <=> kind[h] = "timer"
        /\ (\E u \in Slots : waiter[u] = h) <=> kind[h] = "slot"
        /\ h \in away <=> kind[h] = "away"
        /\ h \in done <=> kind[h] = "done"
        /\ kind[h] = "lost" => CutOff(h)
    BY Zenon, <1>6 DEF PlacedBy
  <2>2. CASE kind[h] = "posted"
    <3>1. new[h] = "ready"
      BY Zenon, <1>7, <2>2
    <3> QED
      BY Zenon, <1>1, <1>2, <1>8, <2>1, <2>2, <3>1
  <2>3. CASE kind[h] # "posted"
    <3>1. new[h] = kind[h] /\ kind[h] # "ready"
      BY Zenon, <1>7, <1>9, <2>3
    <3> QED
      BY Zenon, <1>1, <1>2, <1>8, <1>11, <2>1, <2>3, <3>1
  <2> QED
    BY <2>2, <2>3
<1>13. pc' # "drain"
  BY <1>1
<1>14. PlaceInv'
  BY Zenon, <1>7, <1>10, <1>12, <1>13, PlacedAnew
<1> QED
  BY Zenon, <1>3, <1>5, <1>14 DEF IInv

LEMMA LoopStepInv == ASSUME IInv, LoopStep PROVE IInv'
<1>1. CASE TestsStopping \/ ProcessFreed \/ EventsDone
  <2>1. /\ batch' = batch \/ (batch # <<>> /\ batch' = Tail(batch))
        /\ pc' # "drain"
        /\ UNCHANGED <<waiter, registered, interest, epoll, open, work, ready, posted, timers, away, done>>
    BY <1>1 DEF TestsStopping, ProcessFreed, EventsDone, sockVars, timeVars, postVars, lifeVars
  <2> QED
    BY <2>1, QuietStep
<1>2. CASE TimersDone \/ DrainDone
  <2>1. /\ batch' = batch /\ ready' = <<>>
        /\ UNCHANGED <<waiter, registered, interest, epoll, open, work, ready, posted, timers, away, done>>
    BY <1>2 DEF TimersDone, DrainDone, sockVars, timeVars, postVars, lifeVars
  <2> QED
    BY <2>1, QuietStep
<1> QED
  BY Zenon, <1>1, <1>2, WaitReturnsInv, ProcessEventInv, FireTimerInv, DrainPostedInv DEF LoopStep

------------------------------------------------------------------------------
(* The coroutines *)

\* A coroutine in its turn was named by ready alone, and is no longer.
LEMMA TurnOf ==
  ASSUME TypeOK, PlaceInv, NEW h \in Coros, Resumed(h), ready' = Tail(ready), pc' = pc
  PROVE  /\ ready' \in Seq(Coros) /\ Once(ready') /\ pc' # "drain"
         /\ \A x : Listed(ready', x) <=> Listed(ready, x) /\ x # h
         /\ ~Listed(posted, h) /\ h \notin away /\ h \notin done
         /\ ~\E t \in timers : t[2] = h
         /\ ~\E u \in Slots : waiter[u] = h
<1>1. ready \in Seq(Coros) /\ ready # <<>> /\ Head(ready) = h /\ Once(ready)
  BY Zenon DEF TypeOK, Resumed, PlaceInv, NamedOnce
<1>2. /\ ready' \in Seq(Coros) /\ Once(ready') /\ Listed(ready, h)
      /\ \A x : Listed(ready', x) <=> Listed(ready, x) /\ x # h
  BY Zenon, <1>1, TailNames
<1>3. PICK k \in Kinds : /\ Listed(ready, h) <=> k = "ready"
                         /\ Listed(posted, h) <=> k = "posted"
                         /\ (\E t \in timers : t[2] = h) <=> k = "timer"
                         /\ (\E u \in Slots : waiter[u] = h) <=> k = "slot"
                         /\ h \in away <=> k = "away"
                         /\ h \in done <=> k = "done"
  BY Zenon, KindOf
<1>4. k = "ready"
  BY Zenon, <1>2, <1>3
<1>5. pc' # "drain"
  BY Zenon, <1>1 DEF PlaceInv
<1> QED
  BY Zenon, <1>2, <1>3, <1>4, <1>5

LEMMA CoroWatchesInv == ASSUME IInv, NEW h \in Coros, CoroWatches(h) PROVE IInv'
<1>1. /\ TypeOK /\ SlotsInv /\ BatchInv /\ OnlyPumpsFreeEarly /\ PlaceInv
      /\ Resumed(h) /\ ready' = Tail(ready)
  BY DEF IInv, CoroWatches
<1>2. PICK u \in work[h].uses :
        /\ open[u[1]]
        /\ waiter' = [waiter EXCEPT ![u] = h]
        /\ UpdateInterest(u[1], Waited(u[1]) \cup {u[2]})
  BY DEF CoroWatches
<1>3. /\ pc' = pc /\ batch' = batch /\ open' = open /\ timers' = timers /\ posted' = posted
      /\ away' = away /\ work' = work /\ done' = done
  BY DEF CoroWatches, timeVars, postVars, lifeVars
<1>4. /\ ready' \in Seq(Coros) /\ Once(ready') /\ pc' # "drain"
      /\ \A x : Listed(ready', x) <=> Listed(ready, x) /\ x # h
      /\ ~Listed(posted, h) /\ h \notin away /\ h \notin done
      /\ ~\E t \in timers : t[2] = h
      /\ ~\E v \in Slots : waiter[v] = h
  BY Zenon, <1>1, <1>3, TurnOf
<1>5. /\ work \in [Coros -> Work] /\ Nobody \notin Coros /\ NamedOnce
      /\ \A g \in Coros : g # h => work[g].uses \cap work[h].uses = {}
  BY <1>1, ContextAssumption DEF TypeOK, PlaceInv
<1>6. u \in Slots
  BY <1>2, <1>5 DEF Work, Slots
<1>7. u[1] \in Socks /\ u[2] \in Dirs /\ u = <<u[1], u[2]>>
  BY <1>6 DEF Slots
<1>8. waiter[u] = Nobody
  <2>1. waiter[u] \in Coros \cup {Nobody}
    BY <1>1, <1>6 DEF TypeOK
  <2>2. ASSUME waiter[u] # Nobody PROVE FALSE
    <3>1. u \in work[waiter[u]].uses /\ waiter[u] \in Coros /\ waiter[u] # h
      BY Zenon, <1>1, <1>4, <1>6, <2>1, <2>2 DEF SlotsInv
    <3> QED
      BY <1>2, <1>5, <3>1
  <2> QED
    BY <2>2
<1>9. waiter' \in [Slots -> Coros \cup {Nobody}] /\ waiter'[u] = h
      /\ \A v \in Slots : v # u => waiter'[v] = waiter[v]
  BY <1>1, <1>2, <1>6 DEF TypeOK
<1> DEFINE want == Waited(u[1]) \cup {u[2]}
<1>10. want \in SUBSET Dirs
  BY <1>7 DEF Waited
<1>11. /\ epoll' = [epoll EXCEPT ![u[1]] = want]
       /\ interest' = [interest EXCEPT ![u[1]] = want]
       /\ registered' = [registered EXCEPT ![u[1]] = (want # {})]
  BY Zenon, <1>1, <1>2, <1>7, <1>10, UpdateFollows
<1>12. ASSUME NEW d \in Dirs PROVE d \in want <=> waiter'[<<u[1], d>>] # Nobody
  <2>1. <<u[1], d>> \in Slots
    BY <1>7 DEF Slots
  <2>2. CASE d = u[2]
    BY <1>5, <1>7, <1>9, <2>2
  <2>3. CASE d # u[2]
    <3>1. <<u[1], d>> # u
      BY <1>7, <2>3
    <3>2. waiter'[<<u[1], d>>] = waiter[<<u[1], d>>]
      BY Zenon, <1>9, <2>1, <3>1
    <3> QED
      BY <2>3, <3>2 DEF Waited
  <2> QED
    BY <2>2, <2>3
<1> HIDE DEF want
<1>13. \A v \in Slots : waiter'[v] # Nobody => v \in work[waiter'[v]].uses /\ open[v[1]]
  BY Zenon, <1>1, <1>2, <1>9 DEF SlotsInv
<1>14. \A v \in Slots : v[1] # u[1] => waiter'[v] = waiter[v]
  BY Zenon, <1>9
<1>15. SlotsInv'
  BY <1>1, <1>3, <1>7, <1>9, <1>10, <1>11, <1>12, <1>13, <1>14, SlotsFollow
<1>16. TypeOK'
  <2>1. /\ epoll' \in [Socks -> SUBSET Dirs] /\ interest' \in [Socks -> SUBSET Dirs]
        /\ registered' \in [Socks -> BOOLEAN]
    BY <1>1, <1>10, <1>11 DEF TypeOK
  <2> QED
    BY Zenon, <1>1, <1>3, <1>4, <1>9, <2>1 DEF TypeOK
<1>17. BatchInv'
  <2>1. ASSUME NEW i \in DOMAIN batch, NEW d \in batch[i].dirs, waiter[<<batch[i].sock, d>>] # Nobody
        PROVE  waiter'[<<batch[i].sock, d>>] # Nobody
    <3>1. batch[i] \in Event
      BY <1>1 DEF TypeOK
    <3>2. <<batch[i].sock, d>> \in Slots
      BY <2>1, <3>1 DEF Event, Slots
    <3> QED
      BY Zenon, <1>5, <1>9, <2>1, <3>2
  <2> QED
    BY Zenon, <1>1, <1>3, <2>1 DEF BatchInv
<1>18. OnlyPumpsFreeEarly'
  BY Zenon, <1>1, <1>3 DEF OnlyPumpsFreeEarly
<1>19. NamedOnce'
  <2>1. \A v, w \in Slots : waiter'[v] # Nobody /\ waiter'[v] = waiter'[w] => v = w
    BY Zenon, <1>4, <1>5, <1>9 DEF NamedOnce
  <2> QED
    BY Zenon, <1>3, <1>4, <1>5, <2>1 DEF NamedOnce
<1>20. \A g \in Coros \ {h} : (\E v \in Slots : waiter'[v] = g) <=> (\E v \in Slots : waiter[v] = g)
  BY Zenon, <1>5, <1>6, <1>8, <1>9
<1>21. \A g : CutOff(g)' = CutOff(g)
  BY Zenon, <1>3 DEF CutOff, SocksOf
<1>22. "slot" \in Kinds \ {"lost"} /\ ~Listed(ready', h) /\ \A g \in Coros \ {h} : g # h
  BY Zenon, <1>4 DEF Kinds
<1>23. PlaceInv'
  BY Zenon, <1>1, <1>3, <1>4, <1>6, <1>9, <1>19, <1>20, <1>21, <1>22, OneMoves
<1> QED
  BY Zenon, <1>15, <1>16, <1>17, <1>18, <1>23 DEF IInv

LEMMA CoroSleepsInv == ASSUME IInv, NEW h \in Coros, CoroSleeps(h) PROVE IInv'
<1>1. /\ TypeOK /\ SlotsInv /\ BatchInv /\ OnlyPumpsFreeEarly /\ PlaceInv
      /\ Resumed(h) /\ ready' = Tail(ready) /\ timers' = timers \cup {<<now + 1, h>>}
  BY DEF IInv, CoroSleeps
<1>2. /\ pc' = pc /\ batch' = batch /\ waiter' = waiter /\ registered' = registered
      /\ interest' = interest /\ epoll' = epoll /\ open' = open /\ posted' = posted
      /\ away' = away /\ work' = work /\ done' = done
  BY DEF CoroSleeps, sockVars, postVars, lifeVars
<1>3. /\ ready' \in Seq(Coros) /\ Once(ready') /\ pc' # "drain"
      /\ \A x : Listed(ready', x) <=> Listed(ready, x) /\ x # h
      /\ ~Listed(posted, h) /\ h \notin away /\ h \notin done
      /\ ~\E t \in timers : t[2] = h
      /\ ~\E v \in Slots : waiter[v] = h
  BY Zenon, <1>1, <1>2, TurnOf
<1> DEFINE new == <<now + 1, h>>
<1>4. new[2] = h /\ \A t : t \in timers' <=> t \in timers \/ t = new
  BY <1>1
<1> HIDE DEF new
<1>5. \A g : (\E t \in timers' : t[2] = g) <=> (\E t \in timers : t[2] = g) \/ g = h
  BY Zenon, <1>4
<1>6. NamedOnce'
  <2>1. \A t, v \in timers' : t[2] = v[2] => t = v
    BY Zenon, <1>1, <1>3, <1>4 DEF PlaceInv, NamedOnce
  <2> QED
    BY Zenon, <1>1, <1>2, <1>3, <2>1 DEF PlaceInv, NamedOnce
<1>7. \A g : CutOff(g)' = CutOff(g)
  BY Zenon, <1>2 DEF CutOff, SocksOf
<1>8. "timer" \in Kinds \ {"lost"} /\ ~Listed(ready', h) /\ \A g \in Coros \ {h} : g # h
  BY Zenon, <1>3 DEF Kinds
<1>9. PlaceInv'
  <2>1. /\ \A g \in Coros \ {h} : Listed(ready', g) <=> Listed(ready, g)
        /\ \A g \in Coros \ {h} : Listed(posted', g) <=> Listed(posted, g)
        /\ \A g \in Coros \ {h} : (\E t \in timers' : t[2] = g) <=> (\E t \in timers : t[2] = g)
    BY Zenon, <1>2, <1>3, <1>5, <1>8
  <2>2. /\ ~Listed(ready', h) /\ ~Listed(posted', h) /\ \E t \in timers' : t[2] = h
        /\ ~\E v \in Slots : waiter'[v] = h
        /\ h \notin away' /\ h \notin done'
    BY Zenon, <1>2, <1>3, <1>5
  <2>3. "timer" # "ready" /\ "timer" # "posted" /\ "timer" # "slot" /\ "timer" # "away" /\ "timer" # "done"
    OBVIOUS
  <2> QED
    BY Zenon, <1>1, <1>2, <1>3, <1>6, <1>7, <1>8, <2>1, <2>2, <2>3, OneMoves
<1>10. SlotsInv' /\ BatchInv' /\ OnlyPumpsFreeEarly'
  BY Zenon, <1>1, <1>2, SlotsStay, BatchStays
<1>11. \A t \in timers' : t[2] \in Coros
  BY Zenon, <1>1, <1>4 DEF TypeOK
<1>12. TypeOK'
  BY Zenon, <1>1, <1>2, <1>3, <1>11 DEF TypeOK
<1> QED
  BY Zenon, <1>9, <1>10, <1>12 DEF IInv

LEMMA CoroOffloadsInv == ASSUME IInv, NEW h \in Coros, CoroOffloads(h) PROVE IInv'
<1>1. /\ TypeOK /\ SlotsInv /\ BatchInv /\ OnlyPumpsFreeEarly /\ PlaceInv
      /\ Resumed(h) /\ ready' = Tail(ready) /\ away' = away \cup {h}
  BY DEF IInv, CoroOffloads
<1>2. /\ pc' = pc /\ batch' = batch /\ waiter' = waiter /\ registered' = registered
      /\ interest' = interest /\ epoll' = epoll /\ open' = open /\ posted' = posted
      /\ timers' = timers /\ work' = work /\ done' = done
  BY DEF CoroOffloads, sockVars, timeVars, lifeVars
<1>3. /\ ready' \in Seq(Coros) /\ Once(ready') /\ pc' # "drain"
      /\ \A x : Listed(ready', x) <=> Listed(ready, x) /\ x # h
      /\ ~Listed(posted, h) /\ h \notin away /\ h \notin done
      /\ ~\E t \in timers : t[2] = h
      /\ ~\E v \in Slots : waiter[v] = h
  BY Zenon, <1>1, <1>2, TurnOf
<1>4. \A g : g \in away' <=> g \in away \/ g = h
  BY <1>1
<1>5. NamedOnce'
  BY Zenon, <1>1, <1>2, <1>3 DEF PlaceInv, NamedOnce
<1>6. \A g : CutOff(g)' = CutOff(g)
  BY Zenon, <1>2 DEF CutOff, SocksOf
<1>7. "away" \in Kinds \ {"lost"} /\ ~Listed(ready', h) /\ \A g \in Coros \ {h} : g # h
  BY Zenon, <1>3 DEF Kinds
<1>8. PlaceInv'
  BY Zenon, <1>1, <1>2, <1>3, <1>4, <1>5, <1>6, <1>7, OneMoves
<1>9. SlotsInv' /\ BatchInv' /\ OnlyPumpsFreeEarly'
  BY Zenon, <1>1, <1>2, SlotsStay, BatchStays
<1>10. away' \subseteq Coros
  BY <1>1 DEF TypeOK
<1>11. TypeOK'
  BY Zenon, <1>1, <1>2, <1>3, <1>10 DEF TypeOK
<1> QED
  BY Zenon, <1>8, <1>9, <1>11 DEF IInv

LEMMA PostPushesInv == ASSUME IInv, NEW h \in Coros, PostPushes(h) PROVE IInv'
<1>1. /\ TypeOK /\ SlotsInv /\ BatchInv /\ OnlyPumpsFreeEarly /\ PlaceInv
      /\ h \in away /\ away' = away \ {h} /\ posted' = Append(posted, h)
  BY DEF IInv, PostPushes
<1>2. /\ pc' = pc /\ batch' = batch /\ ready' = ready /\ waiter' = waiter
      /\ registered' = registered /\ interest' = interest /\ epoll' = epoll /\ open' = open
      /\ timers' = timers /\ work' = work /\ done' = done
  BY DEF PostPushes, sockVars, timeVars, lifeVars
<1>3. PICK k \in Kinds : /\ Listed(ready, h) <=> k = "ready"
                         /\ Listed(posted, h) <=> k = "posted"
                         /\ (\E t \in timers : t[2] = h) <=> k = "timer"
                         /\ (\E u \in Slots : waiter[u] = h) <=> k = "slot"
                         /\ h \in away <=> k = "away"
                         /\ h \in done <=> k = "done"
  BY Zenon, <1>1, KindOf
<1>4. k = "away"
  BY Zenon, <1>1, <1>3
<1>5. posted \in Seq(Coros) /\ Once(posted) /\ ~Listed(posted, h)
  BY Zenon, <1>1, <1>3, <1>4 DEF TypeOK, PlaceInv, NamedOnce
<1>6. /\ posted' \in Seq(Coros) /\ Once(posted')
      /\ \A x : Listed(posted', x) <=> Listed(posted, x) \/ x = h
  BY Zenon, <1>1, <1>5, AppendNames
<1>7. \A g : g \in away' <=> g \in away /\ g # h
  BY <1>1
<1>8. NamedOnce'
  BY Zenon, <1>1, <1>2, <1>6 DEF PlaceInv, NamedOnce
<1>9. \A g : CutOff(g)' = CutOff(g)
  BY Zenon, <1>2 DEF CutOff, SocksOf
<1>10. "posted" \in Kinds \ {"lost"} /\ \A g \in Coros \ {h} : g # h
  BY Zenon DEF Kinds
<1>11. pc' = "drain" => ready' = <<>>
  BY Zenon, <1>1, <1>2 DEF PlaceInv
<1>12. PlaceInv'
  BY Zenon, <1>1, <1>2, <1>3, <1>4, <1>6, <1>7, <1>8, <1>9, <1>10, <1>11, OneMoves
<1>13. SlotsInv' /\ BatchInv' /\ OnlyPumpsFreeEarly'
  BY Zenon, <1>1, <1>2, SlotsStay, BatchStays
<1>14. away' \subseteq Coros
  BY <1>1 DEF TypeOK
<1>15. TypeOK'
  BY Zenon, <1>1, <1>2, <1>6, <1>14 DEF TypeOK
<1> QED
  BY Zenon, <1>12, <1>13, <1>15 DEF IInv

\* Closing takes a waiter only from a pump whose other end h has just closed, and an
\* open socket only from an event that such a pump's end explains.
LEMMA CoroFinishesInv == ASSUME IInv, NEW h \in Coros, CoroFinishes(h) PROVE IInv'
<1> DEFINE unshared == {s \in SocksOf(h) : \A g \in Coros \ done' : s \notin SocksOf(g)}
           S == work[h].closes \cup unshared
<1>1. /\ TypeOK /\ SlotsInv /\ BatchInv /\ OnlyPumpsFreeEarly /\ PlaceInv
      /\ Resumed(h) /\ ready' = Tail(ready) /\ done' = done \cup {h}
  BY DEF IInv, CoroFinishes
<1>2. /\ pc' = pc /\ batch' = batch /\ timers' = timers /\ posted' = posted
      /\ away' = away /\ work' = work
  BY DEF CoroFinishes, timeVars, postVars
<1>3. CloseSockets(S)
  BY Zenon DEF CoroFinishes
<1>4. /\ ready' \in Seq(Coros) /\ Once(ready') /\ pc' # "drain"
      /\ \A x : Listed(ready', x) <=> Listed(ready, x) /\ x # h
      /\ ~Listed(posted, h) /\ h \notin away /\ h \notin done
      /\ ~\E t \in timers : t[2] = h
      /\ ~\E v \in Slots : waiter[v] = h
  BY Zenon, <1>1, <1>2, TurnOf
<1>5. work \in [Coros -> Work] /\ Nobody \notin Coros /\ NamedOnce /\ done \subseteq Coros
  BY <1>1, ContextAssumption DEF TypeOK, PlaceInv
<1>6. \A g \in Coros, u \in Slots : u \in work[g].uses => u[1] \in SocksOf(g)
  BY DEF SocksOf
<1>7. S \subseteq Socks
  BY <1>5 DEF SocksOf, Work
<1>8. ASSUME NEW u \in Slots, waiter[u] # Nobody, u[1] \in S
      PROVE  /\ waiter[u] \in Coros /\ waiter[u] # h /\ u[1] \in SocksOf(waiter[u])
             /\ u[1] \in work[h].closes
  <2>1. waiter[u] \in Coros \cup {Nobody} /\ u \in work[waiter[u]].uses
    BY Zenon, <1>1, <1>8 DEF TypeOK, SlotsInv
  <2>2. waiter[u] \in Coros /\ waiter[u] # h /\ u[1] \in SocksOf(waiter[u])
    BY Zenon, <1>4, <1>6, <1>8, <2>1
  <2>3. waiter[u] \notin done
    <3>1. PICK k \in Kinds : /\ (\E v \in Slots : waiter[v] = waiter[u]) <=> k = "slot"
                             /\ waiter[u] \in done <=> k = "done"
      BY Zenon, <1>1, <2>2, KindOf
    <3> QED
      BY Zenon, <3>1
  <2>4. waiter[u] \in Coros \ done'
    BY <1>1, <2>2, <2>3
  <2>5. u[1] \notin unshared
    BY Zenon, <2>2, <2>4
  <2> QED
    BY Zenon, <1>8, <2>2, <2>5
<1> HIDE DEF unshared, S
<1>9. /\ epoll' = [s \in Socks |-> IF s \in S THEN {} ELSE epoll[s]]
      /\ registered' = [s \in Socks |-> registered[s] /\ s \notin S]
      /\ interest' = [s \in Socks |-> IF s \in S THEN {} ELSE interest[s]]
      /\ open' = [s \in Socks |-> open[s] /\ s \notin S]
      /\ waiter' = [u \in Slots |-> IF u[1] \in S THEN Nobody ELSE waiter[u]]
  BY Zenon, <1>3 DEF CloseSockets, Slots
<1>10. TypeOK'
  <2>1. /\ epoll' \in [Socks -> SUBSET Dirs] /\ interest' \in [Socks -> SUBSET Dirs]
        /\ registered' \in [Socks -> BOOLEAN] /\ open' \in [Socks -> BOOLEAN]
        /\ waiter' \in [Slots -> Coros \cup {Nobody}] /\ done' \subseteq Coros
    BY <1>1, <1>9 DEF TypeOK
  <2> QED
    BY Zenon, <1>1, <1>2, <1>4, <2>1 DEF TypeOK
<1>11. \A u \in Slots : /\ u[1] \in S => waiter'[u] = Nobody
                        /\ u[1] \notin S => waiter'[u] = waiter[u]
  BY Zenon, <1>9
<1>12. \A s \in Socks : /\ open'[s] <=> open[s] /\ s \notin S
                        /\ s \in S => epoll'[s] = {} /\ interest'[s] = {} /\ ~registered'[s]
                        /\ s \notin S => /\ epoll'[s] = epoll[s] /\ interest'[s] = interest[s]
                                         /\ registered'[s] <=> registered[s]
  BY <1>9
<1>13. \A s \in Socks, d \in Dirs : <<s, d>> \in Slots /\ <<s, d>>[1] = s
  BY DEF Slots
<1>14. SlotsInv'
  <2>1. ASSUME NEW s \in Socks
        PROVE  /\ epoll'[s] = (Waited(s))' /\ interest'[s] = (Waited(s))'
               /\ registered'[s] <=> (Waited(s))' # {}
    <3>1. CASE s \in S
      <4>1. \A d \in Dirs : waiter'[<<s, d>>] = Nobody
        BY Zenon, <1>11, <1>13, <3>1
      <4>2. (Waited(s))' = {}
        BY <4>1 DEF Waited
      <4> QED
        BY Zenon, <1>12, <3>1, <4>2
    <3>2. CASE s \notin S
      <4>1. \A d \in Dirs : waiter'[<<s, d>>] = waiter[<<s, d>>]
        BY Zenon, <1>11, <1>13, <3>2
      <4>2. (Waited(s))' = Waited(s)
        BY <4>1 DEF Waited
      <4>3. epoll[s] = Waited(s) /\ interest[s] = Waited(s) /\ (registered[s] <=> Waited(s) # {})
        BY Zenon, <1>1 DEF SlotsInv
      <4> QED
        BY Zenon, <1>12, <3>2, <4>2, <4>3
    <3> QED
      BY <3>1, <3>2
  <2>2. ASSUME NEW u \in Slots, waiter'[u] # Nobody
        PROVE  u \in work'[waiter'[u]].uses /\ open'[u[1]]
    <3>1. u[1] \notin S /\ waiter'[u] = waiter[u] /\ u[1] \in Socks
      BY <1>11, <2>2 DEF Slots
    <3>2. u \in work[waiter[u]].uses /\ open[u[1]]
      BY Zenon, <1>1, <2>2, <3>1 DEF SlotsInv
    <3> QED
      BY Zenon, <1>2, <1>12, <3>1, <3>2
  <2> QED
    BY Zenon, <2>1, <2>2 DEF SlotsInv
<1>15. \A i \in DOMAIN batch : batch[i].sock \in Socks /\ batch[i].dirs \subseteq Dirs
  <2>1. \A i \in DOMAIN batch : batch[i] \in Event
    BY <1>1 DEF TypeOK
  <2> QED
    BY <2>1 DEF Event
<1>16. BatchInv'
  <2>1. ASSUME NEW i \in DOMAIN batch, open'[batch[i].sock]
        PROVE  \E d \in batch[i].dirs : waiter'[<<batch[i].sock, d>>] # Nobody
    <3>1. open[batch[i].sock] /\ batch[i].sock \notin S /\ batch[i].sock \in Socks
      BY Zenon, <1>12, <1>15, <2>1
    <3>2. PICK d \in batch[i].dirs : waiter[<<batch[i].sock, d>>] # Nobody
      BY Zenon, <1>1, <3>1 DEF BatchInv
    <3>3. d \in Dirs
      BY <1>15, <3>2
    <3>4. waiter'[<<batch[i].sock, d>>] = waiter[<<batch[i].sock, d>>]
      BY Zenon, <1>11, <1>13, <3>1, <3>3
    <3> QED
      BY Zenon, <3>2, <3>4
  <2> QED
    BY Zenon, <1>1, <1>2, <2>1 DEF BatchInv
<1>17. OnlyPumpsFreeEarly'
  <2>1. ASSUME NEW i \in DOMAIN batch
        PROVE  open'[batch[i].sock] \/ \E g \in done' : batch[i].sock \in work[g].closes
    <3>1. CASE ~open[batch[i].sock]
      <4>1. PICK g \in done : batch[i].sock \in work[g].closes
        BY Zenon, <1>1, <3>1 DEF OnlyPumpsFreeEarly
      <4> QED
        BY <1>1, <4>1
    <3>2. CASE open[batch[i].sock] /\ batch[i].sock \notin S
      BY Zenon, <1>12, <1>15, <3>2
    <3>3. CASE open[batch[i].sock] /\ batch[i].sock \in S
      <4>1. PICK d \in batch[i].dirs : waiter[<<batch[i].sock, d>>] # Nobody
        BY Zenon, <1>1, <3>3 DEF BatchInv
      <4>2. <<batch[i].sock, d>> \in Slots /\ <<batch[i].sock, d>>[1] = batch[i].sock
        BY <1>13, <1>15, <4>1
      <4>3. batch[i].sock \in work[h].closes
        BY Zenon, <1>8, <3>3, <4>1, <4>2
      <4> QED
        BY <1>1, <4>3
    <3> QED
      BY <3>1, <3>2, <3>3
  <2> QED
    BY Zenon, <1>2, <2>1 DEF OnlyPumpsFreeEarly
<1> DEFINE cut(g) == \E u \in Slots : waiter[u] = g /\ u[1] \in S
<1>18. ASSUME NEW g \in Coros, cut(g) PROVE g # h /\ CutOff(g)'
  <2>1. PICK u \in Slots : waiter[u] = g /\ u[1] \in S
    BY <1>18
  <2>2. g # h /\ u[1] \in SocksOf(g) /\ u[1] \in work[h].closes
    BY Zenon, <1>5, <1>8, <2>1
  <2>3. ~open'[u[1]] /\ h \in done' \ {g}
    BY <1>1, <1>7, <1>12, <2>1, <2>2
  <2>4. (SocksOf(g))' = SocksOf(g) /\ work' = work
    BY Zenon, <1>2 DEF SocksOf
  <2>5. \E f \in done' \ {g} : \E s \in work'[f].closes \cap (SocksOf(g))' : ~open'[s]
    BY <2>2, <2>3, <2>4
  <2> QED
    BY Zenon, <2>2, <2>5 DEF CutOff
<1>19. \A g : CutOff(g) => CutOff(g)'
  <2>1. done \subseteq done' /\ \A s \in Socks : open'[s] => open[s]
    BY <1>1, <1>12
  <2> QED
    BY Zenon, <1>2, <1>5, <2>1, CutOffStays
<1>20. \A u \in Slots : waiter'[u] # Nobody => waiter'[u] = waiter[u]
  BY Zenon, <1>11
<1>21. NamedOnce'
  <2>1. \A u, v \in Slots : waiter'[u] # Nobody /\ waiter'[u] = waiter'[v] => u = v
    BY Zenon, <1>5, <1>20 DEF NamedOnce
  <2> QED
    BY Zenon, <1>2, <1>4, <1>5, <2>1 DEF NamedOnce
<1>22. PlaceInv'
  <2>1. PICK kind \in [Coros -> Kinds] : PlacedBy(kind)
    BY Zenon, <1>1 DEF PlaceInv
  <2> DEFINE new == [g \in Coros |-> IF g = h THEN "done" ELSE IF cut(g) THEN "lost" ELSE kind[g]]
  <2>2. /\ new \in [Coros -> Kinds]
        /\ \A g \in Coros : new[g] = IF g = h THEN "done" ELSE IF cut(g) THEN "lost" ELSE kind[g]
    BY DEF Kinds
  <2>3. \A g \in Coros : (\E u \in Slots : waiter'[u] = g) <=>
                           ~cut(g) /\ \E u \in Slots : waiter[u] = g
    <3>1. ASSUME NEW g \in Coros, NEW u \in Slots, waiter'[u] = g PROVE waiter[u] = g /\ ~cut(g)
      <4>1. waiter'[u] # Nobody
        BY <1>5, <3>1
      <4>2. waiter[u] = g /\ u[1] \notin S
        BY Zenon, <1>11, <3>1, <4>1
      <4>3. ASSUME NEW v \in Slots, waiter[v] = g PROVE v = u
        BY Zenon, <1>5, <3>1, <4>1, <4>2, <4>3 DEF NamedOnce
      <4> QED
        BY Zenon, <4>2, <4>3
    <3>2. ASSUME NEW g \in Coros, ~cut(g), NEW u \in Slots, waiter[u] = g PROVE waiter'[u] = g
      BY Zenon, <1>11, <3>2
    <3> QED
      BY Zenon, <3>1, <3>2
  <2>4. \A g \in Coros : cut(g) => g # h /\ CutOff(g)'
    BY Zenon, <1>18
  <2>5. \A g \in Coros : cut(g) => \E u \in Slots : waiter[u] = g
    BY Zenon
  <2>6. \A g : g \in done' <=> g \in done \/ g = h
    BY <1>1
  <2> HIDE DEF new, cut
  <2>7. ASSUME NEW g \in Coros
        PROVE  /\ Listed(ready', g) <=> new[g] = "ready"
               /\ Listed(posted', g) <=> new[g] = "posted"
               /\ (\E t \in timers' : t[2] = g) <=> new[g] = "timer"
               /\ (\E u \in Slots : waiter'[u] = g) <=> new[g] = "slot"
               /\ g \in away' <=> new[g] = "away"
               /\ g \in done' <=> new[g] = "done"
               /\ new[g] = "lost" => CutOff(g)'
    <3>1. /\ Listed(ready, g) <=> kind[g] = "ready"
          /\ Listed(posted, g) <=> kind[g] = "posted"
          /\ (\E t \in timers : t[2] = g) <=> kind[g] = "timer"
          /\ (\E u \in Slots : waiter[u] = g) <=> kind[g] = "slot"
          /\ g \in away <=> kind[g] = "away"
          /\ g \in done <=> kind[g] = "done"
          /\ kind[g] = "lost" => CutOff(g)
      BY Zenon, <2>1 DEF PlacedBy
    <3>2. CASE g = h
      <4>1. new[g] = "done"
        BY Zenon, <2>2, <3>2
      <4> QED
        BY Zenon, <1>2, <1>4, <2>3, <2>6, <3>2, <4>1
    <3>3. CASE g # h /\ cut(g)
      <4>1. new[g] = "lost" /\ kind[g] = "slot"
        BY Zenon, <2>2, <2>5, <3>1, <3>3
      <4> QED
        BY Zenon, <1>2, <1>4, <2>3, <2>4, <2>6, <3>1, <3>3, <4>1
    <3>4. CASE g # h /\ ~cut(g)
      <4>1. new[g] = kind[g]
        BY Zenon, <2>2, <3>4
      <4> QED
        BY Zenon, <1>2, <1>4, <1>19, <2>3, <2>6, <3>1, <3>4, <4>1
    <3> QED
      BY <3>2, <3>3, <3>4
  <2> QED
    BY Zenon, <1>4, <1>21, <2>2, <2>7, PlacedAnew
<1> QED
  BY Zenon, <1>10, <1>14, <1>16, <1>17, <1>22 DEF IInv

------------------------------------------------------------------------------
LEMMA InitInv == Init => IInv
<1> SUFFICES ASSUME Init PROVE IInv
  OBVIOUS
<1>1. /\ work \in Workloads /\ pc = "test" /\ batch = <<>> /\ ready = <<>> /\ posted = <<>>
      /\ waiter = [u \in Slots |-> Nobody] /\ registered = [s \in Socks |-> FALSE]
      /\ interest = [s \in Socks |-> {}] /\ open = [s \in Socks |-> TRUE]
      /\ epoll = [s \in Socks |-> {}] /\ timers = {} /\ away = Coros /\ done = {}
  BY Zenon DEF Init, Slots
<1>2. TypeOK
  BY <1>1 DEF TypeOK
<1>3. \A u \in Slots : waiter[u] = Nobody
  BY <1>1
<1>4. SlotsInv
  <2>1. \A s \in Socks : Waited(s) = {}
    BY <1>3 DEF Waited, Slots
  <2>2. \A s \in Socks : epoll[s] = {} /\ interest[s] = {} /\ ~registered[s]
    BY <1>1
  <2> QED
    BY Zenon, <1>3, <2>1, <2>2 DEF SlotsInv
<1>5. BatchInv /\ OnlyPumpsFreeEarly
  BY <1>1 DEF BatchInv, OnlyPumpsFreeEarly
<1>6. NamedOnce
  <2>1. \A t, v \in timers : t[2] = v[2] => t = v
    BY <1>1
  <2> QED
    BY Zenon, <1>1, <1>3, <2>1, EmptyNames DEF NamedOnce
<1> DEFINE kind == [h \in Coros |-> "away"]
<1>7. kind \in [Coros -> Kinds] /\ \A h \in Coros : kind[h] = "away"
  BY DEF Kinds
<1>8. \A h \in Coros : h \in away /\ h \notin done /\ ~\E t \in timers : t[2] = h
  BY <1>1
<1>9. \A h \in Coros : ~\E u \in Slots : waiter[u] = h
  BY Zenon, <1>3, ContextAssumption
<1> HIDE DEF kind
<1>10. PlacedBy(kind)
  BY Zenon, <1>1, <1>7, <1>8, <1>9, EmptyNames DEF PlacedBy
<1>11. PlaceInv
  BY Zenon, <1>1, <1>6, <1>7, <1>10 DEF PlaceInv
<1> QED
  BY Zenon, <1>2, <1>4, <1>5, <1>11 DEF IInv

LEMMA NextInv == IInv /\ [Next]_vars => IInv'
<1> SUFFICES ASSUME IInv, [Next]_vars PROVE IInv'
  OBVIOUS
<1>1. ASSUME NEW h \in Coros, CoroStep(h) \/ PostPushes(h) PROVE IInv'
  BY Zenon, <1>1, CoroWatchesInv, CoroSleepsInv, CoroOffloadsInv, CoroFinishesInv, PostPushesInv
     DEF CoroStep
<1>2. ASSUME UNCHANGED <<pc, batch, ready, waiter, registered, interest, epoll, open, timers, posted,
                         away, work, done>>
      PROVE  IInv'
  <2>1. pc' = "drain" => ready' = <<>>
    BY <1>2 DEF IInv, PlaceInv
  <2> QED
    BY <1>2, <2>1, QuietStep
<1>3. ASSUME NEW h \in Coros, PostWakes(h) PROVE IInv'
  BY <1>2, <1>3 DEF PostWakes, sockVars, timeVars, lifeVars
<1>4. CASE StopStores \/ StopWakes \/ Tick
  BY <1>2, <1>4 DEF StopStores, StopWakes, Tick, sockVars, timeVars, postVars, lifeVars
<1>5. ASSUME NEW s, NEW d, BecomesReady(s, d) PROVE IInv'
  BY <1>2, <1>5 DEF BecomesReady, timeVars, postVars, lifeVars
<1>6. CASE UNCHANGED vars
  BY <1>2, <1>6 DEF vars, sockVars, timeVars, postVars, lifeVars
<1> QED
  BY Zenon, <1>1, <1>3, <1>4, <1>5, <1>6, LoopStepInv DEF Next

LEMMA InvariantHolds == Spec => []IInv
  BY InitInv, NextInv, PTL DEF Spec

(* No event that process_ready_events (100-127) still has to look at points to a
   registration that was freed, unless a pump of a splice ended and closed the socket
   it writes to: whatever else the coroutines resumed earlier in the batch do, for
   every set of sockets and coroutines that share them. *)
THEOREM OnlyPumpsFree == Spec => []OnlyPumpsFreeEarly
<1>1. IInv => OnlyPumpsFreeEarly
  BY DEF IInv
<1> QED
  BY InvariantHolds, <1>1, PTL

LEMMA KindCounts == ASSUME IInv PROVE CoroutineInOnePlace
<1> SUFFICES ASSUME NEW h \in Coros PROVE Places(h) = 1 \/ (Places(h) = 0 /\ CutOff(h))
  BY DEF CoroutineInOnePlace
<1>1. NamedOnce /\ PlaceInv /\ Nobody \notin Coros
  BY Zenon, ContextAssumption DEF IInv, PlaceInv
<1> DEFINE A == {i \in DOMAIN ready : ready[i] = h}
           B == {i \in DOMAIN posted : posted[i] = h}
           C == {t \in timers : t[2] = h}
           D == {u \in Slots : waiter[u] = h}
<1>2. \A x, y \in A : x = y
  BY <1>1 DEF NamedOnce, Once
<1>3. \A x, y \in B : x = y
  BY <1>1 DEF NamedOnce, Once
<1>4. \A x, y \in C : x = y
  BY <1>1 DEF NamedOnce
<1>5. \A x, y \in D : x = y
  BY <1>1 DEF NamedOnce
<1>6. PICK k \in Kinds :
        /\ A # {} <=> k = "ready"
        /\ B # {} <=> k = "posted"
        /\ C # {} <=> k = "timer"
        /\ D # {} <=> k = "slot"
        /\ h \in away <=> k = "away"
        /\ h \in done <=> k = "done"
        /\ k = "lost" => CutOff(h)
  <2>1. A # {} <=> Listed(ready, h)
    BY DEF Listed
  <2>2. B # {} <=> Listed(posted, h)
    BY DEF Listed
  <2>3. C # {} <=> \E t \in timers : t[2] = h
    OBVIOUS
  <2>4. D # {} <=> \E u \in Slots : waiter[u] = h
    OBVIOUS
  <2> QED
    BY Zenon, <1>1, <2>1, <2>2, <2>3, <2>4, KindOf
<1>7. Places(h) = Cardinality(A) + Cardinality(B) + Cardinality(C) + Cardinality(D)
                    + (IF h \in away THEN 1 ELSE 0) + (IF h \in done THEN 1 ELSE 0)
  BY Zenon DEF Places, Slots
<1> HIDE DEF A, B, C, D
<1>8. /\ Cardinality(A) = (IF k = "ready" THEN 1 ELSE 0)
      /\ Cardinality(B) = (IF k = "posted" THEN 1 ELSE 0)
      /\ Cardinality(C) = (IF k = "timer" THEN 1 ELSE 0)
      /\ Cardinality(D) = (IF k = "slot" THEN 1 ELSE 0)
  BY <1>2, <1>3, <1>4, <1>5, <1>6, CountOfOne
<1> QED
  BY <1>6, <1>7, <1>8 DEF Kinds

(* A coroutine is in exactly one place, so that it is resumed once for each time it
   suspends, unless the other pump of its splice has closed a socket it uses: for every
   set of sockets and coroutines in which no two wait in the same slot. *)
THEOREM CoroutinesConserved == Spec => []CoroutineInOnePlace
<1>1. IInv => CoroutineInOnePlace
  BY KindCounts
<1> QED
  BY InvariantHolds, <1>1, PTL
==============================================================================
