--------------------------- MODULE ListenerProofs ---------------------------
(***************************************************************************)
(* OverrunIsBounded of Listener for every number of contexts, every set of *)
(* clients and every max_connections.                                      *)
(*                                                                         *)
(* The bound needs to know that a context between the load and the         *)
(* fetch_add holds a client of its own that nobody counts yet, and the     *)
(* exact count needs to know that a client taken from posted_ is not       *)
(* served already; both rest on posted_ naming every client at most once.  *)
(***************************************************************************)
EXTENDS Listener, FiniteSetTheorems, TLAPS

Served == {k \in Clients : state[k] \in Live}
Admits == {w \in Workers : thread[w] = "admit"}

TypeOK ==
  /\ state \in [Clients -> {"away", "backlog", "aborted", "handed", "rejected", "admitted",
                            "greeting", "h1", "h2", "closed"}]
  /\ posted \in [Workers -> Seq(Clients)]
  /\ active \in Int
  /\ next_worker \in Nat
  /\ thread \in [Workers -> {"parked", "loop", "admit", "exited", "terminated"}]
  /\ admitting \in [Workers -> Clients \cup {Nobody}]

\* Each context that is about to count holds a client of its own.
HoldsAdmitted ==
  /\ \A w \in Admits : admitting[w] \in Clients /\ state[admitting[w]] = "admitted"
  /\ \A v, w \in Admits : admitting[v] = admitting[w] => v = w

\* posted_ of all contexts together names a client at most once.
HandedOnce ==
  /\ \A w \in Workers : \A i \in 1 .. Len(posted[w]) : state[posted[w][i]] = "handed"
  /\ \A v, w \in Workers : \A i \in 1 .. Len(posted[v]), j \in 1 .. Len(posted[w]) :
       posted[v][i] = posted[w][j] => v = w /\ i = j

IInv == TypeOK /\ HoldsAdmitted /\ HandedOnce /\ OverrunIsBounded

------------------------------------------------------------------------------
(* Facts about the two counts *)

LEMMA WorkersFinite == IsFiniteSet(Workers) /\ Cardinality(Workers) = N
  BY FS_Interval, ListenerAssumption DEF Workers

LEMMA CountsFinite ==
  /\ IsFiniteSet(Served) /\ Cardinality(Served) \in Nat
  /\ IsFiniteSet(Admits) /\ Cardinality(Admits) \in Nat
<1>1. IsFiniteSet(Served)
  BY FS_Subset, ListenerAssumption DEF Served
<1>2. IsFiniteSet(Admits)
  BY FS_Subset, WorkersFinite DEF Admits
<1> QED
  BY <1>1, <1>2, FS_CardinalityType

LEMMA BoundUnfolded ==
  OverrunIsBounded <=> /\ active = Cardinality(Served)
                       /\ active + Cardinality(Admits) <= MaxConnections + N - 1
  BY DEF OverrunIsBounded, Served, Admits

\* A step that moves no client into or out of service and no context out of its
\* loop keeps both counts.
LEMMA CountsKept ==
  ASSUME OverrunIsBounded, active' = active, Served' = Served, Admits' = Admits
  PROVE  OverrunIsBounded'
  BY DEF OverrunIsBounded, Served, Admits

------------------------------------------------------------------------------
LEMMA InitInv == Init => IInv
<1> SUFFICES ASSUME Init PROVE IInv
  OBVIOUS
<1>0. /\ state = [k \in Clients |-> "away"] /\ posted = [w \in Workers |-> <<>>]
      /\ active = 0 /\ next_worker = 0 /\ thread = [w \in Workers |-> "parked"]
      /\ admitting = [w \in Workers |-> Nobody]
  BY Zenon DEF Init
<1>1. TypeOK
  BY <1>0 DEF TypeOK
<1>2. Served = {} /\ Admits = {}
  BY <1>0 DEF Served, Admits, Live, Driving
<1>3. OverrunIsBounded
  BY <1>0, <1>2, FS_EmptySet, ListenerAssumption, BoundUnfolded
<1>4. HoldsAdmitted
  BY <1>2 DEF HoldsAdmitted
<1>5. HandedOnce
  BY <1>0 DEF HandedOnce
<1> QED
  BY <1>1, <1>3, <1>4, <1>5 DEF IInv

\* The load of active_connections_ by one context, while its other shared
\* access is still to come.
LEMMA AdmissionCounts ==
  ASSUME IInv, NEW w \in Workers, NEW k \in Clients, thread[w] = "loop",
         state[k] \in {"backlog", "handed"}, Admission(w, k), active' = active
  PROVE  OverrunIsBounded'
<1>1. Served' = Served
  BY DEF IInv, TypeOK, Admission, Served, Live, Driving
<1>2. CASE active >= MaxConnections
  <2>1. Admits' = Admits
    BY <1>2 DEF Admission, Admits
  <2> QED
    BY <1>1, <2>1, CountsKept DEF IInv
<1>3. CASE active < MaxConnections
  <2>1. Admits' = Admits \cup {w} /\ w \notin Admits
    BY <1>3, ListenerAssumption DEF IInv, TypeOK, Admission, Admits
  <2>2. Cardinality(Admits') = Cardinality(Admits) + 1
    BY <2>1, CountsFinite, FS_AddElement
  <2>3. Cardinality(Admits') <= N
    BY <2>1, WorkersFinite, FS_Subset DEF Admits
  <2>4. active = Cardinality(Served)
    BY BoundUnfolded DEF IInv
  <2>5. active' + Cardinality(Admits') <= MaxConnections + N - 1
    BY <1>3, <2>2, <2>3, <2>4, CountsFinite, ListenerAssumption
  <2> QED
    BY <1>1, <2>4, <2>5 DEF OverrunIsBounded, Served, Admits
<1> QED
  BY <1>2, <1>3, ListenerAssumption DEF IInv, TypeOK

LEMMA AdmissionHolds ==
  ASSUME IInv, NEW w \in Workers, NEW k \in Clients, thread[w] = "loop",
         state[k] \in {"backlog", "handed"}, Admission(w, k)
  PROVE  HoldsAdmitted'
<1>1. \A v \in Admits : v # w /\ admitting[v] # k
  BY DEF IInv, HoldsAdmitted, Admits
<1>2. CASE active >= MaxConnections
  BY <1>1, <1>2 DEF IInv, TypeOK, HoldsAdmitted, Admits, Admission
<1>3. CASE active < MaxConnections
  <2>1. Admits' = Admits \cup {w}
    BY <1>3, ListenerAssumption DEF IInv, TypeOK, Admission, Admits
  <2>2. admitting' = [admitting EXCEPT ![w] = k] /\ state' = [state EXCEPT ![k] = "admitted"]
    BY <1>3, ListenerAssumption DEF IInv, TypeOK, Admission
  <2> QED
    BY <1>1, <2>1, <2>2 DEF IInv, TypeOK, HoldsAdmitted, Admits
<1> QED
  BY <1>2, <1>3, ListenerAssumption DEF IInv, TypeOK

LEMMA AdmissionType ==
  ASSUME TypeOK, NEW w \in Workers, NEW k \in Clients, Admission(w, k)
  PROVE  /\ state' \in [Clients -> {"away", "backlog", "aborted", "handed", "rejected", "admitted",
                                    "greeting", "h1", "h2", "closed"}]
         /\ thread' \in [Workers -> {"parked", "loop", "admit", "exited", "terminated"}]
         /\ admitting' \in [Workers -> Clients \cup {Nobody}]
         /\ \A c \in Clients : c # k => state'[c] = state[c]
<1>1. CASE active >= MaxConnections
  <2>1. state' = [state EXCEPT ![k] = "rejected"] /\ admitting' = admitting /\ thread' = thread
    BY <1>1 DEF Admission
  <2> QED
    BY <2>1 DEF TypeOK
<1>2. CASE ~(active >= MaxConnections)
  <2>1. /\ state' = [state EXCEPT ![k] = "admitted"]
        /\ admitting' = [admitting EXCEPT ![w] = k]
        /\ thread' = [thread EXCEPT ![w] = "admit"]
    BY <1>2 DEF Admission
  <2>2. /\ state' \in [Clients -> {"away", "backlog", "aborted", "handed", "rejected", "admitted",
                                   "greeting", "h1", "h2", "closed"}]
        /\ \A c \in Clients : c # k => state'[c] = state[c]
    BY <2>1 DEF TypeOK
  <2>3. thread' \in [Workers -> {"parked", "loop", "admit", "exited", "terminated"}]
    BY <2>1 DEF TypeOK
  <2>4. admitting' \in [Workers -> Clients \cup {Nobody}]
    BY <2>1 DEF TypeOK
  <2> QED
    BY <2>2, <2>3, <2>4
<1> QED
  BY <1>1, <1>2

------------------------------------------------------------------------------
(* The steps, by what they change *)

\* Binding, run(), stop(), the end of a context and std::terminate: no client
\* moves, and no context begins to admit one.
LEMMA ClientsStay ==
  ASSUME IInv, UNCHANGED connVars, Admits' \subseteq Admits,
         thread' \in [Workers -> {"parked", "loop", "admit", "exited", "terminated"}]
  PROVE  IInv'
<1>1. TypeOK' /\ HoldsAdmitted' /\ HandedOnce'
  BY DEF IInv, TypeOK, HoldsAdmitted, HandedOnce, connVars
<1>2. Cardinality(Admits') <= Cardinality(Admits) /\ Cardinality(Admits') \in Nat
  BY CountsFinite, FS_Subset, FS_CardinalityType
<1>3. OverrunIsBounded'
  <2>1. Served' = Served /\ active' = active
    BY DEF connVars, Served
  <2>2. active' + Cardinality(Admits') <= MaxConnections + N - 1
    BY <1>2, <2>1, CountsFinite, BoundUnfolded, ListenerAssumption DEF IInv
  <2> QED
    BY <2>1, <2>2, BoundUnfolded DEF IInv, OverrunIsBounded, Served, Admits
<1> QED
  BY <1>1, <1>3 DEF IInv

\* A client goes on by itself, served before and after or neither.
LEMMA ClientMoves ==
  ASSUME IInv, NEW k \in Clients,
         NEW to \in {"backlog", "aborted", "h1", "h2"},
         state' = [state EXCEPT ![k] = to],
         state[k] \notin {"handed", "admitted"},
         state[k] \in Live <=> to \in Live,
         UNCHANGED <<posted, active, next_worker, thread, admitting>>
  PROVE  IInv'
<1>1. TypeOK'
  BY DEF IInv, TypeOK
<1>2. HoldsAdmitted' /\ HandedOnce'
  BY DEF IInv, TypeOK, HoldsAdmitted, HandedOnce, Admits
<1>3. Served' = Served /\ Admits' = Admits
  BY DEF IInv, TypeOK, Served, Admits
<1> QED
  BY <1>1, <1>2, <1>3, CountsKept DEF IInv

LEMMA AcceptOwnInv ==
  ASSUME IInv, NEW w \in Workers, NEW k \in Clients, AcceptOwn(w, k) PROVE IInv'
<1>1. /\ thread[w] = "loop" /\ state[k] = "backlog" /\ Admission(w, k)
      /\ UNCHANGED <<posted, active, next_worker>>
  BY Zenon DEF AcceptOwn
<1>2. TypeOK'
  BY <1>1, AdmissionType DEF IInv, TypeOK
<1>3. HandedOnce'
  BY <1>1, AdmissionType DEF IInv, TypeOK, HandedOnce
<1> QED
  BY <1>1, <1>2, <1>3, AdmissionCounts, AdmissionHolds DEF IInv

LEMMA HandOverInv ==
  ASSUME IInv, NEW w \in Workers, NEW k \in Clients, AcceptAndHandOver(w, k) PROVE IInv'
<1> DEFINE target == next_worker % N
<1>1. /\ state[k] = "backlog" /\ state' = [state EXCEPT ![k] = "handed"]
      /\ posted' = [posted EXCEPT ![target] = Append(@, k)]
      /\ next_worker' = next_worker + 1
      /\ UNCHANGED <<active, admitting, thread>>
  BY Zenon DEF AcceptAndHandOver
<1>2. target \in Workers
  BY ListenerAssumption DEF IInv, TypeOK, Workers
<1> HIDE DEF target
<1>3. TypeOK'
  BY <1>1, <1>2 DEF IInv, TypeOK
<1>4. HoldsAdmitted'
  BY <1>1 DEF IInv, TypeOK, HoldsAdmitted, Admits
<1>5. HandedOnce'
  <2>1. \A v \in Workers : \A i \in 1 .. Len(posted[v]) : posted[v][i] # k
    BY <1>1 DEF IInv, HandedOnce
  <2>2. \A v \in Workers : posted[v] \in Seq(Clients)
    BY DEF IInv, TypeOK
  <2>3. \A v \in Workers : \A i \in 1 .. Len(posted'[v]) :
          \/ i \in 1 .. Len(posted[v]) /\ posted'[v][i] = posted[v][i]
          \/ v = target /\ i = Len(posted[v]) + 1 /\ posted'[v][i] = k
    BY <1>1, <1>2, <2>2 DEF IInv, TypeOK
  <2>4. \A v \in Workers : \A i \in 1 .. Len(posted[v]) :
          posted[v][i] \in Clients /\ state[posted[v][i]] = "handed"
    BY <2>2 DEF IInv, HandedOnce
  <2>5. \A v \in Workers : \A i \in 1 .. Len(posted'[v]) : state'[posted'[v][i]] = "handed"
    BY <1>1, <2>3, <2>4 DEF IInv, TypeOK
  <2>6. ASSUME NEW u \in Workers, NEW v \in Workers,
               NEW i \in 1 .. Len(posted'[u]), NEW j \in 1 .. Len(posted'[v]),
               posted'[u][i] = posted'[v][j]
        PROVE  u = v /\ i = j
    <3>0. \/ j \in 1 .. Len(posted[v]) /\ posted'[v][j] = posted[v][j] /\ posted[v][j] # k
          \/ v = target /\ j = Len(posted[v]) + 1 /\ posted'[v][j] = k
      BY <2>1, <2>3, Zenon
    <3>1. CASE i \in 1 .. Len(posted[u]) /\ posted'[u][i] = posted[u][i]
      <4>0. posted'[u][i] # k
        BY <2>1, <3>1, Zenon
      <4>1. j \in 1 .. Len(posted[v]) /\ posted'[v][j] = posted[v][j]
        BY <2>6, <3>0, <4>0, Zenon
      <4>2. HandedOnce /\ posted[u][i] = posted[v][j]
        BY <2>6, <3>1, <4>1 DEF IInv
      <4> QED
        BY <3>1, <4>1, <4>2 DEF HandedOnce
    <3>2. CASE u = target /\ i = Len(posted[u]) + 1 /\ posted'[u][i] = k
      BY <2>6, <3>0, <3>2, Zenon
    <3> QED
      BY <2>3, <3>1, <3>2
  <2> QED
    BY <2>5, <2>6 DEF HandedOnce
<1>6. Served' = Served /\ Admits' = Admits
  BY <1>1 DEF IInv, TypeOK, Served, Admits, Live, Driving
<1> QED
  BY <1>1, <1>3, <1>4, <1>5, <1>6, CountsKept DEF IInv

LEMMA TakeHandedOverInv ==
  ASSUME IInv, NEW w \in Workers, TakeHandedOver(w) PROVE IInv'
<1> DEFINE k == Head(posted[w])
<1>1. /\ thread[w] = "loop" /\ posted[w] # <<>> /\ Admission(w, k)
      /\ posted' = [posted EXCEPT ![w] = Tail(@)]
      /\ UNCHANGED <<active, next_worker>>
  BY Zenon DEF TakeHandedOver
<1>2. posted[w] \in Seq(Clients) /\ Len(posted[w]) >= 1 /\ k = posted[w][1]
  BY <1>1 DEF IInv, TypeOK
<1>3. k \in Clients /\ state[k] = "handed"
  BY <1>2 DEF IInv, HandedOnce
<1> HIDE DEF k
<1>4. TypeOK'
  BY <1>1, <1>2, <1>3, AdmissionType DEF IInv, TypeOK
<1>5. HandedOnce'
  <2>1. \A v \in Workers : \A i \in 1 .. Len(posted'[v]) :
          \/ v # w /\ i \in 1 .. Len(posted[v]) /\ posted'[v][i] = posted[v][i]
          \/ v = w /\ i + 1 \in 1 .. Len(posted[v]) /\ posted'[v][i] = posted[v][i + 1]
    BY <1>1, <1>2 DEF IInv, TypeOK
  <2>2. ASSUME NEW v \in Workers, NEW i \in 1 .. Len(posted'[v])
        PROVE  posted'[v][i] \in Clients /\ posted'[v][i] # k /\ state[posted'[v][i]] = "handed"
    <3>1. posted[v] \in Seq(Clients)
      BY DEF IInv, TypeOK
    <3>2. CASE v # w
      BY <1>2, <2>1, <3>1, <3>2 DEF IInv, HandedOnce
    <3>3. CASE v = w
      BY <1>2, <2>1, <3>1, <3>3, SMTT(30) DEF IInv, HandedOnce
    <3> QED
      BY <3>2, <3>3
  <2>3. \A c \in Clients : c # k => state'[c] = state[c]
    BY <1>1, <1>3, AdmissionType DEF IInv
  <2>4. \A v \in Workers : \A i \in 1 .. Len(posted'[v]) : state'[posted'[v][i]] = "handed"
    BY <2>2, <2>3, SMTT(30)
  <2>5. ASSUME NEW u \in Workers, NEW v \in Workers,
               NEW i \in 1 .. Len(posted'[u]), NEW j \in 1 .. Len(posted'[v]),
               posted'[u][i] = posted'[v][j]
        PROVE  u = v /\ i = j
    <3>1. PICK a \in 1 .. Len(posted[u]) :
            posted'[u][i] = posted[u][a] /\ a = IF u = w THEN i + 1 ELSE i
      BY <2>1
    <3>2. PICK b \in 1 .. Len(posted[v]) :
            posted'[v][j] = posted[v][b] /\ b = IF v = w THEN j + 1 ELSE j
      BY <2>1
    <3>3. posted[u][a] = posted[v][b]
      BY <2>5, <3>1, <3>2, Zenon
    <3>4. u = v /\ a = b
      BY <3>3 DEF IInv, HandedOnce
    <3> QED
      BY <3>1, <3>2, <3>4
  <2> QED
    BY <2>4, <2>5, Zenon DEF HandedOnce
<1> QED
  BY <1>1, <1>3, <1>4, <1>5, AdmissionCounts, AdmissionHolds DEF IInv

LEMMA CountInInv == ASSUME IInv, NEW w \in Workers, CountIn(w) PROVE IInv'
<1> DEFINE k == admitting[w]
<1>1. /\ thread[w] = "admit" /\ active' = active + 1
      /\ state' = [state EXCEPT ![k] = "greeting"]
      /\ admitting' = [admitting EXCEPT ![w] = Nobody]
      /\ thread' = [thread EXCEPT ![w] = "loop"]
      /\ UNCHANGED <<posted, next_worker>>
  BY Zenon DEF CountIn
<1>2. k \in Clients /\ state[k] = "admitted"
  BY <1>1 DEF IInv, HoldsAdmitted, Admits
<1>3. TypeOK'
  BY <1>1, <1>2 DEF IInv, TypeOK
<1>4. HoldsAdmitted'
  BY <1>1, <1>2 DEF IInv, TypeOK, HoldsAdmitted, Admits
<1>5. HandedOnce'
  BY <1>1, <1>2 DEF IInv, TypeOK, HandedOnce
<1>6. OverrunIsBounded'
  <2>1. Served' = Served \cup {k} /\ k \notin Served
    BY <1>1, <1>2 DEF IInv, TypeOK, Served, Live, Driving
  <2>2. Admits' = Admits \ {w} /\ w \in Admits
    BY <1>1 DEF IInv, TypeOK, Admits
  <2>3. /\ Cardinality(Served') = Cardinality(Served) + 1
        /\ Cardinality(Admits') = Cardinality(Admits) - 1
    BY <2>1, <2>2, CountsFinite, FS_AddElement, FS_RemoveElement
  <2>4. /\ active' = Cardinality(Served')
        /\ active' + Cardinality(Admits') <= MaxConnections + N - 1
    BY <1>1, <2>3, CountsFinite, BoundUnfolded, ListenerAssumption DEF IInv
  <2> QED
    BY <2>4 DEF OverrunIsBounded, Served, Admits
<1> QED
  BY <1>3, <1>4, <1>5, <1>6 DEF IInv

LEMMA ConnectionEndsInv ==
  ASSUME IInv, NEW w \in Workers, NEW k \in Clients, ConnectionEnds(w, k) PROVE IInv'
<1>1. /\ state[k] \in Live /\ active' = active - 1
      /\ state' = [state EXCEPT ![k] = "closed"]
      /\ UNCHANGED <<posted, next_worker, admitting, thread>>
  BY DEF ConnectionEnds, CountsOut
<1>2. TypeOK'
  BY <1>1 DEF IInv, TypeOK
<1>3. HoldsAdmitted' /\ HandedOnce'
  BY <1>1 DEF IInv, TypeOK, HoldsAdmitted, HandedOnce, Admits, Live, Driving
<1>4. OverrunIsBounded'
  <2>1. Served' = Served \ {k} /\ k \in Served /\ Admits' = Admits
    BY <1>1 DEF IInv, TypeOK, Served, Admits, Live, Driving
  <2>2. Cardinality(Served') = Cardinality(Served) - 1
    BY <2>1, CountsFinite, FS_RemoveElement
  <2>3. /\ active' = Cardinality(Served')
        /\ active' + Cardinality(Admits') <= MaxConnections + N - 1
    BY <1>1, <2>1, <2>2, CountsFinite, BoundUnfolded, ListenerAssumption DEF IInv
  <2> QED
    BY <2>3 DEF OverrunIsBounded, Served, Admits
<1> QED
  BY <1>2, <1>3, <1>4 DEF IInv

------------------------------------------------------------------------------
LEMMA ContextStepInv == ASSUME IInv, NEW w \in Workers, ContextStep(w) PROVE IInv'
<1>1. ASSUME NEW k \in Clients, AcceptLoop(w, k) \/ AcceptLoopTls(w, k) PROVE IInv'
  BY <1>1, AcceptOwnInv, HandOverInv DEF AcceptLoop, AcceptLoopTls
<1>2. ASSUME NEW k \in Clients, AcceptThrows(w, k) PROVE IInv'
  <2>1. thread' = [v \in Workers |-> "terminated"] /\ UNCHANGED connVars
    BY <1>2, Zenon DEF AcceptThrows
  <2> QED
    BY <2>1, ClientsStay DEF Admits
<1>3. ASSUME NEW k \in Clients, Peeks(w, k) \/ Handshakes(w, k) PROVE IInv'
  <2>1. PICK d \in Driving : state' = [state EXCEPT ![k] = d]
    BY <1>3 DEF Peeks, Handshakes, Driving
  <2>2. state[k] = "greeting" /\ UNCHANGED <<posted, active, next_worker, thread, admitting>>
    BY <1>3, Zenon DEF Peeks, Handshakes
  <2> QED
    BY <2>1, <2>2, ClientMoves DEF Driving, Live
<1>4. ASSUME NEW k \in Clients, ConnectionEnds(w, k) PROVE IInv'
  BY <1>4, ConnectionEndsInv
<1>5. CASE ContextReturns(w)
  <2>1. thread' = [thread EXCEPT ![w] = "exited"] /\ UNCHANGED connVars
    BY <1>5, Zenon DEF ContextReturns
  <2>2. Admits' \subseteq Admits
    BY <2>1 DEF IInv, TypeOK, Admits
  <2>3. thread' \in [Workers -> {"parked", "loop", "admit", "exited", "terminated"}]
    BY <2>1 DEF IInv, TypeOK
  <2> QED
    BY <2>1, <2>2, <2>3, ClientsStay
<1> QED
  BY <1>1, <1>2, <1>3, <1>4, <1>5, TakeHandedOverInv, CountInInv DEF ContextStep

LEMMA NextInv == IInv /\ [Next]_vars => IInv'
<1> SUFFICES ASSUME IInv, [Next]_vars PROVE IInv'
  OBVIOUS
<1>1. ASSUME UNCHANGED <<connVars, thread>> PROVE IInv'
  <2>1. thread' \in [Workers -> {"parked", "loop", "admit", "exited", "terminated"}]
    BY <1>1 DEF IInv, TypeOK
  <2> QED
    BY <1>1, <2>1, ClientsStay DEF Admits
<1>2. CASE Listen \/ ListenTls
  BY <1>1, <1>2 DEF Listen, ListenTls, StartsLoops
<1>3. ASSUME NEW k \in Clients, ClientConnects(k) \/ ClientAborts(k) PROVE IInv'
  <2>1. /\ state[k] \in {"away", "backlog"}
        /\ UNCHANGED <<posted, active, next_worker, thread, admitting>>
    BY <1>3 DEF ClientConnects, ClientAborts
  <2>2. PICK to \in {"backlog", "aborted"} : state' = [state EXCEPT ![k] = to]
    BY <1>3 DEF ClientConnects, ClientAborts
  <2> QED
    BY <2>1, <2>2, ClientMoves DEF Live, Driving
<1>4. CASE RunStarts
  <2>1. thread' = [w \in Workers |-> "loop"] /\ UNCHANGED connVars
    BY <1>4, Zenon DEF RunStarts
  <2> QED
    BY <2>1, ClientsStay DEF Admits
<1>5. CASE RunStep \/ RunWakesSpuriously \/ StopStores \/ StopNotifies
  BY <1>1, <1>5 DEF RunStep, RunTests, RunBlocks, RunStopsPool, RunReturns, RunWakesSpuriously,
                    StopStores, StopNotifies
<1>6. CASE UNCHANGED vars
  BY <1>1, <1>6 DEF vars
<1> QED
  BY <1>2, <1>3, <1>4, <1>5, <1>6, ContextStepInv DEF Next

(* active_connections_ counts the connections being served, and max_connections is
   overrun by less than one client per further context, for every number of
   contexts and clients and for both ways of distributing them: the load (232) and
   the fetch_add (237) of the accept loops may interleave in any way. *)
THEOREM LimitHolds == Spec => []OverrunIsBounded
<1>1. IInv => OverrunIsBounded
  BY DEF IInv
<1> QED
  BY InitInv, NextInv, <1>1, PTL DEF Spec
==============================================================================
