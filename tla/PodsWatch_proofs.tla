-------------------------- MODULE PodsWatch_proofs --------------------------
(***************************************************************************)
(* Proofs about the EKS pods table, for any set of pods, any version Gone  *)
(* and any number of watches: the rows of a pod are bounded by threads,    *)
(* connections and one refresh, and under a single watch the table         *)
(* implements PodReplica.                                                  *)
(***************************************************************************)
EXTENDS PodsWatch, FiniteSetTheorems, SequenceTheorems, TLAPS

-----------------------------------------------------------------------------
(***************************************************************************)
(* Positions in a sequence.                                                *)
(***************************************************************************)
\* The set of positions that removeIf keeps is enumerated by Nth, each of them
\* once.
LEMMA NthEnumerates ==
  ASSUME NEW S \in SUBSET Nat, IsFiniteSet(S)
  PROVE  /\ Cardinality(S) \in Nat
         /\ \A k \in 1 .. Cardinality(S) : Nth(S, k) \in S
         /\ \A j, k \in 1 .. Cardinality(S) : Nth(S, j) = Nth(S, k) => j = k
         /\ \A i \in S : \E k \in 1 .. Cardinality(S) : Nth(S, k) = i
<1> DEFINE UpTo(i) == {j \in S : j <= i}
           rank    == [i \in S |-> Cardinality(UpTo(i))]
<1>1. Cardinality(S) \in Nat
  BY FS_CardinalityType
<1>2. ASSUME NEW i \in S
      PROVE  /\ IsFiniteSet(UpTo(i)) /\ Cardinality(UpTo(i)) \in 1 .. Cardinality(S)
  <2>1. UpTo(i) \in SUBSET S /\ i \in UpTo(i)
    OBVIOUS
  <2>2. IsFiniteSet(UpTo(i)) /\ Cardinality(UpTo(i)) <= Cardinality(S)
    BY <2>1, FS_Subset
  <2>3. Cardinality(UpTo(i)) \in Nat /\ Cardinality(UpTo(i)) # 0
    BY <2>1, <2>2, FS_CardinalityType, FS_EmptySet
  <2> QED
    BY <1>1, <2>2, <2>3
<1>3. ASSUME NEW i \in S, NEW j \in S, i < j
      PROVE  Cardinality(UpTo(i)) # Cardinality(UpTo(j))
  <2>1. i \in Nat /\ j \in Nat /\ \A k \in S : k \in Nat
    OBVIOUS
  <2>2. \A k \in Nat : k <= i => k <= j
    BY <1>3, <2>1
  <2>3. UpTo(i) \subseteq UpTo(j)
    BY <2>1, <2>2
  <2>4. j \in UpTo(j) /\ j \notin UpTo(i)
    BY <1>3, <2>1
  <2> QED
    BY <1>2, <2>3, <2>4, FS_Subset
<1>4. rank \in Injection(S, 1 .. Cardinality(S))
  <2>1. rank \in [S -> 1 .. Cardinality(S)]
    BY <1>2
  <2>2. ASSUME NEW i \in S, NEW j \in S, rank[i] = rank[j]
        PROVE  i = j
    BY <1>3, <2>2
  <2> QED
    BY <2>1, <2>2 DEF Injection, IsInjective
<1>5. rank \in Surjection(S, 1 .. Cardinality(S))
  <2>1. IsFiniteSet(1 .. Cardinality(S))
        /\ Cardinality(1 .. Cardinality(S)) = Cardinality(S)
    BY <1>1, FS_Interval
  <2> HIDE DEF rank
  <2> QED
    BY <1>4, <2>1, FS_Injection
<1>6. \A k \in 1 .. Cardinality(S) : \E i \in S : Cardinality(UpTo(i)) = k
  BY <1>5 DEF Surjection
<1>7. \A k \in 1 .. Cardinality(S) :
        Nth(S, k) \in S /\ Cardinality(UpTo(Nth(S, k))) = k
  BY <1>6 DEF Nth
<1>8. ASSUME NEW i \in S
      PROVE  \E k \in 1 .. Cardinality(S) : Nth(S, k) = i
  <2> DEFINE k == Cardinality(UpTo(i))
  <2>1. k \in 1 .. Cardinality(S) /\ Nth(S, k) \in S /\ Cardinality(UpTo(Nth(S, k))) = k
    BY <1>2, <1>7
  <2>2. rank[i] = k /\ rank[Nth(S, k)] = k
    BY <2>1
  <2> HIDE DEF rank, k
  <2>3. Nth(S, k) = i
    BY <1>4, <2>1, <2>2 DEF Injection, IsInjective
  <2> QED
    BY <2>1, <2>3
<1> QED
  BY <1>1, <1>7, <1>8

\* LivePods lists each live pod once.
LEMMA LivePodsListed ==
  /\ LivePods \in Seq({p \in Pods : Live(p)})
  /\ \A i, j \in DOMAIN LivePods : LivePods[i] = LivePods[j] => i = j
<1> DEFINE S == {p \in Pods : Live(p)}
<1>1. IsFiniteSet(S)
  BY PodsAssumption, FS_Subset
<1>2. Cardinality(S) \in Nat /\ ExistsBijection(1 .. Cardinality(S), S)
  BY <1>1, FS_CardinalityType
<1>3. \E f \in [1 .. Cardinality(S) -> S] : IsInjective(f)
  BY <1>2 DEF ExistsBijection, Bijection, Injection
<1>4. LivePods \in [1 .. Cardinality(S) -> S] /\ IsInjective(LivePods)
  BY <1>3 DEF LivePods, SetToSeq
<1>5. LivePods \in Seq(S)
  BY <1>2, <1>4, SeqDef, Zenon
<1> QED
  BY <1>4, <1>5 DEF IsInjective

-----------------------------------------------------------------------------
(***************************************************************************)
(* The inductive invariants.                                               *)
(***************************************************************************)
\* Only a removal carries the last version.
EventsOK(s) == \A i \in DOMAIN s : s[i].version = Gone <=> s[i].type = "DELETED"

\* Every click has made a connection and a thread; a thread that is not
\* watching has nothing left to signal.
TypeInv ==
  /\ TypeOK
  /\ connections = watches
  /\ watching => watches > 0
  /\ \A t \in Threads : /\ phase[t] = "none" <=> t > watches
                        /\ phase[t] # "watching" => stream[t] = << >>
                        /\ EventsOK(stream[t])
  /\ EventsOK(queue)

\* The events in a sequence that will add a row for p, and the threads that
\* have none for it any more.
Adds(s, p)   == {i \in DOMAIN s : s[i].type = "ADDED" /\ s[i].pod = p}
MayAdd(t, p) ==
  \/ phase[t] = "starting"
  \/ phase[t] = "watching" /\ (version[p] = 0 \/ Adds(stream[t], p) # {})
Spent(p)     == {t \in 1 .. watches : ~MayAdd(t, p)}

\* A thread adds a pod once, on each connection there is then.
AddedOnce(t, p) == /\ \A i, j \in Adds(stream[t], p) : i = j
                   /\ version[p] = 0 => Adds(stream[t], p) = {}
Bound(p) == Cardinality(TrackedRows(p)) + Cardinality(Adds(queue, p))
              <= connections * Cardinality(Spent(p))
CountInv == \A p \in Pods : Bound(p) /\ \A t \in Threads : AddedOnce(t, p)

\* The rows that a refresh has left for p: one at most, since a refresh replaces
\* the whole table and lists a pod once.
RefreshRows(p) == {i \in DOMAIN pods : ~pods[i].tracked /\ pods[i].pod = p}
RefreshInv     == \A p \in Pods : \A i, j \in RefreshRows(p) : i = j

\* Under a single watch: what is on its way of each pod are ever newer versions,
\* newer than what the table lists it as, and a row is added once.
Pending     == queue \o stream[1]
ListedAs(p) == {pods[i].version : i \in TrackedRows(p)}
Quiet       == queue = << >> /\ removed = {} /\ \A p \in Pods : ListedAs(p) = {}
Ordered(s)  ==
  \A i, j \in DOMAIN s :
    i < j /\ s[i].pod = s[j].pod => s[i].version < s[j].version /\ s[j].type # "ADDED"
Fresh(e)    ==
  /\ e.version <= version[e.pod]
  /\ e.pod \notin removed
  /\ \A v \in ListedAs(e.pod) : v < e.version /\ e.type # "ADDED"
RowOK(p)    ==
  /\ \A v, w \in ListedAs(p) : v = w
  /\ \A v \in ListedAs(p) : v <= version[p]
  /\ p \in removed => version[p] = Gone /\ ListedAs(p) = {}
OneWatchInv ==
  /\ phase[1] \in {"none", "starting"} => Quiet
  /\ Ordered(Pending)
  /\ \A i \in DOMAIN Pending : Fresh(Pending[i])
  /\ \A p \in Pods : RowOK(p)

-----------------------------------------------------------------------------
(***************************************************************************)
(* Events in a sequence.                                                   *)
(***************************************************************************)
LEMMA Appended ==
  ASSUME NEW s \in Seq(Events), NEW e \in Events, EventsOK(s),
         e.version = Gone <=> e.type = "DELETED"
  PROVE  Append(s, e) \in Seq(Events) /\ EventsOK(Append(s, e))
<1>1. /\ Append(s, e) \in Seq(Events)
      /\ DOMAIN Append(s, e) = 1 .. Len(s) + 1 /\ Len(s) \in Nat /\ DOMAIN s = 1 .. Len(s)
      /\ \A i \in 1 .. Len(s) : Append(s, e)[i] = s[i]
      /\ Append(s, e)[Len(s) + 1] = e
  BY AppendProperties, LenProperties
<1> HIDE DEF Events
<1>2. \A i \in 1 .. Len(s) + 1 : i \in 1 .. Len(s) \/ i = Len(s) + 1
  BY <1>1
<1> QED
  BY <1>1, <1>2 DEF EventsOK

LEMMA Taken ==
  ASSUME NEW s \in Seq(Events), s # << >>, EventsOK(s)
  PROVE  /\ Head(s) \in Events /\ Tail(s) \in Seq(Events) /\ EventsOK(Tail(s))
         /\ Head(s).version = Gone <=> Head(s).type = "DELETED"
         /\ Len(s) \in Nat \ {0} /\ Head(s) = s[1]
         /\ DOMAIN s = 1 .. Len(s) /\ DOMAIN Tail(s) = 1 .. Len(s) - 1
         /\ \A i \in 1 .. Len(s) - 1 : Tail(s)[i] = s[i + 1]
<1>1. /\ Head(s) \in Events /\ Tail(s) \in Seq(Events)
      /\ Len(s) \in Nat \ {0} /\ Head(s) = s[1]
      /\ DOMAIN s = 1 .. Len(s)
  BY LenProperties, EmptySeq
<1>2. /\ Len(Tail(s)) = Len(s) - 1
      /\ \A i \in 1 .. Len(Tail(s)) : Tail(s)[i] = s[i + 1]
  BY HeadTailProperties
<1>3. DOMAIN Tail(s) = 1 .. Len(s) - 1
  BY <1>1, <1>2, LenProperties
<1>4. \A i \in 1 .. Len(s) - 1 : i + 1 \in DOMAIN s /\ Tail(s)[i] = s[i + 1]
  BY <1>1, <1>2
<1>5. EventsOK(Tail(s))
  BY <1>3, <1>4 DEF EventsOK
<1>6. Head(s).version = Gone <=> Head(s).type = "DELETED"
  BY <1>1 DEF EventsOK
<1> QED
  BY <1>1, <1>2, <1>3, <1>5, <1>6

\* A signal posts its event once for each connection, behind what is queued.
LEMMA PostedBehind ==
  ASSUME NEW s \in Seq(Events), NEW e \in Events, connections \in Nat
  PROVE  /\ s \o Posted(e) \in Seq(Events)
         /\ DOMAIN (s \o Posted(e)) = 1 .. Len(s) + connections
         /\ Len(s) \in Nat /\ DOMAIN s = 1 .. Len(s)
         /\ \A i \in 1 .. Len(s) + connections :
              (s \o Posted(e))[i] = IF i <= Len(s) THEN s[i] ELSE e
<1>1. Posted(e) \in Seq(Events) /\ Len(Posted(e)) = connections
      /\ \A i \in 1 .. connections : Posted(e)[i] = e
  BY DEF Posted
<1>2. /\ s \o Posted(e) \in Seq(Events)
      /\ Len(s \o Posted(e)) = Len(s) + connections
      /\ \A i \in 1 .. Len(s) + connections :
           (s \o Posted(e))[i] = IF i <= Len(s) THEN s[i] ELSE Posted(e)[i - Len(s)]
  BY <1>1, ConcatProperties
<1>3. Len(s) \in Nat /\ DOMAIN s = 1 .. Len(s)
  BY LenProperties
<1>4. DOMAIN (s \o Posted(e)) = 1 .. Len(s) + connections
  BY <1>2, LenProperties
<1>5. \A i \in 1 .. Len(s) + connections : ~(i <= Len(s)) => i - Len(s) \in 1 .. connections
  BY <1>3
<1> QED
  BY <1>1, <1>2, <1>3, <1>4, <1>5

-----------------------------------------------------------------------------
(***************************************************************************)
(* Types.                                                                  *)
(***************************************************************************)
\* The two ways in which the cluster changes a pod, by itself and by btnDelete.
ClusterStep ==
  /\ \E p \in Pods, v \in Versions : ClusterChanges(p, v)
  /\ UNCHANGED << pods, watching, connections, watches, phase, queue, crashed, removed >>

LEMMA ClusterSteps ==
  ASSUME TypeOK,
         (\E p \in Pods : Cluster(p)) \/ (\E i \in DOMAIN pods : BtnDelete(i))
  PROVE  ClusterStep
<1>1. CASE \E p \in Pods : Cluster(p)
  BY <1>1 DEF ClusterStep, Cluster
<1>2. ASSUME NEW i \in DOMAIN pods, BtnDelete(i)
      PROVE  ClusterStep
  <2>1. pods[i] \in Rows
    BY ElementOfSeq, LenProperties DEF TypeOK
  <2>2. pods[i].pod \in Pods /\ Gone \in Versions
    BY <2>1, GoneAssumption DEF Rows, Versions
  <2> QED
    BY <1>2, <2>2 DEF BtnDelete, ClusterStep
<1> QED
  BY <1>1, <1>2

\* What an open watch is sent of a change.
LEMMA Sent ==
  ASSUME TypeOK, NEW p \in Pods, NEW v \in Versions, ClusterChanges(p, v)
  PROVE  \E e \in Events :
           /\ e.pod = p /\ e.version = v
           /\ e.version = Gone <=> e.type = "DELETED"
           /\ e.type = "ADDED" => version[p] = 0
           /\ version[p] < v /\ version[p] \in Nat
           /\ version[p] = 0 => v # Gone
           /\ version' = [version EXCEPT ![p] = v]
           /\ stream' = [t \in Threads |-> IF phase[t] = "watching"
                                           THEN Append(stream[t], e) ELSE stream[t]]
<1> DEFINE type == IF v = Gone THEN "DELETED" ELSE IF v = 1 THEN "ADDED" ELSE "MODIFIED"
           e    == [type |-> type, pod |-> p, version |-> v]
<1>1. version[p] \in Nat /\ v \in Nat /\ Gone \in Nat /\ Gone > 1 /\ version[p] < v
  BY GoneAssumption DEF TypeOK, Versions, ClusterChanges
<1>2. version[p] = 0 => v = 1
  BY DEF ClusterChanges
<1>3. type \in {"ADDED", "MODIFIED", "DELETED"} /\ v \in Versions \ {0}
  BY <1>1
<1>4. e \in Events
  BY <1>3 DEF Events
<1>5. /\ e.version = Gone <=> e.type = "DELETED"
      /\ e.type = "ADDED" => version[p] = 0
      /\ version[p] = 0 => v # Gone
  BY <1>1, <1>2
<1>6. /\ version' = [version EXCEPT ![p] = v]
      /\ stream' = [t \in Threads |-> IF phase[t] = "watching"
                                      THEN Append(stream[t], e) ELSE stream[t]]
  BY DEF ClusterChanges
<1> QED
  BY <1>1, <1>4, <1>5, <1>6

\* The events that a new watch is sent, and the rows that a refresh makes.
LEMMA Listed ==
  ASSUME TypeOK
  PROVE  /\ [i \in DOMAIN LivePods |->
               [type |-> "ADDED", pod |-> LivePods[i], version |-> version[LivePods[i]]]]
              \in Seq(Events)
         /\ [i \in DOMAIN LivePods |->
               [pod |-> LivePods[i], version |-> version[LivePods[i]], tracked |-> FALSE]]
              \in Seq(Rows)
         /\ \A i \in DOMAIN LivePods :
              /\ LivePods[i] \in Pods
              /\ version[LivePods[i]] \in Versions \ {0, Gone}
<1>1. LivePods \in Seq({p \in Pods : Live(p)})
  BY LivePodsListed
<1>2. Len(LivePods) \in Nat /\ DOMAIN LivePods = 1 .. Len(LivePods)
      /\ \A i \in 1 .. Len(LivePods) : LivePods[i] \in {p \in Pods : Live(p)}
  BY <1>1, LenProperties, ElementOfSeq
<1> HIDE DEF LivePods
<1>3. \A i \in 1 .. Len(LivePods) :
        LivePods[i] \in Pods /\ version[LivePods[i]] \in Versions \ {0, Gone}
  BY <1>2 DEF Live, TypeOK
<1>4. \A i \in 1 .. Len(LivePods) :
        /\ [type |-> "ADDED", pod |-> LivePods[i], version |-> version[LivePods[i]]] \in Events
        /\ [pod |-> LivePods[i], version |-> version[LivePods[i]], tracked |-> FALSE] \in Rows
  BY <1>3 DEF Events, Rows
<1> DEFINE events == [i \in 1 .. Len(LivePods) |->
             [type |-> "ADDED", pod |-> LivePods[i], version |-> version[LivePods[i]]]]
           rows   == [i \in 1 .. Len(LivePods) |->
             [pod |-> LivePods[i], version |-> version[LivePods[i]], tracked |-> FALSE]]
<1>5. events \in [1 .. Len(LivePods) -> Events] /\ rows \in [1 .. Len(LivePods) -> Rows]
  BY <1>4
<1> HIDE DEF events, rows
<1>6. events \in Seq(Events) /\ rows \in Seq(Rows)
  BY <1>2, <1>5, SeqDef
<1> QED
  BY <1>2, <1>3, <1>6 DEF events, rows

LEMMA TypeInit == Init => TypeInv
<1> SUFFICES ASSUME Init PROVE TypeInv
  OBVIOUS
<1>1. TypeOK
  <2>1. {0, 1} \subseteq Versions
    BY GoneAssumption DEF Versions
  <2>2. version \in [Pods -> Versions]
    BY <2>1 DEF Init
  <2>3. << >> \in Seq(Rows) /\ << >> \in Seq(Events) /\ 0 \in 0 .. MaxWatches
    BY WatchesAssumption, EmptySeq
  <2> QED
    BY <2>2, <2>3 DEF Init, TypeOK
<1>2. EventsOK(<< >>)
  BY DEF EventsOK
<1>3. \A t \in Threads : t > 0
  BY WatchesAssumption DEF Threads
<1> QED
  BY <1>1, <1>2, <1>3 DEF Init, TypeInv

\* The rows that removeIf keeps.
LEMMA Kept ==
  ASSUME TypeOK, NEW S \in SUBSET (DOMAIN pods)
  PROVE  /\ RowsAt(S) \in Seq(Rows)
         /\ Cardinality(S) \in Nat /\ DOMAIN RowsAt(S) = 1 .. Cardinality(S)
         /\ \A k \in DOMAIN RowsAt(S) : /\ Nth(S, k) \in S
                                        /\ RowsAt(S)[k] = pods[Nth(S, k)]
         /\ \A j, k \in DOMAIN RowsAt(S) : Nth(S, j) = Nth(S, k) => j = k
         /\ \A i \in S : \E k \in DOMAIN RowsAt(S) : Nth(S, k) = i
<1>1. Len(pods) \in Nat /\ DOMAIN pods = 1 .. Len(pods)
      /\ \A i \in DOMAIN pods : pods[i] \in Rows
  BY LenProperties, ElementOfSeq DEF TypeOK
<1>2. IsFiniteSet(S) /\ S \in SUBSET Nat
  <2>1. IsFiniteSet(1 .. Len(pods)) /\ S \in SUBSET (1 .. Len(pods))
    BY <1>1, FS_Interval
  <2> QED
    BY <2>1, FS_Subset
<1>3. /\ Cardinality(S) \in Nat
      /\ \A k \in 1 .. Cardinality(S) : Nth(S, k) \in S
      /\ \A j, k \in 1 .. Cardinality(S) : Nth(S, j) = Nth(S, k) => j = k
      /\ \A i \in S : \E k \in 1 .. Cardinality(S) : Nth(S, k) = i
  BY <1>2, NthEnumerates
<1> HIDE DEF Nth
<1>4. DOMAIN RowsAt(S) = 1 .. Cardinality(S)
      /\ \A k \in 1 .. Cardinality(S) : RowsAt(S)[k] = pods[Nth(S, k)]
  BY DEF RowsAt
<1>5. RowsAt(S) \in [1 .. Cardinality(S) -> Rows]
  BY <1>1, <1>3 DEF RowsAt
<1>6. RowsAt(S) \in Seq(Rows)
  BY <1>3, <1>5, SeqDef
<1> QED
  BY <1>3, <1>4, <1>6

LEMMA TypeNext == TypeInv /\ [Next]_vars => TypeInv'
<1> SUFFICES ASSUME TypeInv, [Next]_vars PROVE TypeInv'
  OBVIOUS
<1> USE DEF TypeInv
<1>1. /\ connections \in Nat /\ watches \in Nat /\ MaxWatches \in Nat
      /\ \A t \in Threads : t \in Nat /\ stream[t] \in Seq(Events)
      /\ EventsOK(<< >>) /\ << >> \in Seq(Events)
  BY WatchesAssumption, EmptySeq DEF TypeOK, Threads, EventsOK
<1>2. CASE ClusterStep
  <2>1. PICK p \in Pods, v \in Versions : ClusterChanges(p, v)
    BY <1>2 DEF ClusterStep
  <2>2. PICK e \in Events :
           /\ e.version = Gone <=> e.type = "DELETED"
           /\ version' = [version EXCEPT ![p] = v]
           /\ stream' = [t \in Threads |-> IF phase[t] = "watching"
                                           THEN Append(stream[t], e) ELSE stream[t]]
    BY <2>1, Sent
  <2>3. \A t \in Threads : Append(stream[t], e) \in Seq(Events) /\ EventsOK(Append(stream[t], e))
    BY <1>1, <2>2, Appended
  <2>4. version' \in [Pods -> Versions]
    BY <2>2 DEF TypeOK
  <2>5. stream' \in [Threads -> Seq(Events)]
    BY <1>1, <2>2, <2>3
  <2>6. TypeOK'
    BY <1>2, <2>4, <2>5 DEF ClusterStep, TypeOK
  <2>7. \A t \in Threads : /\ (phase[t] # "watching" => stream'[t] = << >>)
                           /\ EventsOK(stream'[t])
    BY <2>2, <2>3
  <2> QED
    BY <1>2, <2>6, <2>7 DEF ClusterStep, EventsOK
<1>3. CASE BtnRefreshPodsClick
  <2>1. pods' \in Seq(Rows) /\ crashed' \in BOOLEAN
    BY <1>3, Listed DEF BtnRefreshPodsClick, TypeOK
  <2>2. TypeOK'
    BY <1>3, <2>1 DEF BtnRefreshPodsClick, TypeOK
  <2> QED
    BY <1>3, <2>2 DEF BtnRefreshPodsClick, EventsOK
<1>4. CASE WatchPods
  <2>1. watches + 1 \in Threads /\ watches + 1 \in 0 .. MaxWatches /\ watches + 1 > 0
    BY <1>1, <1>4 DEF WatchPods, Threads
  <2>2. TypeOK'
    BY <1>4, <2>1 DEF WatchPods, TypeOK
  <2>3. \A t \in Threads : phase'[t] = IF t = watches + 1 THEN "starting" ELSE phase[t]
    BY <1>4, <2>1 DEF WatchPods, TypeOK
  <2>4. \A t \in Threads : (t > watches + 1 <=> t > watches /\ t # watches + 1)
    BY <1>1
  <2>5. \A t \in Threads : t = watches + 1 => phase[t] = "none" /\ stream[t] = << >>
    BY <1>1
  <2>6. \A t \in Threads : /\ phase'[t] = "none" <=> t > watches'
                           /\ phase'[t] # "watching" => stream'[t] = << >>
                           /\ EventsOK(stream[t])
    BY <1>4, <2>3, <2>4, <2>5 DEF WatchPods
  <2> QED
    BY <1>4, <2>1, <2>2, <2>6 DEF WatchPods, EventsOK
<1>5. CASE StopWatch
  <2>1. \A t \in Threads : \/ phase'[t] = phase[t]
                           \/ phase[t] = "starting" /\ phase'[t] = "dead"
    BY <1>5 DEF StopWatch, TypeOK
  <2>2. phase' \in [Threads -> {"none", "starting", "watching", "dead"}]
    BY <1>5, <2>1 DEF StopWatch, TypeOK
  <2>3. TypeOK'
    BY <1>5, <2>2 DEF StopWatch, TypeOK
  <2>4. \A t \in Threads : /\ phase'[t] = "none" <=> phase[t] = "none"
                           /\ phase'[t] = "watching" <=> phase[t] = "watching"
    BY <2>1
  <2> QED
    BY <1>5, <2>3, <2>4 DEF StopWatch, EventsOK
<1>6. ASSUME NEW t \in Threads, ThreadStarts(t)
      PROVE  TypeInv'
  <2> DEFINE listed == [i \in DOMAIN LivePods |->
                [type |-> "ADDED", pod |-> LivePods[i], version |-> version[LivePods[i]]]]
  <2>1. listed \in Seq(Events) /\ EventsOK(listed)
    BY Listed DEF EventsOK
  <2> HIDE DEF listed
  <2>2. \/ /\ phase' = [phase EXCEPT ![t] = "watching"]
           /\ stream' = [stream EXCEPT ![t] = listed] /\ crashed' = crashed
        \/ phase' = [phase EXCEPT ![t] = "dead"] /\ stream' = stream /\ crashed' = crashed
        \/ phase' = phase /\ stream' = stream /\ crashed' = TRUE
    BY <1>6 DEF ThreadStarts, listed
  <2>3. phase[t] = "starting"
        /\ UNCHANGED << version, pods, watching, connections, watches, queue, removed >>
    BY <1>6 DEF ThreadStarts
  <2>4. TypeOK'
    BY <2>1, <2>2, <2>3 DEF TypeOK
  <2>5. \A u \in Threads : /\ (phase'[u] = "none") <=> (phase[u] = "none")
                           /\ phase'[u] # "watching" => stream'[u] = << >>
                           /\ EventsOK(stream'[u])
    BY <2>1, <2>2, <2>3 DEF TypeOK
  <2> QED
    BY <2>3, <2>4, <2>5 DEF EventsOK
<1>7. ASSUME NEW t \in Threads, OnPodEventReceived(t)
      PROVE  TypeInv'
  <2> DEFINE e == Head(stream[t])
  <2>1. /\ stream[t] \in Seq(Events) /\ stream[t] # << >> /\ phase[t] = "watching"
        /\ EventsOK(stream[t]) /\ queue \in Seq(Events)
    BY <1>1, <1>7 DEF OnPodEventReceived, TypeOK
  <2>2. /\ e \in Events /\ Tail(stream[t]) \in Seq(Events) /\ EventsOK(Tail(stream[t]))
        /\ e.version = Gone <=> e.type = "DELETED"
    BY <2>1, Taken
  <2>3. queue' = queue \o Posted(e) /\ stream' = [stream EXCEPT ![t] = Tail(stream[t])]
        /\ UNCHANGED << version, pods, watching, connections, watches, phase, crashed, removed >>
    BY <1>7 DEF OnPodEventReceived
  <2> HIDE DEF e
  <2>4. /\ queue' \in Seq(Events) /\ DOMAIN queue' = 1 .. Len(queue) + connections
        /\ \A i \in DOMAIN queue' : queue'[i] = e \/ (i \in DOMAIN queue /\ queue'[i] = queue[i])
    <3>1. /\ queue \o Posted(e) \in Seq(Events)
          /\ DOMAIN (queue \o Posted(e)) = 1 .. Len(queue) + connections
          /\ Len(queue) \in Nat /\ DOMAIN queue = 1 .. Len(queue)
          /\ \A i \in 1 .. Len(queue) + connections :
               (queue \o Posted(e))[i] = IF i <= Len(queue) THEN queue[i] ELSE e
      <4>1. connections \in Nat /\ queue \in Seq(Events) /\ e \in Events
        BY <1>1, <2>1, <2>2
      <4> HIDE DEF TypeInv
      <4> QED
        BY <4>1, PostedBehind, Zenon
    <3>2. \A i \in 1 .. Len(queue) + connections : i <= Len(queue) => i \in 1 .. Len(queue)
      BY <3>1
    <3> QED
      BY <2>3, <3>1, <3>2
  <2>5. EventsOK(queue)'
    BY <2>2, <2>4 DEF EventsOK
  <2>6. TypeOK'
    BY <2>2, <2>3, <2>4 DEF TypeOK
  <2>7. \A u \in Threads : /\ phase[u] # "watching" => stream'[u] = << >>
                           /\ EventsOK(stream'[u])
    BY <2>1, <2>2, <2>3 DEF TypeOK
  <2> QED
    BY <2>3, <2>5, <2>6, <2>7 DEF EventsOK
<1>8. ASSUME NEW t \in Threads, ThreadEnds(t)
      PROVE  TypeInv'
  <2>1. phase[t] = "watching" /\ phase' = [phase EXCEPT ![t] = "dead"]
        /\ stream' = [stream EXCEPT ![t] = << >>]
        /\ UNCHANGED << version, pods, watching, connections, watches, queue, crashed, removed >>
    BY <1>8 DEF ThreadEnds
  <2>2. TypeOK'
    BY <1>1, <2>1 DEF TypeOK
  <2>3. \A u \in Threads : /\ (phase'[u] = "none") <=> (phase[u] = "none")
                           /\ phase'[u] # "watching" => stream'[u] = << >>
                           /\ EventsOK(stream'[u])
    BY <1>1, <2>1 DEF TypeOK
  <2> QED
    BY <2>1, <2>2, <2>3 DEF EventsOK
<1>9. CASE GuiEvent
  <2> DEFINE e == Head(queue)
  <2>1. /\ e \in Events /\ Tail(queue) \in Seq(Events) /\ EventsOK(Tail(queue))
        /\ e.version = Gone <=> e.type = "DELETED"
    BY <1>9, Taken DEF GuiEvent, TypeOK
  <2>2. queue' = Tail(queue) /\ (PodAdded \/ PodModified \/ PodRemoved)
        /\ UNCHANGED << version, watching, connections, watches, phase, stream, crashed >>
    BY <1>9 DEF GuiEvent
  <2>3. e.type # "DELETED" => RowFor(e) \in Rows
    BY <2>1 DEF RowFor, Rows, Events
  <2>4. pods' \in Seq(Rows) /\ removed' \subseteq Pods
    <3>1. CASE PodAdded
      <4>1. pods' = Append(pods, RowFor(e)) /\ RowFor(e) \in Rows /\ removed' = removed
        BY <2>3, <3>1 DEF PodAdded
      <4> QED
        BY <4>1, AppendProperties DEF TypeOK
    <3>2. CASE PodModified
      <4>1. /\ pods' = [i \in DOMAIN pods |->
                 IF IsRowOf(pods[i], e.pod) THEN RowFor(e) ELSE pods[i]]
            /\ RowFor(e) \in Rows /\ removed' = removed
        BY <2>3, <3>2 DEF PodModified
      <4>2. Len(pods) \in Nat /\ DOMAIN pods = 1 .. Len(pods)
            /\ \A i \in DOMAIN pods : pods[i] \in Rows
        BY LenProperties, ElementOfSeq DEF TypeOK
      <4>3. pods' \in [1 .. Len(pods) -> Rows]
        BY <4>1, <4>2
      <4> QED
        BY <4>1, <4>2, <4>3, SeqDef DEF TypeOK
    <3>3. CASE PodRemoved
      <4>1. pods' = RowsAt({i \in DOMAIN pods : ~IsRowOf(pods[i], e.pod)})
            /\ removed' = removed \cup {e.pod}
        BY <3>3 DEF PodRemoved
      <4>2. e.pod \in Pods
        BY <2>1 DEF Events
      <4> QED
        BY <4>1, <4>2, Kept DEF TypeOK
    <3> QED
      BY <2>2, <3>1, <3>2, <3>3
  <2>5. TypeOK'
    BY <2>1, <2>2, <2>4 DEF TypeOK
  <2> QED
    BY <2>1, <2>2, <2>5 DEF EventsOK
<1>10. CASE UNCHANGED vars
  BY <1>10 DEF vars, TypeOK, EventsOK
<1> QED
  BY <1>2, <1>3, <1>4, <1>5, <1>6, <1>7, <1>8, <1>9, <1>10, ClusterSteps DEF Next

\* The tables that the actions build are typed, whatever the order of clicks,
\* events and answers; a row never has the version of a removed pod.
THEOREM Typed == Spec => []TypeOK
<1>1. TypeInv => TypeOK
  BY DEF TypeInv
<1> QED
  BY <1>1, TypeInit, TypeNext, PTL DEF Spec

-----------------------------------------------------------------------------
(***************************************************************************)
(* How many rows a pod has.                                                *)
(***************************************************************************)
LEMMA Products ==
  ASSUME NEW a \in Nat, NEW b \in Nat, NEW c \in Nat, NEW d \in Nat, a <= c, b <= d
  PROVE  a * b \in Nat /\ a * b <= c * d
<1>1. a * b \in Nat /\ c * d \in Nat /\ a * d \in Nat
  OBVIOUS
<1>2. a * d = a * b + a * (d - b) /\ a * (d - b) \in Nat
  OBVIOUS
<1>3. c * d = a * d + (c - a) * d /\ (c - a) * d \in Nat
  OBVIOUS
<1> QED
  BY <1>1, <1>2, <1>3

LEMMA CountedUpTo ==
  ASSUME NEW n \in Nat, NEW S, S \subseteq 1 .. n
  PROVE  IsFiniteSet(S) /\ Cardinality(S) \in 0 .. n
<1>1. IsFiniteSet(1 .. n) /\ Cardinality(1 .. n) = n
  BY FS_Interval
<1>2. IsFiniteSet(S) /\ Cardinality(S) <= n
  BY <1>1, FS_Subset
<1> QED
  BY <1>2, FS_CardinalityType

\* All that is counted is finite.
LEMMA CountsAreNumbers ==
  ASSUME TypeOK, NEW p
  PROVE  /\ IsFiniteSet(TrackedRows(p)) /\ Cardinality(TrackedRows(p)) \in Nat
         /\ IsFiniteSet(Adds(queue, p)) /\ Cardinality(Adds(queue, p)) \in Nat
         /\ IsFiniteSet(Spent(p)) /\ Cardinality(Spent(p)) \in 0 .. watches
<1>1. /\ Len(pods) \in Nat /\ TrackedRows(p) \subseteq 1 .. Len(pods)
      /\ Len(queue) \in Nat /\ Adds(queue, p) \subseteq 1 .. Len(queue)
  BY LenProperties DEF TypeOK, TrackedRows, Adds
<1>2. Spent(p) \subseteq 1 .. watches /\ watches \in Nat
  BY WatchesAssumption DEF Spent, TypeOK
<1>3. \A n \in Nat : n + 0 \in Nat /\ 0 .. n \subseteq Nat
  OBVIOUS
<1> QED
  BY <1>1, <1>2, <1>3, CountedUpTo

\* A handled event is one less to add its row.
LEMMA AddsTaken ==
  ASSUME NEW s \in Seq(Events), s # << >>, NEW p
  PROVE  /\ Cardinality(Adds(Tail(s), p)) \in Nat
         /\ Cardinality(Adds(Tail(s), p)) <= Cardinality(Adds(s, p))
         /\ Head(s).type = "ADDED" /\ Head(s).pod = p =>
              Cardinality(Adds(Tail(s), p)) + 1 <= Cardinality(Adds(s, p))
<1> DEFINE rest == Adds(s, p) \ {1}
           up   == [i \in Adds(Tail(s), p) |-> i + 1]
<1>1. /\ Len(s) \in Nat \ {0} /\ DOMAIN s = 1 .. Len(s) /\ Head(s) = s[1]
      /\ Tail(s) \in Seq(Events) /\ Len(Tail(s)) = Len(s) - 1
      /\ \A i \in 1 .. Len(Tail(s)) : Tail(s)[i] = s[i + 1]
  BY LenProperties, EmptySeq, HeadTailProperties
<1>2. DOMAIN Tail(s) = 1 .. Len(s) - 1
  BY <1>1, LenProperties
<1>3. IsFiniteSet(1 .. Len(s)) /\ Adds(s, p) \subseteq 1 .. Len(s)
  BY <1>1, FS_Interval DEF Adds
<1>4. IsFiniteSet(Adds(s, p))
  BY <1>3, FS_Subset
<1>5. /\ IsFiniteSet(rest)
      /\ Cardinality(rest) = IF 1 \in Adds(s, p) THEN Cardinality(Adds(s, p)) - 1
                                                 ELSE Cardinality(Adds(s, p))
  BY <1>4, FS_RemoveElement
<1>6. ASSUME NEW i \in Adds(Tail(s), p)
      PROVE  i \in Nat /\ i + 1 \in rest
  <2>1. i \in 1 .. Len(s) - 1 /\ Tail(s)[i].type = "ADDED" /\ Tail(s)[i].pod = p
    BY <1>2 DEF Adds
  <2>2. i + 1 \in DOMAIN s /\ Tail(s)[i] = s[i + 1] /\ i + 1 # 1 /\ i \in Nat
    BY <1>1, <2>1
  <2> QED
    BY <2>1, <2>2 DEF Adds
<1>7. up \in Injection(Adds(Tail(s), p), rest)
  <2>1. up \in [Adds(Tail(s), p) -> rest]
    BY <1>6
  <2>2. ASSUME NEW i \in Adds(Tail(s), p), NEW j \in Adds(Tail(s), p), up[i] = up[j]
        PROVE  i = j
    BY <1>6, <2>2
  <2> QED
    BY <2>1, <2>2 DEF Injection, IsInjective
<1> HIDE DEF up, rest
<1>8. IsFiniteSet(Adds(Tail(s), p)) /\ Cardinality(Adds(Tail(s), p)) <= Cardinality(rest)
  BY <1>5, <1>7, FS_Injection
<1>9. /\ Cardinality(Adds(Tail(s), p)) \in Nat /\ Cardinality(rest) \in Nat
      /\ Cardinality(Adds(s, p)) \in Nat
  BY <1>4, <1>5, <1>8, FS_CardinalityType
<1>10. Head(s).type = "ADDED" /\ Head(s).pod = p => 1 \in Adds(s, p)
  BY <1>1 DEF Adds
<1> QED
  BY <1>5, <1>8, <1>9, <1>10

\* A signal queues at most one event for each connection.
LEMMA AddsPosted ==
  ASSUME NEW s \in Seq(Events), NEW e \in Events, NEW p, connections \in Nat
  PROVE  Cardinality(Adds(s \o Posted(e), p)) <=
           Cardinality(Adds(s, p)) + (IF e.type = "ADDED" /\ e.pod = p THEN connections ELSE 0)
<1> DEFINE t   == s \o Posted(e)
           new == (Len(s) + 1) .. (Len(s) + connections)
<1>1. /\ DOMAIN t = 1 .. Len(s) + connections /\ Len(s) \in Nat /\ DOMAIN s = 1 .. Len(s)
      /\ \A i \in 1 .. Len(s) + connections : t[i] = IF i <= Len(s) THEN s[i] ELSE e
  BY PostedBehind
<1> HIDE DEF t
<1>2. IsFiniteSet(1 .. Len(s)) /\ Adds(s, p) \subseteq 1 .. Len(s)
  BY <1>1, FS_Interval DEF Adds
<1>3. IsFiniteSet(Adds(s, p)) /\ IsFiniteSet({}) /\ IsFiniteSet(Adds(s, p) \cap new)
  BY <1>2, FS_Subset, FS_EmptySet, FS_Intersection
<1>4. IsFiniteSet(new) /\ Cardinality(new) = connections
  BY <1>1, FS_Interval
<1>5. /\ Cardinality(Adds(s, p)) \in Nat /\ Cardinality(Adds(s, p) \cap new) \in Nat
  BY <1>3, FS_CardinalityType
<1>6. \A i \in DOMAIN t : \/ i \in DOMAIN s /\ t[i] = s[i]
                          \/ i \in new /\ t[i] = e
  BY <1>1
<1>7. CASE e.type = "ADDED" /\ e.pod = p
  <2>1. Adds(t, p) \subseteq Adds(s, p) \cup new
    BY <1>6 DEF Adds
  <2>2. IsFiniteSet(Adds(s, p) \cup new)
        /\ Cardinality(Adds(s, p) \cup new) =
             Cardinality(Adds(s, p)) + connections - Cardinality(Adds(s, p) \cap new)
    BY <1>3, <1>4, FS_Union
  <2>3. IsFiniteSet(Adds(t, p)) /\ Cardinality(Adds(t, p)) <= Cardinality(Adds(s, p) \cup new)
    BY <2>1, <2>2, FS_Subset
  <2>4. Cardinality(Adds(t, p)) \in Nat
    BY <2>3, FS_CardinalityType
  <2> QED
    BY <1>5, <1>7, <2>2, <2>3, <2>4 DEF t
<1>8. CASE ~(e.type = "ADDED" /\ e.pod = p)
  <2>1. Adds(t, p) \subseteq Adds(s, p)
    BY <1>6, <1>8 DEF Adds
  <2>2. IsFiniteSet(Adds(t, p)) /\ Cardinality(Adds(t, p)) <= Cardinality(Adds(s, p))
    BY <1>3, <2>1, FS_Subset
  <2> QED
    BY <1>5, <1>8, <2>2 DEF t
<1> QED
  BY <1>7, <1>8

\* No action but a signal adds to what is counted of a pod, and the threads
\* that are done with it stay so.
LEMMA BoundKept ==
  ASSUME TypeInv, TypeInv', NEW p \in Pods, Bound(p),
         connections <= connections', Spent(p) \subseteq Spent(p)',
         Cardinality(TrackedRows(p))' + Cardinality(Adds(queue, p))'
           <= Cardinality(TrackedRows(p)) + Cardinality(Adds(queue, p))
  PROVE  Bound(p)'
<1> DEFINE a == connections
           b == Cardinality(Spent(p))
           c == Cardinality(TrackedRows(p)) + Cardinality(Adds(queue, p))
<1>1. TypeOK /\ TypeOK'
  BY DEF TypeInv
<1>2. a \in Nat /\ b \in Nat /\ c \in Nat
  BY <1>1, WatchesAssumption, CountsAreNumbers DEF TypeOK
<1>3. a' \in Nat /\ watches' \in Nat /\ Spent(p)' \subseteq 1 .. watches'
  BY <1>1, WatchesAssumption DEF TypeOK, Spent
<1>4. IsFiniteSet(Spent(p)') /\ b' \in Nat
  BY <1>3, CountedUpTo
<1>5. b <= b'
  BY <1>4, FS_Subset
<1>6. a * b \in Nat /\ a' * b' \in Nat /\ a * b <= a' * b'
  BY <1>2, <1>3, <1>4, <1>5, Products
<1>7. /\ Len(pods') \in Nat /\ TrackedRows(p)' \subseteq 1 .. Len(pods')
      /\ Len(queue') \in Nat /\ Adds(queue, p)' \subseteq 1 .. Len(queue')
  BY <1>1, LenProperties DEF TypeOK, TrackedRows, Adds
<1>8. Cardinality(TrackedRows(p)') \in Nat /\ Cardinality(Adds(queue, p)') \in Nat
  BY <1>7, CountedUpTo
<1> QED
  BY <1>2, <1>6, <1>8 DEF Bound

-----------------------------------------------------------------------------
(***************************************************************************)
(* What the slots make of the rows of a pod.                               *)
(***************************************************************************)
LEMMA AddedRows ==
  ASSUME TypeOK, NEW e \in Events, pods' = Append(pods, RowFor(e)), NEW p
  PROVE  /\ Len(pods) \in Nat /\ Len(pods) + 1 \notin TrackedRows(p)
         /\ TrackedRows(p)' = IF e.pod = p THEN TrackedRows(p) \cup {Len(pods) + 1}
                                           ELSE TrackedRows(p)
         /\ \A i \in TrackedRows(p) : pods'[i] = pods[i]
         /\ pods'[Len(pods) + 1] = RowFor(e)
<1>1. Len(pods) \in Nat /\ DOMAIN pods = 1 .. Len(pods)
  BY LenProperties DEF TypeOK
<1>2. /\ DOMAIN pods' = 1 .. Len(pods) + 1
      /\ \A i \in 1 .. Len(pods) : pods'[i] = pods[i]
      /\ pods'[Len(pods) + 1] = RowFor(e)
  BY <1>1 DEF TypeOK
<1>3. RowFor(e).tracked = TRUE /\ RowFor(e).pod = e.pod
  BY DEF RowFor
<1>4. \A i \in 1 .. Len(pods) + 1 : i \in 1 .. Len(pods) \/ i = Len(pods) + 1
  BY <1>1
<1>5. \A i \in 1 .. Len(pods) : i \in 1 .. Len(pods) + 1
  BY <1>1
<1>6. Len(pods) + 1 \in 1 .. Len(pods) + 1 /\ Len(pods) + 1 \notin 1 .. Len(pods)
  BY <1>1
<1>7. TrackedRows(p) = {i \in 1 .. Len(pods) : IsRowOf(pods[i], p)}
  BY <1>1 DEF TrackedRows
<1>8. TrackedRows(p)' = {i \in 1 .. Len(pods) + 1 : IsRowOf(pods'[i], p)}
  BY <1>2 DEF TrackedRows
<1>9. IsRowOf(RowFor(e), p) <=> e.pod = p
  BY <1>3 DEF IsRowOf
<1> HIDE DEF IsRowOf, RowFor
<1> QED
  BY <1>1, <1>2, <1>4, <1>5, <1>6, <1>7, <1>8, <1>9, Zenon

LEMMA ModifiedRows ==
  ASSUME NEW e \in Events, NEW p,
         pods' = [i \in DOMAIN pods |->
                    IF IsRowOf(pods[i], e.pod) THEN RowFor(e) ELSE pods[i]]
  PROVE  /\ TrackedRows(p)' = TrackedRows(p)
         /\ \A i \in TrackedRows(p) : pods'[i] = IF p = e.pod THEN RowFor(e) ELSE pods[i]
<1>1. DOMAIN pods' = DOMAIN pods
  OBVIOUS
<1>2. RowFor(e).tracked = TRUE /\ RowFor(e).pod = e.pod
  BY DEF RowFor
<1> QED
  BY <1>1, <1>2 DEF TrackedRows, IsRowOf

LEMMA RemovedRows ==
  ASSUME TypeOK, NEW e \in Events, NEW p,
         pods' = RowsAt({i \in DOMAIN pods : ~IsRowOf(pods[i], e.pod)})
  PROVE  /\ p = e.pod => TrackedRows(p)' = {}
         /\ p # e.pod =>
              \E f \in Bijection(TrackedRows(p)', TrackedRows(p)) :
                \A k \in TrackedRows(p)' : pods'[k] = pods[f[k]]
<1> DEFINE S == {i \in DOMAIN pods : ~IsRowOf(pods[i], e.pod)}
<1>1. S \in SUBSET (DOMAIN pods)
  OBVIOUS
<1>2. /\ \A k \in DOMAIN pods' : Nth(S, k) \in S /\ pods'[k] = pods[Nth(S, k)]
      /\ \A j, k \in DOMAIN pods' : Nth(S, j) = Nth(S, k) => j = k
      /\ \A i \in S : \E k \in DOMAIN pods' : Nth(S, k) = i
  BY <1>1, Kept
<1>3. TrackedRows(p)' = {k \in DOMAIN pods' : IsRowOf(pods'[k], p)}
  BY DEF TrackedRows
<1>4. CASE p = e.pod
  BY <1>2, <1>3, <1>4
<1>5. CASE p # e.pod
  <2> DEFINE f == [k \in TrackedRows(p)' |-> Nth(S, k)]
  <2>1. TrackedRows(p) \subseteq S
    BY <1>5 DEF TrackedRows, IsRowOf
  <2>2. \A k \in TrackedRows(p)' : Nth(S, k) \in TrackedRows(p) /\ pods'[k] = pods[Nth(S, k)]
    BY <1>2, <1>3 DEF TrackedRows
  <2>3. \A i \in TrackedRows(p) : \E k \in TrackedRows(p)' : Nth(S, k) = i
    BY <1>2, <1>3, <2>1 DEF TrackedRows
  <2>4. \A j, k \in TrackedRows(p)' : Nth(S, j) = Nth(S, k) => j = k
    BY <1>2, <1>3
  <2> HIDE DEF S
  <2>5. f \in [TrackedRows(p)' -> TrackedRows(p)]
    BY <2>2
  <2>6. f \in Bijection(TrackedRows(p)', TrackedRows(p))
    BY <2>3, <2>4, <2>5 DEF Bijection, Injection, Surjection, IsInjective
  <2> QED
    BY <1>5, <2>2, <2>6
<1> QED
  BY <1>4, <1>5

-----------------------------------------------------------------------------
LEMMA CountInit == Init => CountInv
<1> SUFFICES ASSUME Init, NEW p \in Pods
             PROVE  Bound(p) /\ \A t \in Threads : AddedOnce(t, p)
  BY DEF CountInv
<1>1. \A q : Adds(<< >>, q) = {}
  BY DEF Adds
<1>2. TrackedRows(p) = {} /\ Adds(queue, p) = {} /\ Spent(p) = {}
  BY <1>1 DEF Init, TrackedRows, Spent
<1>3. Cardinality({}) = 0
  BY FS_EmptySet
<1>4. Bound(p)
  <2>1. connections = 0 /\ 0 + 0 <= 0 * 0
    BY DEF Init
  <2> QED
    BY <1>2, <1>3, <2>1 DEF Bound
<1> QED
  BY <1>1, <1>4 DEF Init, AddedOnce

\* A thread that has been sent a change has an event to add the pod only if the
\* pod is new.
LEMMA AddsAppended ==
  ASSUME NEW s \in Seq(Events), NEW e \in Events, NEW p
  PROVE  Adds(Append(s, e), p) = IF e.type = "ADDED" /\ e.pod = p
                                 THEN Adds(s, p) \cup {Len(s) + 1} ELSE Adds(s, p)
<1>1. /\ DOMAIN Append(s, e) = 1 .. Len(s) + 1 /\ Len(s) \in Nat /\ DOMAIN s = 1 .. Len(s)
      /\ \A i \in 1 .. Len(s) : Append(s, e)[i] = s[i]
      /\ Append(s, e)[Len(s) + 1] = e
  BY AppendProperties, LenProperties
<1> HIDE DEF Events
<1>2. \A i \in 1 .. Len(s) + 1 : i \in 1 .. Len(s) \/ i = Len(s) + 1
  BY <1>1
<1>3. \A i \in 1 .. Len(s) : i \in 1 .. Len(s) + 1
  BY <1>1
<1>4. Len(s) + 1 \in 1 .. Len(s) + 1
  BY <1>1
<1> QED
  BY <1>1, <1>2, <1>3, <1>4, Zenon DEF Adds

LEMMA CountNext == TypeInv /\ TypeInv' /\ CountInv /\ [Next]_vars => CountInv'
<1> SUFFICES ASSUME TypeInv, TypeInv', CountInv, [Next]_vars, NEW p \in Pods
             PROVE  Bound(p)' /\ \A t \in Threads : AddedOnce(t, p)'
  BY DEF CountInv
<1>1. /\ TypeOK /\ TypeOK' /\ Bound(p) /\ \A t \in Threads : AddedOnce(t, p)
      /\ connections \in Nat /\ connections = watches /\ MaxWatches \in Nat
      /\ \A t \in Threads : stream[t] \in Seq(Events) /\ t \in Nat
      /\ version[p] \in Nat
  BY WatchesAssumption, GoneAssumption DEF TypeInv, TypeOK, CountInv, Threads, Versions
<1>2. /\ Cardinality(TrackedRows(p)) \in Nat /\ Cardinality(Adds(queue, p)) \in Nat
      /\ IsFiniteSet(Spent(p)) /\ Cardinality(Spent(p)) \in Nat
      /\ IsFiniteSet(TrackedRows(p))
  <2>1. 0 .. watches \subseteq Nat
    BY <1>1
  <2> QED
    BY <1>1, <2>1, CountsAreNumbers
<1>3. Spent(p) \subseteq 1 .. watches /\ 1 .. watches \subseteq Threads
      /\ \A t \in Threads : phase[t] # "none" => t \in 1 .. watches
  <2>1. watches \in 0 .. MaxWatches /\ \A t \in Threads : phase[t] # "none" => ~(t > watches)
    BY DEF TypeInv, TypeOK
  <2>2. \A t \in 1 .. MaxWatches : ~(t > watches) => t \in 1 .. watches
    BY <1>1
  <2>3. \A t \in 1 .. watches : t \in 1 .. MaxWatches
    BY <1>1, <2>1
  <2> QED
    BY <2>1, <2>2, <2>3 DEF Spent, Threads
<1>4. CASE ClusterStep
  <2>1. PICK p0 \in Pods, v \in Versions : ClusterChanges(p0, v)
    BY <1>4 DEF ClusterStep
  <2>2. PICK e \in Events :
           /\ e.pod = p0 /\ e.version = v
           /\ e.type = "ADDED" => version[p0] = 0
           /\ version[p0] < v /\ version[p0] \in Nat
           /\ version' = [version EXCEPT ![p0] = v]
           /\ stream' = [t \in Threads |-> IF phase[t] = "watching"
                                           THEN Append(stream[t], e) ELSE stream[t]]
    BY <1>1, <2>1, Sent
  <2>3. v \in Nat /\ (version'[p] = 0 => p # p0 /\ version[p] = 0)
        /\ (version[p] # 0 => version'[p] # 0)
    BY <2>2, GoneAssumption DEF TypeOK, Versions, TypeInv
  <2>4. \A t \in Threads :
          \/ Adds(stream'[t], p) = Adds(stream[t], p)
          \/ /\ e.type = "ADDED" /\ p = p0 /\ phase[t] = "watching"
             /\ Adds(stream'[t], p) = Adds(stream[t], p) \cup {Len(stream[t]) + 1}
    <3>1. ASSUME NEW t \in Threads
          PROVE  Adds(Append(stream[t], e), p) =
                   IF e.type = "ADDED" /\ e.pod = p
                   THEN Adds(stream[t], p) \cup {Len(stream[t]) + 1} ELSE Adds(stream[t], p)
      <4>1. stream[t] \in Seq(Events)
        BY <1>1
      <4> QED
        BY <4>1, AddsAppended
    <3> QED
      BY <2>2, <3>1
  <2>5. \A t \in Threads : AddedOnce(t, p)'
    BY <1>1, <2>2, <2>3, <2>4 DEF AddedOnce
  <2>6. Spent(p) \subseteq Spent(p)'
    BY <1>3, <1>4, <2>2, <2>3, <2>4 DEF ClusterStep, Spent, MayAdd
  <2>7. UNCHANGED << pods, connections, queue >>
    BY <1>4 DEF ClusterStep
  <2>8. Bound(p)'
    BY <1>1, <1>2, <2>6, <2>7, BoundKept DEF TrackedRows
  <2> QED
    BY <2>5, <2>8
<1>5. CASE BtnRefreshPodsClick
  <2>1. UNCHANGED << version, connections, watches, phase, stream, queue >>
        /\ (pods' = pods \/ TrackedRows(p)' = {})
    <3>1. ASSUME pods' = [i \in DOMAIN LivePods |->
              [pod |-> LivePods[i], version |-> version[LivePods[i]], tracked |-> FALSE]]
          PROVE  TrackedRows(p)' = {}
      BY <3>1 DEF TrackedRows, IsRowOf
    <3> QED
      BY <1>5, <3>1 DEF BtnRefreshPodsClick
  <2>2. TrackedRows(p)' = TrackedRows(p) \/ TrackedRows(p)' = {}
    BY <2>1 DEF TrackedRows
  <2>3. Cardinality(TrackedRows(p)') <= Cardinality(TrackedRows(p))
    BY <1>2, <2>2, FS_EmptySet
  <2>4. Spent(p)' = Spent(p) /\ Adds(queue, p)' = Adds(queue, p) /\ connections' = connections
        /\ \A t \in Threads : AddedOnce(t, p)'
    BY <1>1, <2>1 DEF Spent, MayAdd, AddedOnce
  <2>5. Cardinality(TrackedRows(p)') \in Nat
    BY <1>2, <2>2, FS_EmptySet
  <2> QED
    BY <1>1, <1>2, <2>3, <2>4, <2>5, BoundKept
<1>6. CASE WatchPods
  <2>1. UNCHANGED << version, pods, stream, queue >> /\ connections' = connections + 1
        /\ watches' = watches + 1 /\ phase' = [phase EXCEPT ![watches + 1] = "starting"]
    BY <1>6 DEF WatchPods
  <2>2. \A t \in 1 .. watches : t \in 1 .. watches' /\ phase'[t] = phase[t]
    BY <1>1, <1>3, <2>1 DEF TypeOK
  <2>3. Spent(p) \subseteq Spent(p)'
    BY <2>1, <2>2 DEF Spent, MayAdd
  <2>4. TrackedRows(p)' = TrackedRows(p) /\ Adds(queue, p)' = Adds(queue, p)
        /\ \A t \in Threads : AddedOnce(t, p)'
    BY <1>1, <2>1 DEF TrackedRows, AddedOnce
  <2> QED
    BY <1>1, <1>2, <2>1, <2>3, <2>4, BoundKept
<1>7. CASE StopWatch
  <2>1. UNCHANGED << version, pods, stream, queue, connections, watches >>
        /\ \A t \in Threads : phase'[t] = phase[t] \/ phase'[t] = "dead"
    BY <1>7 DEF StopWatch, TypeOK, TypeInv
  <2>2. Spent(p) \subseteq Spent(p)'
    BY <1>3, <2>1 DEF Spent, MayAdd
  <2>3. TrackedRows(p)' = TrackedRows(p) /\ Adds(queue, p)' = Adds(queue, p)
        /\ \A t \in Threads : AddedOnce(t, p)'
    BY <1>1, <2>1 DEF TrackedRows, AddedOnce
  <2> QED
    BY <1>1, <1>2, <2>1, <2>2, <2>3, BoundKept
<1>8. ASSUME NEW t \in Threads, ThreadStarts(t)
      PROVE  Bound(p)' /\ \A u \in Threads : AddedOnce(u, p)'
  <2> DEFINE listed == [i \in DOMAIN LivePods |->
                [type |-> "ADDED", pod |-> LivePods[i], version |-> version[LivePods[i]]]]
  <2>1. /\ phase[t] = "starting" /\ phase \in [Threads -> {"none", "starting", "watching", "dead"}]
        /\ UNCHANGED << version, pods, connections, watches, queue >>
        /\ \/ /\ stream' = [stream EXCEPT ![t] = listed]
           \/ stream' = stream
        /\ \A u \in Threads : u # t => phase'[u] = phase[u] /\ stream'[u] = stream[u]
    BY <1>8 DEF ThreadStarts, TypeInv, TypeOK
  <2>2. (\A i, j \in Adds(listed, p) : i = j) /\ (version[p] = 0 => Adds(listed, p) = {})
    <3>1. \A i \in Adds(listed, p) : i \in DOMAIN LivePods /\ LivePods[i] = p
      BY DEF Adds
    <3>2. \A i, j \in Adds(listed, p) : i = j
      BY <3>1, LivePodsListed
    <3> QED
      BY <1>1, <3>1, <3>2, Listed
  <2> HIDE DEF listed
  <2>3. \A u \in Threads : stream'[u] = stream[u] \/ stream'[u] = listed
    BY <1>1, <2>1 DEF TypeOK
  <2>4. \A u \in Threads : AddedOnce(u, p)'
    BY <1>1, <2>1, <2>2, <2>3 DEF AddedOnce
  <2>5. Spent(p) \subseteq Spent(p)'
    BY <1>3, <2>1 DEF Spent, MayAdd
  <2>6. TrackedRows(p)' = TrackedRows(p) /\ Adds(queue, p)' = Adds(queue, p)
    BY <2>1 DEF TrackedRows
  <2> QED
    BY <1>1, <1>2, <2>1, <2>4, <2>5, <2>6, BoundKept
<1>9. ASSUME NEW t \in Threads, OnPodEventReceived(t)
      PROVE  Bound(p)' /\ \A u \in Threads : AddedOnce(u, p)'
  <2> DEFINE e     == Head(stream[t])
             adds  == e.type = "ADDED" /\ e.pod = p
             bound == connections * Cardinality(Spent(p))
  <2>1. /\ stream[t] \in Seq(Events) /\ stream[t] # << >> /\ phase[t] = "watching"
        /\ queue \in Seq(Events)
    BY <1>1, <1>9 DEF OnPodEventReceived, TypeOK
  <2>2. e \in Events /\ Len(stream[t]) \in Nat \ {0} /\ e = stream[t][1]
        /\ DOMAIN stream[t] = 1 .. Len(stream[t])
        /\ DOMAIN Tail(stream[t]) = 1 .. Len(stream[t]) - 1
        /\ \A i \in 1 .. Len(stream[t]) - 1 : Tail(stream[t])[i] = stream[t][i + 1]
    BY <2>1, Taken DEF TypeInv
  <2>3. /\ queue' = queue \o Posted(e) /\ stream' = [stream EXCEPT ![t] = Tail(stream[t])]
        /\ UNCHANGED << version, pods, connections, watches, phase >>
    BY <1>9 DEF OnPodEventReceived
  <2> HIDE DEF e
  <2>4. \A i \in Adds(Tail(stream[t]), p) : i \in Nat /\ i + 1 \in Adds(stream[t], p)
    BY <2>2 DEF Adds
  <2>5. adds => 1 \in Adds(stream[t], p) /\ version[p] # 0
    BY <1>1, <2>2 DEF Adds, AddedOnce
  <2>6. /\ \A i, j \in Adds(Tail(stream[t]), p) : i = j
        /\ version[p] = 0 => Adds(Tail(stream[t]), p) = {}
        /\ adds => Adds(Tail(stream[t]), p) = {}
    <3>1. ASSUME NEW i \in Adds(Tail(stream[t]), p), NEW j \in Adds(Tail(stream[t]), p)
          PROVE  i = j
      <4>1. i \in Nat /\ j \in Nat /\ i + 1 = j + 1
        BY <1>1, <2>4 DEF AddedOnce
      <4> QED
        BY <4>1
    <3>2. ASSUME version[p] = 0, NEW i \in Adds(Tail(stream[t]), p)
          PROVE  FALSE
      BY <1>1, <2>4, <3>2 DEF AddedOnce
    <3>3. ASSUME adds, NEW i \in Adds(Tail(stream[t]), p)
          PROVE  FALSE
      <4>3. i \in Nat /\ i + 1 \in Adds(stream[t], p) /\ 1 \in Adds(stream[t], p)
        BY <2>4, <2>5, <3>3
      <4>1. i \in Nat /\ i + 1 = 1
        BY <1>1, <4>3, Zenon DEF AddedOnce
      <4>2. i = 0 /\ i \in 1 .. Len(stream[t]) - 1
        BY <2>2, <4>1 DEF Adds
      <4> QED
        BY <2>2, <4>2
    <3> QED
      BY <3>1, <3>2, <3>3
  <2>7. \A u \in Threads : AddedOnce(u, p)'
    <3>1. \A u \in Threads : stream'[u] = IF u = t THEN Tail(stream[t]) ELSE stream[u]
      BY <2>3 DEF TypeInv, TypeOK
    <3> QED
      BY <1>1, <2>3, <2>6, <3>1 DEF AddedOnce
  <2>8. Spent(p) \subseteq Spent(p)' /\ (adds => t \notin Spent(p) /\ t \in Spent(p)')
    <3>1. \A u \in Threads : stream'[u] = IF u = t THEN Tail(stream[t]) ELSE stream[u]
      BY <2>3 DEF TypeInv, TypeOK
    <3>2. \A u \in Spent(p) : u # t => u \in Spent(p)'
      BY <1>3, <2>3, <3>1 DEF Spent, MayAdd
    <3>3. t \in Spent(p) => version[p] # 0 /\ Adds(stream[t], p) = {}
      BY <2>1 DEF Spent, MayAdd
    <3>4. version[p] # 0 /\ Adds(Tail(stream[t]), p) = {} => t \in Spent(p)'
      BY <1>3, <2>1, <2>3, <3>1 DEF Spent, MayAdd
    <3>5. Adds(stream[t], p) = {} => Adds(Tail(stream[t]), p) = {}
      BY <2>4
    <3> QED
      BY <2>5, <2>6, <3>2, <3>3, <3>4, <3>5
  <2>9. Cardinality(Adds(queue', p)) <=
          Cardinality(Adds(queue, p)) + (IF adds THEN connections ELSE 0)
    BY <1>1, <2>1, <2>2, <2>3, AddsPosted
  <2>10. TrackedRows(p)' = TrackedRows(p) /\ connections' = connections
         /\ Adds(queue, p)' = Adds(queue', p)
    BY <2>3 DEF TrackedRows
  <2>11. /\ Len(queue') \in Nat /\ Adds(queue', p) \subseteq 1 .. Len(queue')
         /\ Spent(p)' \subseteq 1 .. watches' /\ watches' = watches
    BY <1>1, <2>3, LenProperties DEF TypeOK, Adds, Spent
  <2>12. Cardinality(Adds(queue', p)) \in Nat
         /\ IsFiniteSet(Spent(p)') /\ Cardinality(Spent(p)') \in Nat
    BY <1>1, <2>11, CountedUpTo
  <2>13. CASE ~adds
    BY <1>1, <1>2, <2>7, <2>8, <2>9, <2>10, <2>12, <2>13, BoundKept
  <2>14. CASE adds
    <3>1. IsFiniteSet(Spent(p) \cup {t})
          /\ Cardinality(Spent(p) \cup {t}) = Cardinality(Spent(p)) + 1
      BY <1>2, <2>8, <2>14, FS_AddElement
    <3>2. Cardinality(Spent(p)) + 1 <= Cardinality(Spent(p)')
      BY <2>8, <2>12, <2>14, <3>1, FS_Subset
    <3>3. connections * (Cardinality(Spent(p)) + 1) = bound + connections /\ bound \in Nat
      BY <1>1, <1>2
    <3>4. connections * (Cardinality(Spent(p)) + 1) <= connections * Cardinality(Spent(p)')
      <4>1. connections \in Nat /\ Cardinality(Spent(p)) + 1 \in Nat
            /\ Cardinality(Spent(p)') \in Nat /\ connections <= connections
        BY <1>1, <1>2, <2>12
      <4> QED
        BY <3>2, <4>1, Products
    <3>5. connections * Cardinality(Spent(p)') \in Nat
      BY <1>1, <2>12
    <3>6. Cardinality(TrackedRows(p)) + Cardinality(Adds(queue, p)) <= bound
      BY <1>1 DEF Bound
    <3>7. Cardinality(TrackedRows(p)) + Cardinality(Adds(queue', p))
            <= connections * Cardinality(Spent(p)')
      <4> HIDE DEF bound, adds
      <4> QED
        BY <1>1, <1>2, <2>9, <2>12, <2>14, <3>3, <3>4, <3>5, <3>6
    <3> QED
      BY <2>7, <2>10, <3>7 DEF Bound
  <2> QED
    BY <2>13, <2>14
<1>10. ASSUME NEW t \in Threads, ThreadEnds(t)
      PROVE  Bound(p)' /\ \A u \in Threads : AddedOnce(u, p)'
  <2>1. /\ UNCHANGED << version, pods, connections, watches, queue >>
        /\ \A u \in Threads : \/ phase'[u] = phase[u] /\ stream'[u] = stream[u]
                              \/ phase'[u] = "dead" /\ stream'[u] = << >>
    BY <1>10 DEF ThreadEnds, TypeInv, TypeOK
  <2>2. \A u \in Threads : AddedOnce(u, p)'
    BY <1>1, <2>1 DEF AddedOnce, Adds
  <2>3. Spent(p) \subseteq Spent(p)'
    BY <1>3, <2>1 DEF Spent, MayAdd
  <2>4. TrackedRows(p)' = TrackedRows(p) /\ Adds(queue, p)' = Adds(queue, p)
    BY <2>1 DEF TrackedRows
  <2> QED
    BY <1>1, <1>2, <2>1, <2>2, <2>3, <2>4, BoundKept
<1>11. CASE GuiEvent
  <2> DEFINE e == Head(queue)
  <2>1. /\ queue \in Seq(Events) /\ queue # << >> /\ queue' = Tail(queue)
        /\ PodAdded \/ PodModified \/ PodRemoved
        /\ UNCHANGED << version, watches, connections, phase, stream >>
    BY <1>1, <1>11 DEF GuiEvent, TypeOK
  <2>2. e \in Events
    BY <2>1, Taken DEF TypeInv
  <2>3. /\ Cardinality(Adds(queue', p)) \in Nat
        /\ Cardinality(Adds(queue', p)) <= Cardinality(Adds(queue, p))
        /\ e.type = "ADDED" /\ e.pod = p =>
             Cardinality(Adds(queue', p)) + 1 <= Cardinality(Adds(queue, p))
    BY <2>1, AddsTaken
  <2>4. /\ Cardinality(TrackedRows(p)') \in Nat
        /\ Cardinality(TrackedRows(p)') <=
             Cardinality(TrackedRows(p)) + (IF e.type = "ADDED" /\ e.pod = p THEN 1 ELSE 0)
    <3>1. CASE PodAdded
      <4>1. e.type = "ADDED" /\ TrackedRows(p)' = IF e.pod = p
              THEN TrackedRows(p) \cup {Len(pods) + 1} ELSE TrackedRows(p)
        BY <1>1, <2>2, <3>1, AddedRows DEF PodAdded
      <4>2. Cardinality(TrackedRows(p) \cup {Len(pods) + 1}) \in
              {Cardinality(TrackedRows(p)), Cardinality(TrackedRows(p)) + 1}
        BY <1>2, FS_AddElement
      <4> QED
        BY <1>2, <4>1, <4>2
    <3>2. CASE PodModified
      <4>1. TrackedRows(p)' = TrackedRows(p)
        BY <2>2, <3>2, ModifiedRows DEF PodModified
      <4> QED
        BY <1>2, <4>1
    <3>3. CASE PodRemoved
      <4>1. CASE p = e.pod
        <5>1. TrackedRows(p)' = {}
          BY <1>1, <2>2, <3>3, <4>1, RemovedRows DEF PodRemoved
        <5> QED
          BY <1>2, <5>1, FS_EmptySet
      <4>2. CASE p # e.pod
        <5>1. \E f : f \in Injection(TrackedRows(p)', TrackedRows(p))
          BY <1>1, <2>2, <3>3, <4>2, RemovedRows DEF PodRemoved, Bijection
        <5>2. IsFiniteSet(TrackedRows(p)')
              /\ Cardinality(TrackedRows(p)') <= Cardinality(TrackedRows(p))
          BY <1>2, <5>1, FS_Injection
        <5>3. Cardinality(TrackedRows(p)') \in Nat
          BY <5>2, FS_CardinalityType
        <5> QED
          BY <1>2, <5>2, <5>3
      <4> QED
        BY <4>1, <4>2
    <3> QED
      BY <2>1, <3>1, <3>2, <3>3
  <2>5. /\ Spent(p)' = Spent(p) /\ Adds(queue, p)' = Adds(queue', p)
        /\ connections' = connections /\ \A t \in Threads : AddedOnce(t, p)'
    BY <1>1, <2>1 DEF Spent, MayAdd, AddedOnce
  <2> HIDE DEF e
  <2>6. Cardinality(TrackedRows(p))' + Cardinality(Adds(queue, p))'
          <= Cardinality(TrackedRows(p)) + Cardinality(Adds(queue, p))
    BY <1>2, <2>3, <2>4, <2>5
  <2> QED
    BY <1>1, <2>5, <2>6, BoundKept
<1>12. CASE UNCHANGED vars
  <2>1. TrackedRows(p)' = TrackedRows(p) /\ Adds(queue, p)' = Adds(queue, p)
        /\ Spent(p)' = Spent(p) /\ connections' = connections
        /\ \A t \in Threads : AddedOnce(t, p)'
    BY <1>1, <1>12 DEF vars, TrackedRows, Spent, MayAdd, AddedOnce
  <2> QED
    BY <1>1, <1>2, <2>1, BoundKept
<1> QED
  BY <1>1, <1>4, <1>5, <1>6, <1>7, <1>8, <1>9, <1>10, <1>11, <1>12, ClusterSteps DEF Next

-----------------------------------------------------------------------------
LEMMA RefreshInit == Init => RefreshInv
BY DEF Init, RefreshInv, RefreshRows

LEMMA RefreshNext == TypeInv /\ RefreshInv /\ [Next]_vars => RefreshInv'
<1> SUFFICES ASSUME TypeInv, RefreshInv, [Next]_vars, NEW p \in Pods
             PROVE  \A i, j \in RefreshRows(p)' : i = j
  BY DEF RefreshInv
<1>1. TypeOK /\ \A i, j \in RefreshRows(p) : i = j
  BY DEF TypeInv, RefreshInv
<1>2. CASE pods' = pods
  BY <1>1, <1>2 DEF RefreshRows
<1>3. CASE BtnRefreshPodsClick
  <2>1. CASE pods' = [i \in DOMAIN LivePods |->
              [pod |-> LivePods[i], version |-> version[LivePods[i]], tracked |-> FALSE]]
    <3>1. \A i \in RefreshRows(p)' : i \in DOMAIN LivePods /\ LivePods[i] = p
      BY <2>1 DEF RefreshRows
    <3> QED
      BY <3>1, LivePodsListed
  <2> QED
    BY <1>2, <1>3, <2>1 DEF BtnRefreshPodsClick
<1>4. CASE GuiEvent
  <2> DEFINE e == Head(queue)
  <2>1. (PodAdded \/ PodModified \/ PodRemoved) /\ RowFor(e).tracked
    BY <1>4 DEF GuiEvent, RowFor
  <2>2. Len(pods) \in Nat /\ DOMAIN pods = 1 .. Len(pods)
    BY <1>1, LenProperties DEF TypeOK
  <2>3. CASE PodAdded
    <3>1. /\ DOMAIN pods' = 1 .. Len(pods) + 1
          /\ \A i \in 1 .. Len(pods) : pods'[i] = pods[i]
          /\ pods'[Len(pods) + 1] = RowFor(e)
      BY <1>1, <2>2, <2>3 DEF PodAdded, TypeOK
    <3>2. \A i \in 1 .. Len(pods) + 1 : i \in 1 .. Len(pods) \/ i = Len(pods) + 1
      BY <2>2
    <3>3. RefreshRows(p)' \subseteq RefreshRows(p)
      BY <2>1, <2>2, <3>1, <3>2 DEF RefreshRows
    <3> QED
      BY <1>1, <3>3
  <2>4. CASE PodModified
    <3>1. pods' = [i \in DOMAIN pods |-> IF IsRowOf(pods[i], e.pod) THEN RowFor(e) ELSE pods[i]]
      BY <2>4 DEF PodModified
    <3>2. RefreshRows(p)' \subseteq RefreshRows(p)
      BY <2>1, <3>1 DEF RefreshRows
    <3> QED
      BY <1>1, <3>2
  <2>5. CASE PodRemoved
    <3> DEFINE S == {i \in DOMAIN pods : ~IsRowOf(pods[i], e.pod)}
    <3>1. pods' = RowsAt(S) /\ S \in SUBSET (DOMAIN pods)
      BY <2>5 DEF PodRemoved
    <3> HIDE DEF S
    <3>2. /\ \A k \in DOMAIN pods' : Nth(S, k) \in S /\ pods'[k] = pods[Nth(S, k)]
          /\ \A j, k \in DOMAIN pods' : Nth(S, j) = Nth(S, k) => j = k
      BY <1>1, <3>1, Kept
    <3>3. \A k \in RefreshRows(p)' : k \in DOMAIN pods' /\ Nth(S, k) \in RefreshRows(p)
      BY <3>1, <3>2 DEF RefreshRows
    <3> QED
      BY <1>1, <3>2, <3>3
  <2> QED
    BY <2>1, <2>3, <2>4, <2>5
<1>5. \/ pods' = pods \/ BtnRefreshPodsClick \/ GuiEvent
  BY DEF Next, Cluster, WatchPods, StopWatch, BtnDelete, ThreadStarts,
         OnPodEventReceived, ThreadEnds, vars
<1> QED
  BY <1>2, <1>3, <1>4, <1>5

\* However often the watch is stopped and started and the table refreshed, a
\* pod is listed at most once per thread and connection, and once more by the
\* last refresh.
THEOREM Bounded == Spec => []ListedBounded
<1>1. TypeInv /\ CountInv /\ RefreshInv => ListedBounded
  <2> SUFFICES ASSUME TypeInv, CountInv, RefreshInv, NEW p \in Pods
               PROVE  Cardinality(RowsOfPod(p)) <= watches * connections + 1
    BY DEF ListedBounded
  <2>1. TypeOK /\ Bound(p) /\ connections = watches /\ watches \in Nat
    BY WatchesAssumption DEF TypeInv, TypeOK, CountInv
  <2>2. /\ Cardinality(TrackedRows(p)) \in Nat /\ Cardinality(Adds(queue, p)) \in Nat
        /\ Cardinality(Spent(p)) \in 0 .. watches
        /\ IsFiniteSet(TrackedRows(p))
    BY <2>1, CountsAreNumbers
  <2>3. connections * Cardinality(Spent(p)) \in Nat /\ watches * connections \in Nat
        /\ connections * Cardinality(Spent(p)) <= watches * connections
    BY <2>1, <2>2, Products
  <2>4. Cardinality(TrackedRows(p)) <= watches * connections
    BY <2>1, <2>2, <2>3 DEF Bound
  <2>5. RowsOfPod(p) = TrackedRows(p) \cup RefreshRows(p)
    BY DEF RowsOfPod, TrackedRows, RefreshRows, IsRowOf
  <2>6. Cardinality(RowsOfPod(p)) \in {Cardinality(TrackedRows(p)), Cardinality(TrackedRows(p)) + 1}
    <3>1. CASE RefreshRows(p) = {}
      BY <2>5, <3>1
    <3>2. ASSUME NEW i \in RefreshRows(p)
          PROVE  Cardinality(RowsOfPod(p)) \in
                   {Cardinality(TrackedRows(p)), Cardinality(TrackedRows(p)) + 1}
      <4>1. RefreshRows(p) = {i}
        BY <3>2 DEF RefreshInv
      <4> QED
        BY <2>2, <2>5, <4>1, FS_AddElement
    <3> QED
      BY <3>1, <3>2
  <2> QED
    BY <2>2, <2>3, <2>4, <2>6
<1> QED
  BY <1>1, TypeInit, TypeNext, CountInit, CountNext, RefreshInit, RefreshNext, PTL DEF Spec

-----------------------------------------------------------------------------
(***************************************************************************)
(* A single watch.                                                         *)
(***************************************************************************)
\* The versions in a pod's rows are versions that a pod can have.
LEMMA ListedVersions ==
  ASSUME TypeOK, NEW p
  PROVE  /\ \A v \in ListedAs(p) : v \in Versions \ {0, Gone}
         /\ TrackedRows(p) = {} <=> ListedAs(p) = {}
<1>1. \A i \in TrackedRows(p) : pods[i] \in Rows
  BY LenProperties, ElementOfSeq DEF TypeOK, TrackedRows
<1> QED
  BY <1>1 DEF ListedAs, Rows

\* What is shown of a pod is what it is listed as.
ShownIs(p) == /\ \A v \in ListedAs(p) : Shown[p] = v
              /\ ListedAs(p) = {} => Shown[p] = IF p \in removed THEN Gone ELSE 0

LEMMA ShownIsListed == (\A p \in Pods : RowOK(p)) => \A p \in Pods : ShownIs(p)
<1> SUFFICES ASSUME NEW p \in Pods, RowOK(p)
             PROVE  ShownIs(p)
  OBVIOUS
<1>1. CASE TrackedRows(p) = {}
  BY <1>1 DEF ListedAs, Shown, ShownIs
<1>2. CASE TrackedRows(p) # {}
  <2>1. (CHOOSE i \in TrackedRows(p) : TRUE) \in TrackedRows(p)
    BY <1>2
  <2>2. Shown[p] \in ListedAs(p)
    BY <1>2, <2>1 DEF Shown, ListedAs
  <2> QED
    BY <2>2 DEF ShownIs, RowOK
<1> QED
  BY <1>1, <1>2

\* The events on their way, first those that are queued.
LEMMA OnTheWay ==
  ASSUME NEW s \in Seq(Events), NEW t \in Seq(Events)
  PROVE  /\ s \o t \in Seq(Events)
         /\ Len(s) \in Nat /\ DOMAIN s = 1 .. Len(s)
         /\ Len(t) \in Nat /\ DOMAIN t = 1 .. Len(t)
         /\ DOMAIN (s \o t) = 1 .. Len(s) + Len(t)
         /\ \A i \in 1 .. Len(s) + Len(t) :
              (s \o t)[i] = IF i <= Len(s) THEN s[i] ELSE t[i - Len(s)]
BY ConcatProperties, LenProperties

LEMMA AppendedOnTheWay ==
  ASSUME NEW s \in Seq(Events), NEW t \in Seq(Events), NEW e \in Events
  PROVE  s \o Append(t, e) = Append(s \o t, e)
<1>1. Append(t, e) \in Seq(Events) /\ s \o t \in Seq(Events) /\ << e >> \in Seq(Events)
      /\ Append(t, e) = t \o << e >> /\ Append(s \o t, e) = (s \o t) \o << e >>
  BY AppendIsConcat, AppendProperties, ConcatProperties
<1> QED
  BY <1>1, ConcatAssociative

\* With one connection a signal moves an event from one to the other.
LEMMA MovedOnTheWay ==
  ASSUME NEW s \in Seq(Events), NEW t \in Seq(Events), t # << >>, connections = 1
  PROVE  (s \o Posted(Head(t))) \o Tail(t) = s \o t
<1>1. Head(t) \in Events /\ Tail(t) \in Seq(Events)
  BY HeadTailProperties
<1>2. Posted(Head(t)) = << Head(t) >>
  BY DEF Posted
<1>3. << Head(t) >> \in Seq(Events) /\ << Head(t) >> \o Tail(t) = t
  BY <1>1
<1>4. (s \o << Head(t) >>) \o Tail(t) = s \o (<< Head(t) >> \o Tail(t))
  BY <1>1, <1>3, ConcatAssociative
<1> QED
  BY <1>2, <1>3, <1>4

LEMMA HandledOnTheWay ==
  ASSUME NEW s \in Seq(Events), NEW t \in Seq(Events), s # << >>
  PROVE  Tail(s) \o t = Tail(s \o t) /\ Head(s \o t) = Head(s) /\ s \o t # << >>
<1>1. /\ Head(s) \in Events /\ Tail(s) \in Seq(Events)
      /\ << Head(s) >> \in Seq(Events) /\ s = << Head(s) >> \o Tail(s)
  BY HeadTailProperties
<1>2. s \o t = << Head(s) >> \o (Tail(s) \o t)
  BY <1>1, ConcatAssociative
<1>3. Tail(s) \o t \in Seq(Events)
  BY <1>1, ConcatProperties
<1> QED
  BY <1>1, <1>2, <1>3

\* What a slot makes of what the table lists.
LEMMA SlotLists ==
  ASSUME TypeOK, NEW e \in Events, e = Head(queue), NEW p,
         PodAdded \/ PodModified \/ PodRemoved
  PROVE  /\ p # e.pod => ListedAs(p)' = ListedAs(p)
         /\ e.type = "ADDED" => ListedAs(e.pod)' = ListedAs(e.pod) \cup {e.version}
         /\ e.type = "MODIFIED" => ListedAs(e.pod)' =
              IF ListedAs(e.pod) = {} THEN {} ELSE {e.version}
         /\ e.type = "DELETED" => ListedAs(e.pod)' = {}
         /\ removed' = IF e.type = "DELETED" THEN removed \cup {e.pod} ELSE removed
<1>1. RowFor(e).version = e.version
  BY DEF RowFor
<1>2. CASE PodAdded
  <2>1. e.type = "ADDED" /\ removed' = removed /\ pods' = Append(pods, RowFor(e))
    BY <1>2 DEF PodAdded
  <2>2. ASSUME NEW q
        PROVE  /\ Len(pods) \in Nat /\ Len(pods) + 1 \notin TrackedRows(q)
               /\ TrackedRows(q)' = IF e.pod = q THEN TrackedRows(q) \cup {Len(pods) + 1}
                                                 ELSE TrackedRows(q)
               /\ \A i \in TrackedRows(q) : pods'[i] = pods[i]
               /\ pods'[Len(pods) + 1] = RowFor(e)
    BY <2>1, AddedRows
  <2>3. p # e.pod => ListedAs(p)' = ListedAs(p)
    BY <2>2 DEF ListedAs
  <2>4. ListedAs(e.pod)' = ListedAs(e.pod) \cup {e.version}
    <3>1. TrackedRows(e.pod)' = TrackedRows(e.pod) \cup {Len(pods) + 1}
          /\ pods'[Len(pods) + 1].version = e.version
          /\ \A i \in TrackedRows(e.pod) : pods'[i] = pods[i]
      BY <1>1, <2>2
    <3> QED
      BY <3>1 DEF ListedAs
  <2> QED
    BY <2>1, <2>3, <2>4
<1>3. CASE PodModified
  <2>1. e.type = "MODIFIED" /\ removed' = removed
        /\ pods' = [i \in DOMAIN pods |->
             IF IsRowOf(pods[i], e.pod) THEN RowFor(e) ELSE pods[i]]
    BY <1>3 DEF PodModified
  <2>2. ASSUME NEW q
        PROVE  /\ TrackedRows(q)' = TrackedRows(q)
               /\ \A i \in TrackedRows(q) : pods'[i] = IF q = e.pod THEN RowFor(e) ELSE pods[i]
    BY <2>1, ModifiedRows
  <2>3. p # e.pod => ListedAs(p)' = ListedAs(p)
    BY <2>2 DEF ListedAs
  <2>4. ListedAs(e.pod)' = IF ListedAs(e.pod) = {} THEN {} ELSE {e.version}
    <3>1. TrackedRows(e.pod)' = TrackedRows(e.pod)
          /\ \A i \in TrackedRows(e.pod) : pods'[i].version = e.version
      BY <1>1, <2>2
    <3>2. CASE TrackedRows(e.pod) = {}
      BY <3>1, <3>2 DEF ListedAs
    <3>3. CASE TrackedRows(e.pod) # {}
      <4>1. ListedAs(e.pod)' = {pods'[i].version : i \in TrackedRows(e.pod)}
        BY <3>1 DEF ListedAs
      <4>2. ListedAs(e.pod)' = {e.version}
        BY <3>1, <3>3, <4>1
      <4>3. ListedAs(e.pod) # {}
        BY <3>3 DEF ListedAs
      <4> QED
        BY <4>2, <4>3
    <3> QED
      BY <3>2, <3>3
  <2> QED
    BY <2>1, <2>3, <2>4
<1>4. CASE PodRemoved
  <2>1. e.type = "DELETED" /\ removed' = removed \cup {e.pod}
        /\ pods' = RowsAt({i \in DOMAIN pods : ~IsRowOf(pods[i], e.pod)})
    BY <1>4 DEF PodRemoved
  <2>2. ListedAs(e.pod)' = {}
    BY <2>1, RemovedRows DEF ListedAs
  <2>3. ASSUME p # e.pod
        PROVE  ListedAs(p)' = ListedAs(p)
    <3>1. PICK f \in Bijection(TrackedRows(p)', TrackedRows(p)) :
                \A k \in TrackedRows(p)' : pods'[k] = pods[f[k]]
      BY <2>1, <2>3, RemovedRows
    <3>2. /\ \A k \in TrackedRows(p)' : f[k] \in TrackedRows(p)
          /\ \A i \in TrackedRows(p) : \E k \in TrackedRows(p)' : f[k] = i
      BY DEF Bijection, Injection, Surjection
    <3> QED
      BY <3>1, <3>2 DEF ListedAs
  <2> QED
    BY <2>1, <2>2, <2>3
<1> QED
  BY <1>2, <1>3, <1>4

LEMMA OneWatchInit == MaxWatches = 1 /\ Init => OneWatchInv
<1> SUFFICES ASSUME MaxWatches = 1, Init PROVE OneWatchInv
  OBVIOUS
<1>1. Pending = << >> /\ phase[1] = "none"
  BY DEF Init, Pending, Threads
<1>2. \A p \in Pods : ListedAs(p) = {} /\ TrackedRows(p) = {}
  BY DEF Init, ListedAs, TrackedRows
<1>3. Quiet /\ \A p \in Pods : RowOK(p)
  BY <1>2 DEF Init, Quiet, RowOK
<1> QED
  BY <1>1, <1>3 DEF OneWatchInv, Ordered

LEMMA OneWatchNext ==
  ASSUME MaxWatches = 1, ~RefreshWhileWatching, TypeInv, TypeInv', OneWatchInv, [Next]_vars
  PROVE  OneWatchInv'
<1>1. /\ TypeOK /\ TypeOK' /\ queue \in Seq(Events) /\ stream[1] \in Seq(Events)
      /\ 1 \in Threads /\ Threads = {1} /\ Gone \in Nat /\ Gone > 1
      /\ phase[1] \in {"none", "starting", "watching", "dead"}
      /\ phase[1] # "watching" => stream[1] = << >>
  BY GoneAssumption DEF TypeInv, TypeOK, Threads
<1>2. Ordered(Pending) /\ (\A i \in DOMAIN Pending : Fresh(Pending[i]))
      /\ (\A p \in Pods : RowOK(p))
      /\ (phase[1] \in {"none", "starting"} => Quiet)
  BY DEF OneWatchInv
<1>3. Pending \in Seq(Events) /\ \A i \in DOMAIN Pending : Pending[i] \in Events
  BY <1>1, OnTheWay, LenProperties, ElementOfSeq DEF Pending
<1>4. \A p \in Pods : version[p] \in Nat /\ \A v \in ListedAs(p) : v \in Nat /\ v # 0
  BY <1>1, ListedVersions DEF TypeOK, Versions
<1>5. \A e \in Events : e.pod \in Pods /\ e.version \in Nat /\ e.version # 0
                        /\ e.version <= Gone
  BY <1>1 DEF Events, Versions
\* What the table lists and has removed stays, and so do the versions.
<1>6. ASSUME UNCHANGED << version, pods, removed >>
      PROVE  /\ \A p : ListedAs(p)' = ListedAs(p)
             /\ \A e \in Events : Fresh(e)' <=> Fresh(e)
             /\ \A p : RowOK(p)' <=> RowOK(p)
  <2>1. \A p : ListedAs(p)' = ListedAs(p)
    BY <1>6 DEF ListedAs, TrackedRows
  <2> QED
    BY <1>6, <2>1 DEF Fresh, RowOK
<1>7. CASE ClusterStep
  <2>1. PICK p0 \in Pods, v0 \in Versions : ClusterChanges(p0, v0)
    BY <1>7 DEF ClusterStep
  <2>2. PICK e \in Events :
           /\ e.pod = p0 /\ e.version = v0
           /\ e.type = "ADDED" => version[p0] = 0
           /\ version[p0] < v0 /\ version[p0] \in Nat
           /\ version' = [version EXCEPT ![p0] = v0]
           /\ stream' = [t \in Threads |-> IF phase[t] = "watching"
                                           THEN Append(stream[t], e) ELSE stream[t]]
    BY <1>1, <2>1, Sent
  <2>3. UNCHANGED << pods, phase, queue, removed >>
    BY <1>7 DEF ClusterStep
  <2>4. /\ \A p : ListedAs(p)' = ListedAs(p)
        /\ v0 \in Nat /\ v0 <= Gone
        /\ \A p \in Pods : version'[p] = IF p = p0 THEN v0 ELSE version[p]
    BY <1>1, <2>2, <2>3 DEF ListedAs, TrackedRows, TypeOK, Versions
  <2>5. ASSUME NEW p \in Pods
        PROVE  RowOK(p)' /\ version[p] <= version'[p]
    <3>1. version[p] \in Nat /\ version'[p] \in Nat /\ version[p] <= version'[p]
          /\ (version[p] = Gone => version'[p] = Gone)
      BY <1>1, <1>4, <2>2, <2>4
    <3>2. ListedAs(p)' = ListedAs(p) /\ RowOK(p)
          /\ \A v \in ListedAs(p) : v \in Nat
      BY <1>2, <1>4, <2>4
    <3>3. \A v \in ListedAs(p) : v <= version'[p]
      BY <3>1, <3>2 DEF RowOK
    <3> QED
      BY <2>3, <3>1, <3>2, <3>3 DEF RowOK
  <2>6. ASSUME NEW f \in Events, Fresh(f)
        PROVE  Fresh(f)'
    <3>1. version[f.pod] \in Nat /\ version'[f.pod] \in Nat /\ version[f.pod] <= version'[f.pod]
      BY <1>4, <1>5, <2>2, <2>4, <2>5
    <3> QED
      BY <1>5, <2>3, <2>4, <2>6, <3>1 DEF Fresh
  <2>7. Quiet => Quiet'
    BY <2>3, <2>4 DEF Quiet
  <2>8. CASE phase[1] # "watching"
    <3>1. Pending' = Pending
      BY <1>1, <2>2, <2>3, <2>8 DEF Pending
    <3> QED
      BY <1>2, <1>3, <2>3, <2>5, <2>6, <2>7, <3>1 DEF OneWatchInv
  <2>9. CASE phase[1] = "watching"
    <3>1. Pending' = Append(Pending, e)
      BY <1>1, <2>2, <2>3, <2>9, AppendedOnTheWay DEF Pending
    <3>2. /\ Len(Pending) \in Nat /\ DOMAIN Pending = 1 .. Len(Pending)
          /\ DOMAIN Pending' = 1 .. Len(Pending) + 1
          /\ \A i \in 1 .. Len(Pending) : Pending'[i] = Pending[i]
          /\ Pending'[Len(Pending) + 1] = e
      BY <1>3, <3>1, AppendProperties, LenProperties
    <3>3. ASSUME NEW i \in DOMAIN Pending, Pending[i].pod = p0
          PROVE  Pending[i].version < e.version /\ e.type # "ADDED"
      <4>1. Fresh(Pending[i]) /\ Pending[i] \in Events
        BY <1>2, <1>3
      <4>2. Pending[i].version <= version[p0] /\ Pending[i].version \in Nat
            /\ Pending[i].version # 0
        BY <1>5, <3>3, <4>1 DEF Fresh
      <4> QED
        BY <2>2, <2>4, <4>2
    <3>4. Fresh(e)'
      <4>1. e.version = version'[e.pod]
        BY <2>2, <2>4
      <4>2. e.pod \notin removed'
        BY <1>1, <1>2, <2>2, <2>3, <2>4 DEF RowOK
      <4>3. \A v \in ListedAs(e.pod) : v <= version[p0] /\ v \in Nat /\ v # 0
        BY <1>2, <1>4, <2>2 DEF RowOK
      <4>4. \A v \in ListedAs(e.pod) : v < e.version /\ e.type # "ADDED"
        BY <2>2, <2>4, <4>3
      <4> QED
        BY <2>2, <2>4, <4>1, <4>2, <4>4 DEF Fresh
    <3>5. Ordered(Pending)'
      <4> SUFFICES ASSUME NEW i \in DOMAIN Pending', NEW j \in DOMAIN Pending',
                          i < j, Pending'[i].pod = Pending'[j].pod
                   PROVE  Pending'[i].version < Pending'[j].version
                          /\ Pending'[j].type # "ADDED"
        BY DEF Ordered
      <4>1. i \in DOMAIN Pending /\ Pending'[i] = Pending[i]
        BY <3>2
      <4>2. j \in DOMAIN Pending \/ j = Len(Pending) + 1
        BY <3>2
      <4> QED
        BY <1>2, <2>2, <3>2, <3>3, <4>1, <4>2 DEF Ordered
    <3>6. \A i \in DOMAIN Pending' : Fresh(Pending[i])'
      <4>1. \A i \in DOMAIN Pending' : i \in DOMAIN Pending \/ i = Len(Pending) + 1
        BY <3>2
      <4> QED
        BY <1>2, <1>3, <2>6, <3>2, <3>4, <4>1
    <3> QED
      BY <2>3, <2>5, <2>9, <3>5, <3>6 DEF OneWatchInv
  <2> QED
    BY <2>8, <2>9
\* Nothing is on its way before the watch starts.
<1>8. ASSUME UNCHANGED << version, queue, removed >>, \A p \in Pods : ListedAs(p)' = {},
             Quiet, stream'[1] = << >>
      PROVE  OneWatchInv'
  <2>1. Pending' = << >>
    BY <1>1, <1>8 DEF Quiet, Pending
  <2>2. Quiet' /\ \A p \in Pods : RowOK(p)'
    BY <1>2, <1>8 DEF Quiet, RowOK
  <2>3. Ordered(Pending)' /\ \A i \in DOMAIN Pending' : Fresh(Pending[i])'
    BY <2>1 DEF Ordered
  <2> QED
    BY <2>2, <2>3 DEF OneWatchInv
<1>9. CASE BtnRefreshPodsClick
  <2>1. watches = 0 /\ phase[1] = "none" /\ Quiet /\ stream[1] = << >>
    BY <1>1, <1>2, <1>9 DEF BtnRefreshPodsClick, TypeInv
  <2>2. UNCHANGED << version, queue, removed, stream >>
    BY <1>9 DEF BtnRefreshPodsClick
  <2>3. \A p \in Pods : ListedAs(p)' = {}
    <3>1. CASE pods' = [i \in DOMAIN LivePods |->
              [pod |-> LivePods[i], version |-> version[LivePods[i]], tracked |-> FALSE]]
      BY <3>1 DEF ListedAs, TrackedRows, IsRowOf
    <3>2. CASE pods' = pods
      BY <2>1, <3>2 DEF ListedAs, TrackedRows, Quiet
    <3> QED
      BY <1>9, <3>1, <3>2 DEF BtnRefreshPodsClick
  <2> QED
    BY <1>8, <2>1, <2>2, <2>3
<1>10. CASE WatchPods
  <2>1. watches = 0 /\ phase[1] = "none" /\ Quiet /\ stream[1] = << >>
    BY <1>1, <1>2, <1>10 DEF WatchPods, TypeInv, TypeOK
  <2>2. UNCHANGED << version, pods, queue, removed, stream >>
    BY <1>10 DEF WatchPods
  <2>3. \A p \in Pods : ListedAs(p)' = {}
    BY <1>6, <2>1, <2>2 DEF Quiet
  <2> QED
    BY <1>8, <2>1, <2>2, <2>3
<1>11. CASE StopWatch
  <2>1. UNCHANGED << version, pods, queue, removed, stream >>
        /\ (phase'[1] \in {"none", "starting"} => phase'[1] = phase[1])
    BY <1>1, <1>11 DEF StopWatch, TypeOK
  <2>2. Pending' = Pending /\ (Quiet => Quiet')
    BY <1>6, <2>1 DEF Pending, Quiet
  <2> QED
    BY <1>2, <1>3, <1>6, <2>1, <2>2 DEF OneWatchInv
<1>12. ASSUME NEW t \in Threads, ThreadStarts(t)
       PROVE  OneWatchInv'
  <2> DEFINE listed == [i \in DOMAIN LivePods |->
                [type |-> "ADDED", pod |-> LivePods[i], version |-> version[LivePods[i]]]]
  <2>1. t = 1 /\ phase[1] = "starting" /\ Quiet /\ stream[1] = << >>
        /\ UNCHANGED << version, pods, queue, removed >>
    BY <1>1, <1>2, <1>12 DEF ThreadStarts
  <2>2. \A p \in Pods : ListedAs(p)' = {}
    BY <1>6, <2>1 DEF Quiet
  <2>3. CASE stream' = stream
    BY <1>8, <2>1, <2>2, <2>3
  <2>4. CASE stream' = [stream EXCEPT ![1] = listed] /\ phase' = [phase EXCEPT ![1] = "watching"]
    <3>1. listed \in Seq(Events) /\ DOMAIN listed = DOMAIN LivePods
          /\ \A i \in DOMAIN listed : /\ listed[i].version = version[listed[i].pod]
                                      /\ listed[i].pod = LivePods[i]
      BY <1>1, Listed
    <3> HIDE DEF listed
    <3>2. stream'[1] = listed /\ phase'[1] = "watching"
      BY <1>1, <2>4 DEF TypeOK
    <3>3. Pending' = listed
      BY <2>1, <3>1, <3>2, ConcatEmptySeq DEF Pending, Quiet
    <3>4. \A i \in DOMAIN listed : listed[i] \in Events
      BY <3>1, LenProperties, ElementOfSeq
    <3>5. Ordered(Pending)'
      <4> SUFFICES ASSUME NEW i \in DOMAIN listed, NEW j \in DOMAIN listed, i < j,
                          listed[i].pod = listed[j].pod
                   PROVE  FALSE
        BY <3>3 DEF Ordered
      <4>1. i = j /\ i \in Nat
        BY <3>1, LivePodsListed, LenProperties
      <4> QED
        BY <4>1
    <3>6. ASSUME NEW f \in Events, f.version = version[f.pod]
          PROVE  Fresh(f)'
      <4>1. f.version <= version[f.pod] /\ f.pod \in Pods
        BY <1>5, <3>6
      <4> QED
        BY <2>1, <2>2, <4>1 DEF Fresh, Quiet
    <3>7. \A i \in DOMAIN Pending' : Fresh(Pending[i])'
      BY <3>1, <3>3, <3>4, <3>6
    <3> QED
      BY <1>2, <1>6, <2>1, <3>2, <3>5, <3>7 DEF OneWatchInv
  <2> QED
    BY <1>12, <2>1, <2>3, <2>4 DEF ThreadStarts
<1>13. ASSUME NEW t \in Threads, OnPodEventReceived(t)
       PROVE  OneWatchInv'
  <2>1. t = 1 /\ phase[1] = "watching" /\ stream[1] # << >>
        /\ UNCHANGED << version, pods, phase, removed, watches >>
        /\ queue' = queue \o Posted(Head(stream[1]))
        /\ stream' = [stream EXCEPT ![1] = Tail(stream[1])]
    BY <1>1, <1>13 DEF OnPodEventReceived
  <2>2. connections = 1
    BY <1>1, <2>1 DEF TypeInv, TypeOK
  <2>3. stream'[1] = Tail(stream[1])
    BY <1>1, <2>1 DEF TypeOK
  <2>4. Pending' = Pending
    BY <1>1, <2>1, <2>2, <2>3, MovedOnTheWay DEF Pending
  <2> QED
    BY <1>2, <1>3, <1>6, <2>1, <2>4 DEF OneWatchInv
<1>14. ASSUME NEW t \in Threads, ThreadEnds(t)
       PROVE  OneWatchInv'
  <2>1. t = 1 /\ phase'[1] = "dead" /\ stream'[1] = << >>
        /\ UNCHANGED << version, pods, queue, removed >>
    BY <1>1, <1>14 DEF ThreadEnds, TypeOK
  <2>2. Pending' = queue
    BY <1>1, <2>1, ConcatEmptySeq DEF Pending
  <2>3. \A i \in DOMAIN queue : i \in DOMAIN Pending /\ Pending[i] = queue[i]
    <3>1. \A m, n \in Nat : \A i \in 1 .. m : i \in 1 .. m + n /\ i <= m
      OBVIOUS
    <3> QED
      BY <1>1, <3>1, OnTheWay DEF Pending
  <2>4. Ordered(Pending)' /\ \A i \in DOMAIN Pending' : Fresh(Pending[i])'
    <3>1. Ordered(Pending)'
      BY <1>2, <2>2, <2>3 DEF Ordered
    <3>2. \A i \in DOMAIN queue : queue[i] \in Events /\ Fresh(queue[i])
      BY <1>2, <1>3, <2>3
    <3> QED
      BY <1>6, <2>1, <2>2, <3>1, <3>2
  <2> QED
    BY <1>2, <1>6, <2>1, <2>4 DEF OneWatchInv
<1>15. CASE GuiEvent
  <2>1. /\ queue # << >> /\ queue' = Tail(queue) /\ (PodAdded \/ PodModified \/ PodRemoved)
        /\ UNCHANGED << version, phase, stream >>
    BY <1>15 DEF GuiEvent
  <2>2. Pending # << >> /\ Head(Pending) = Head(queue) /\ Pending' = Tail(Pending)
    BY <1>1, <2>1, HandledOnTheWay DEF Pending
  <2>3. PICK e \in Events : e = Head(queue)
    BY <1>1, <2>1, HeadTailProperties
  <2>4. /\ Len(Pending) \in Nat \ {0} /\ DOMAIN Pending = 1 .. Len(Pending)
        /\ DOMAIN Pending' = 1 .. Len(Pending) - 1
        /\ \A i \in 1 .. Len(Pending) - 1 : Pending'[i] = Pending[i + 1]
        /\ Pending[1] = e
    BY <1>3, <2>2, <2>3, EmptySeq, LenProperties, HeadTailProperties
  <2>5. Fresh(e) /\ e.pod \in Pods /\ RowOK(e.pod)
        /\ e.version \in Nat /\ e.version # 0 /\ e.version <= Gone
        /\ (e.version = Gone <=> e.type = "DELETED")
    <3>1. e.version = Gone <=> e.type = "DELETED"
      BY <1>1, <2>1, <2>3, Taken DEF TypeInv
    <3>2. Fresh(e)
      BY <1>2, <2>4
    <3> QED
      BY <1>2, <1>5, <3>1, <3>2
  <2>6. \A p : /\ p # e.pod => ListedAs(p)' = ListedAs(p)
               /\ e.type = "ADDED" => ListedAs(e.pod)' = ListedAs(e.pod) \cup {e.version}
               /\ e.type = "MODIFIED" => ListedAs(e.pod)' =
                    IF ListedAs(e.pod) = {} THEN {} ELSE {e.version}
               /\ e.type = "DELETED" => ListedAs(e.pod)' = {}
               /\ removed' = IF e.type = "DELETED" THEN removed \cup {e.pod} ELSE removed
    BY <1>1, <2>1, <2>3, SlotLists
  <2>7. e.type \in {"ADDED", "MODIFIED", "DELETED"}
    BY DEF Events
  <2>8. /\ e.type = "ADDED" => ListedAs(e.pod) = {}
        /\ ListedAs(e.pod)' = {} \/ ListedAs(e.pod)' = {e.version}
        /\ e.type = "DELETED" => ListedAs(e.pod)' = {} /\ removed' = removed \cup {e.pod}
        /\ e.type # "DELETED" => removed' = removed
    BY <2>5, <2>6, <2>7 DEF Fresh
  <2>9. RowOK(e.pod)'
    <3>1. e.version <= version[e.pod] /\ version[e.pod] \in Nat /\ version[e.pod] <= Gone
          /\ e.pod \notin removed
      BY <1>1, <2>5 DEF Fresh, TypeOK, Versions
    <3>2. e.type = "DELETED" => version[e.pod] = Gone
      BY <1>1, <2>5, <3>1
    <3> QED
      BY <2>1, <2>8, <3>1, <3>2 DEF RowOK
  <2>10. \A p \in Pods : RowOK(p)'
    <3>1. ASSUME NEW p \in Pods, p # e.pod
          PROVE  RowOK(p)'
      <4>1. ListedAs(p)' = ListedAs(p) /\ (p \in removed' <=> p \in removed)
        BY <2>6, <3>1
      <4> QED
        BY <1>2, <2>1, <4>1 DEF RowOK
    <3> QED
      BY <2>9, <3>1
  <2>11. Ordered(Pending)'
    <3>1. \A i \in 1 .. Len(Pending) - 1 : i + 1 \in DOMAIN Pending
      BY <2>4
    <3>2. \A i, j \in 1 .. Len(Pending) - 1 : i < j => i + 1 < j + 1
      BY <2>4
    <3> QED
      BY <1>2, <2>4, <3>1, <3>2 DEF Ordered
  <2>12. ASSUME NEW i \in DOMAIN Pending'
         PROVE  Fresh(Pending[i])'
    <3>1. PICK f \in Events : f = Pending'[i] /\ f = Pending[i + 1] /\ Fresh(f)
      <4>1. i + 1 \in DOMAIN Pending /\ Pending'[i] = Pending[i + 1]
        BY <2>4
      <4> QED
        BY <1>2, <1>3, <4>1
    <3>2. i + 1 \in DOMAIN Pending /\ 1 \in DOMAIN Pending /\ 1 < i + 1
      BY <2>4
    <3>3. CASE f.pod = e.pod
      <4>1. e.version < f.version /\ f.type # "ADDED"
        BY <1>2, <2>4, <3>1, <3>2, <3>3 DEF Ordered
      <4>2. e.type # "DELETED"
        BY <1>1, <1>5, <2>5, <3>1, <4>1
      <4>3. Fresh(f)'
        BY <2>1, <2>8, <3>1, <3>3, <4>1, <4>2 DEF Fresh
      <4> QED
        BY <3>1, <4>3
    <3>4. CASE f.pod # e.pod
      <4>1. ListedAs(f.pod)' = ListedAs(f.pod) /\ (f.pod \in removed' <=> f.pod \in removed)
        BY <2>6, <3>4
      <4>2. Fresh(f)'
        BY <2>1, <3>1, <4>1 DEF Fresh
      <4> QED
        BY <3>1, <4>2
    <3> QED
      BY <3>3, <3>4
  <2>13. phase'[1] \notin {"none", "starting"}
    BY <1>2, <2>1 DEF Quiet
  <2> QED
    BY <2>10, <2>11, <2>12, <2>13 DEF OneWatchInv
<1>16. CASE UNCHANGED vars
  <2>1. UNCHANGED << version, pods, queue, removed, stream, phase >>
    BY <1>16 DEF vars
  <2>2. Pending' = Pending /\ (Quiet => Quiet')
    BY <1>6, <2>1 DEF Pending, Quiet
  <2> QED
    BY <1>2, <1>3, <1>6, <2>1, <2>2 DEF OneWatchInv
<1> QED
  BY <1>1, <1>7, <1>9, <1>10, <1>11, <1>12, <1>13, <1>14, <1>15, <1>16, ClusterSteps DEF Next

\* Under a single watch, and no refresh once it was started, the table
\* implements PodReplica: what it shows of a pod is a version the pod has had and
\* never goes back, whatever changes while events are on their way.
THEOREM Implements ==
  ASSUME MaxWatches = 1, ~RefreshWhileWatching
  PROVE  Spec => ImplementsReplica
<1> USE DEF Replica!Versions, Versions
<1>1. Init => Replica!Init
  <2> SUFFICES ASSUME Init PROVE Replica!Init
    OBVIOUS
  <2>1. \A p \in Pods : TrackedRows(p) = {} /\ p \notin removed
    BY DEF Init, TrackedRows
  <2>2. Shown = [p \in Pods |-> 0]
    BY <2>1 DEF Shown
  <2>3. version \in [Pods -> 0 .. Gone]
    BY GoneAssumption DEF Init
  <2> QED
    BY <2>2, <2>3 DEF Replica!Init
<1>2. ASSUME TypeInv, TypeInv', OneWatchInv, OneWatchInv', [Next]_vars
      PROVE  [Replica!Next]_<< version, Shown >>
  <2>1. TypeOK /\ TypeOK' /\ (\A p \in Pods : RowOK(p) /\ RowOK(p)') /\ 1 \in Threads
    BY <1>2 DEF TypeInv, OneWatchInv, Threads
  <2>2. Shown = [p \in Pods |-> Shown[p]] /\ Shown' = [p \in Pods |-> Shown'[p]]
    BY DEF Shown
  <2>3. \A p \in Pods : ShownIs(p) /\ ShownIs(p)'
    <3>1. (\A p \in Pods : RowOK(p))' => (\A p \in Pods : ShownIs(p))'
      BY ShownIsListed, PTL
    <3> QED
      BY <2>1, <3>1, ShownIsListed
\* The clusters agree, and only the slots change what is shown.
  <2>4. ASSUME \A p \in Pods : ListedAs(p)' = ListedAs(p), removed' = removed
        PROVE  Shown' = Shown
    <3>1. ASSUME NEW p \in Pods
          PROVE  Shown'[p] = Shown[p]
      <4>1. CASE ListedAs(p) = {}
        BY <2>3, <2>4, <4>1 DEF ShownIs
      <4>2. ASSUME NEW v \in ListedAs(p)
            PROVE  Shown'[p] = Shown[p]
        BY <2>3, <2>4, <4>2 DEF ShownIs
      <4> QED
        BY <4>1, <4>2
    <3> QED
      BY <2>2, <3>1
  <2>5. CASE ClusterStep
    <3>1. PICK p \in Pods, v \in Versions : ClusterChanges(p, v)
      BY <2>5 DEF ClusterStep
    <3>2. version' = [version EXCEPT ![p] = v] /\ v > version[p]
      BY <2>1, <3>1, Sent DEF TypeOK
    <3>3. UNCHANGED << pods, removed >>
      BY <2>5 DEF ClusterStep
    <3>4. Shown' = Shown
      BY <2>4, <3>3 DEF ListedAs, TrackedRows
    <3> QED
      BY <3>2, <3>4 DEF Replica!Next, Replica!Change
  <2>6. CASE GuiEvent
    <3>1. PICK e \in Events : /\ e = Head(queue) /\ e.pod \in Pods /\ queue # << >>
                              /\ (PodAdded \/ PodModified \/ PodRemoved) /\ version' = version
                              /\ e.version = Gone <=> e.type = "DELETED"
      <4>1. queue # << >> /\ (PodAdded \/ PodModified \/ PodRemoved) /\ version' = version
        BY <2>6 DEF GuiEvent
      <4>2. /\ Head(queue) \in Events
            /\ Head(queue).version = Gone <=> Head(queue).type = "DELETED"
        BY <1>2, <2>1, <4>1, Taken DEF TypeInv, TypeOK
      <4> QED
        BY <4>1, <4>2 DEF Events
    <3>2. Fresh(e)
      <4>1. Pending \in Seq(Events) /\ Pending # << >> /\ Head(Pending) = e
        BY <2>1, <3>1, OnTheWay, HandledOnTheWay DEF Pending, TypeOK
      <4>2. 1 \in DOMAIN Pending /\ Pending[1] = e
        BY <4>1, EmptySeq, LenProperties
      <4> QED
        BY <1>2, <4>2 DEF OneWatchInv
    <3>3. \A p : /\ p # e.pod => ListedAs(p)' = ListedAs(p)
                 /\ e.type = "ADDED" => ListedAs(e.pod)' = ListedAs(e.pod) \cup {e.version}
                 /\ e.type = "MODIFIED" => ListedAs(e.pod)' =
                      IF ListedAs(e.pod) = {} THEN {} ELSE {e.version}
                 /\ e.type = "DELETED" => ListedAs(e.pod)' = {}
                 /\ removed' = IF e.type = "DELETED" THEN removed \cup {e.pod} ELSE removed
      BY <2>1, <3>1, SlotLists
    <3>4. e.type \in {"ADDED", "MODIFIED", "DELETED"} /\ e.version \in Versions \ {0}
      BY DEF Events
    <3>5. \A p \in Pods : p # e.pod => Shown'[p] = Shown[p]
      <4>1. ASSUME NEW p \in Pods, p # e.pod
            PROVE  Shown'[p] = Shown[p]
        <5>1. ListedAs(p)' = ListedAs(p) /\ (p \in removed' <=> p \in removed)
          BY <3>3, <4>1
        <5>2. CASE ListedAs(p) = {}
          BY <2>3, <5>1, <5>2 DEF ShownIs
        <5>3. ASSUME NEW v \in ListedAs(p)
              PROVE  Shown'[p] = Shown[p]
          BY <2>3, <5>1, <5>3 DEF ShownIs
        <5> QED
          BY <5>2, <5>3
      <4> QED
        BY <4>1
    <3>6. CASE e.type = "MODIFIED" /\ ListedAs(e.pod) = {}
      <4>1. (\A p \in Pods : ListedAs(p)' = ListedAs(p)) /\ removed' = removed
        BY <3>3, <3>6
      <4>2. Shown' = Shown
        BY <2>4, <4>1
      <4> QED
        BY <3>1, <4>2
    <3>7. CASE ~(e.type = "MODIFIED" /\ ListedAs(e.pod) = {})
      <4>1. Shown'[e.pod] = e.version
        <5>1. CASE e.type = "DELETED"
          <6>1. ListedAs(e.pod)' = {} /\ e.pod \in removed' /\ e.version = Gone
            BY <3>1, <3>3, <5>1
          <6> QED
            BY <2>3, <3>1, <6>1 DEF ShownIs
        <5>2. CASE e.type # "DELETED"
          <6>1. e.version \in ListedAs(e.pod)'
            BY <3>3, <3>4, <3>7, <5>2
          <6> QED
            BY <2>3, <3>1, <6>1 DEF ShownIs
        <5> QED
          BY <5>1, <5>2
      <4>2. e.version > Shown[e.pod]
        <5>1. CASE ListedAs(e.pod) = {}
          BY <2>3, <3>1, <3>2, <3>4, <5>1, GoneAssumption DEF ShownIs, Fresh
        <5>2. ASSUME NEW v \in ListedAs(e.pod)
              PROVE  e.version > Shown[e.pod]
          <6>1. Shown[e.pod] = v /\ v < e.version
            BY <2>3, <3>1, <3>2 DEF ShownIs, Fresh
          <6> QED
            BY <6>1
        <5> QED
          BY <5>1, <5>2
      <4>3. e.version <= version[e.pod] /\ e.version \in 0 .. Gone
        BY <3>2, <3>4 DEF Fresh
      <4>4. Shown' = [Shown EXCEPT ![e.pod] = e.version]
        BY <2>2, <3>5, <4>1
      <4>5. Replica!Show(e.pod)
        BY <3>1, <4>2, <4>3, <4>4 DEF Replica!Show
      <4> QED
        BY <3>1, <4>5 DEF Replica!Next
    <3> QED
      BY <3>6, <3>7
  <2>7. ASSUME UNCHANGED << version, removed >>, \A p \in Pods : ListedAs(p)' = ListedAs(p)
        PROVE  UNCHANGED << version, Shown >>
    BY <2>4, <2>7
  <2>8. ASSUME UNCHANGED << version, removed, pods >>
        PROVE  UNCHANGED << version, Shown >>
    <3>1. \A p \in Pods : ListedAs(p)' = ListedAs(p)
      BY <2>8 DEF ListedAs, TrackedRows
    <3> QED
      BY <2>7, <2>8, <3>1
  <2>9. CASE BtnRefreshPodsClick
    <3>1. watches = 0 /\ UNCHANGED << version, removed >>
      BY <2>9 DEF BtnRefreshPodsClick
    <3>2. Quiet
      BY <1>2, <2>1, <3>1 DEF OneWatchInv, TypeInv, Threads
    <3>3. \A p \in Pods : ListedAs(p)' = {}
      <4>1. CASE pods' = [i \in DOMAIN LivePods |->
                [pod |-> LivePods[i], version |-> version[LivePods[i]], tracked |-> FALSE]]
        BY <4>1 DEF ListedAs, TrackedRows, IsRowOf
      <4>2. CASE pods' = pods
        BY <3>2, <4>2 DEF ListedAs, TrackedRows, Quiet
      <4> QED
        BY <2>9, <4>1, <4>2 DEF BtnRefreshPodsClick
    <3> QED
      BY <2>7, <3>1, <3>2, <3>3 DEF Quiet
  <2>10. CASE \/ WatchPods \/ StopWatch \/ UNCHANGED vars
              \/ \E t \in Threads : ThreadStarts(t) \/ OnPodEventReceived(t) \/ ThreadEnds(t)
    <3>1. UNCHANGED << version, removed, pods >>
      BY <2>10 DEF WatchPods, StopWatch, vars, ThreadStarts, OnPodEventReceived, ThreadEnds
    <3> QED
      BY <2>8, <3>1
  <2> QED
    BY <1>2, <2>1, <2>5, <2>6, <2>9, <2>10, ClusterSteps DEF Next
<1> QED
  BY <1>1, <1>2, TypeInit, TypeNext, OneWatchInit, OneWatchNext, PTL
     DEF Spec, ImplementsReplica, Replica!Spec

=============================================================================
