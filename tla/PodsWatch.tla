----------------------------- MODULE PodsWatch -----------------------------
(***************************************************************************)
(* The EKS pods table (standalone/source/models/EksPodsTableModel.cpp),    *)
(* the watch behind it (standalone/source/eks/Eks.cpp) and the events that *)
(* the watch thread turns into signals (source/kubernetes/                 *)
(* KubernetesClient.cpp), with the watch button of EksPage.qml.            *)
(*                                                                         *)
(* Each "Watch Pods" connects the three pod signals once more and starts   *)
(* one more thread; nothing disconnects or ends them.  A signal emitted by *)
(* a thread is posted to the GUI thread's event queue once per connection. *)
(* The API server sends a new watch an ADDED event for every pod there is, *)
(* then every change; a pod's state is abstracted to a version number,     *)
(* 0 before it is created and Gone once it is deleted.                     *)
(*                                                                         *)
(* The token for the API server is taken not to need an Okta login, so no  *)
(* handler of this table waits in an event loop of its own.                *)
(***************************************************************************)
EXTENDS Naturals, Sequences, FiniteSets, SequencesExt

CONSTANTS
  Pods,                  \* pods of the namespace, each one is created once
  Gone,                  \* the version of a deleted pod
  MaxWatches,            \* bound on clicks on "Watch Pods"
  RefreshWhileWatching   \* whether the user refreshes once a watch was started

ASSUME PodsAssumption    == IsFiniteSet(Pods)
ASSUME WatchesAssumption == MaxWatches \in Nat
ASSUME GoneAssumption    == Gone \in Nat /\ Gone > 1

Threads  == 1 .. MaxWatches
Versions == 0 .. Gone
Events   == [type : {"ADDED", "MODIFIED", "DELETED"}, pod : Pods, version : Versions \ {0}]
\* tracked: the row has the pod's uuid.  getPods does not fill it in, so the
\* events never find the rows it made.
Rows     == [pod : Pods, version : Versions \ {0, Gone}, tracked : BOOLEAN]

VARIABLES
  version,      \* the pods in the cluster
  pods,         \* the rows of the table
  watching,     \* the button's property: TRUE while it says "Stop Watch"
  connections,  \* how often the three signals are connected to this table
  watches,      \* watch threads created
  phase,        \* phase[t]: what thread t does
  stream,       \* stream[t]: what the API server has sent to t, not yet emitted
  queue,        \* events posted to the GUI thread
  crashed,      \* an invalid pointer was used
  removed       \* history: pods whose removal has reached the table

vars == << version, pods, watching, connections, watches, phase, stream, queue,
           crashed, removed >>

TypeOK ==
  /\ version \in [Pods -> Versions]
  /\ pods \in Seq(Rows)
  /\ watching \in BOOLEAN
  /\ connections \in 0 .. MaxWatches
  /\ watches \in 0 .. MaxWatches
  /\ phase \in [Threads -> {"none", "starting", "watching", "dead"}]
  /\ stream \in [Threads -> Seq(Events)]
  /\ queue \in Seq(Events)
  /\ crashed \in BOOLEAN
  /\ removed \subseteq Pods

Init ==
  /\ version \in [Pods -> {0, 1}]
  /\ pods = << >>
  /\ watching = FALSE
  /\ connections = 0
  /\ watches = 0
  /\ phase = [t \in Threads |-> "none"]
  /\ stream = [t \in Threads |-> << >>]
  /\ queue = << >>
  /\ crashed = FALSE
  /\ removed = {}

-----------------------------------------------------------------------------
\* Mutant: pods that do not exist yet are listed too.
NotDeleted(p) == version[p] # Gone

Live(p)  == version[p] \notin {0, Gone}
LivePods == SetToSeq({p \in Pods : Live(p)})

\* The cluster changes a pod and sends the event on every open watch.
ClusterChanges(p, v) ==
  /\ version[p] < v
  /\ version[p] = 0 => v = 1
  /\ version' = [version EXCEPT ![p] = v]
  /\ LET type  == IF v = Gone THEN "DELETED" ELSE IF v = 1 THEN "ADDED" ELSE "MODIFIED"
         event == [type |-> type, pod |-> p, version |-> v]
     IN  stream' = [t \in Threads |-> IF phase[t] = "watching" THEN Append(stream[t], event)
                                      ELSE stream[t]]

Cluster(p) ==
  /\ \E v \in Versions : ClusterChanges(p, v)
  /\ UNCHANGED << pods, watching, connections, watches, phase, queue, crashed, removed >>

-----------------------------------------------------------------------------
(***************************************************************************)
(* The user.                                                               *)
(***************************************************************************)
\* Rows without uuid, in the order of the answer.  A request that fails yields
\* a null list, which getPods dereferences.
BtnRefreshPodsClick ==
  /\ ~crashed
  /\ watches = 0 \/ RefreshWhileWatching
  /\ \/ /\ pods' = [i \in DOMAIN LivePods |->
              [pod |-> LivePods[i], version |-> version[LivePods[i]], tracked |-> FALSE]]
        /\ UNCHANGED crashed
     \/ /\ crashed' = TRUE
        /\ UNCHANGED pods
  /\ UNCHANGED << version, watching, connections, watches, phase, stream, queue, removed >>

\* The table is not cleared: removeRows is not overridden and does nothing.
WatchPods ==
  /\ ~crashed
  /\ ~watching
  /\ watches < MaxWatches
  /\ watching' = TRUE
  /\ connections' = connections + 1
  /\ watches' = watches + 1
  /\ phase' = [phase EXCEPT ![watches + 1] = "starting"]
  /\ UNCHANGED << version, pods, stream, queue, crashed, removed >>

\* cancel() on the last future only keeps a function from starting; one that
\* runs, be it still at its token or at the connection to the server, goes on.
\* The connections stay.
StopWatch ==
  /\ ~crashed
  /\ watching
  /\ watching' = FALSE
  /\ \/ UNCHANGED phase
     \/ phase[watches] = "starting" /\ phase' = [phase EXCEPT ![watches] = "dead"]
  /\ UNCHANGED << version, pods, connections, watches, stream, queue, crashed, removed >>

\* The pod named in row i is deleted, if the cluster still has it and obeys.
BtnDelete(i) ==
  /\ ~crashed
  /\ Live(pods[i].pod)
  /\ ClusterChanges(pods[i].pod, Gone)
  /\ UNCHANGED << pods, watching, connections, watches, phase, queue, crashed, removed >>

-----------------------------------------------------------------------------
(***************************************************************************)
(* The watch threads.                                                      *)
(***************************************************************************)
\* The thread reads the base path through a reference to a local variable of
\* watchKubernetesPods, which has usually returned by then: the read yields the
\* path, or something that no server answers to, or it crashes.
ThreadStarts(t) ==
  /\ ~crashed
  /\ phase[t] = "starting"
  /\ \/ /\ phase' = [phase EXCEPT ![t] = "watching"]
        /\ stream' = [stream EXCEPT ![t] = [i \in DOMAIN LivePods |->
              [type |-> "ADDED", pod |-> LivePods[i], version |-> version[LivePods[i]]]]]
        /\ UNCHANGED crashed
     \/ /\ phase' = [phase EXCEPT ![t] = "dead"]
        /\ UNCHANGED << stream, crashed >>
     \/ /\ crashed' = TRUE
        /\ UNCHANGED << phase, stream >>
  /\ UNCHANGED << version, pods, watching, connections, watches, queue, removed >>

\* Mutant: a changed pod is signalled as podAdded.
PostedAsAdded(event) ==
  [i \in 1 .. connections |->
    IF event.type = "MODIFIED" THEN [event EXCEPT !.type = "ADDED"] ELSE event]

Posted(event) == [i \in 1 .. connections |-> event]

OnPodEventReceived(t) ==
  /\ ~crashed
  /\ phase[t] = "watching"
  /\ stream[t] # << >>
  /\ queue' = queue \o Posted(Head(stream[t]))
  /\ stream' = [stream EXCEPT ![t] = Tail(@)]
  /\ UNCHANGED << version, pods, watching, connections, watches, phase, crashed, removed >>

\* The connection ends; what the server had still to send is lost.  There is
\* no new attempt.
ThreadEnds(t) ==
  /\ ~crashed
  /\ phase[t] = "watching"
  /\ phase' = [phase EXCEPT ![t] = "dead"]
  /\ stream' = [stream EXCEPT ![t] = << >>]
  /\ UNCHANGED << version, pods, watching, connections, watches, queue, crashed, removed >>

-----------------------------------------------------------------------------
(***************************************************************************)
(* The slots, called by the GUI thread for the first event in its queue.   *)
(***************************************************************************)
RowFor(event) == [pod |-> event.pod, version |-> event.version, tracked |-> TRUE]

\* Mutant: the comparison is with the empty uuid of listed rows.
IsListedRowOf(row, p) == ~row.tracked /\ row.pod = p

IsRowOf(row, p) == row.tracked /\ row.pod = p

PodAdded ==
  /\ Head(queue).type = "ADDED"
  /\ pods' = Append(pods, RowFor(Head(queue)))
  /\ UNCHANGED removed

PodModified ==
  /\ Head(queue).type = "MODIFIED"
  /\ pods' = [i \in DOMAIN pods |-> IF IsRowOf(pods[i], Head(queue).pod)
                                    THEN RowFor(Head(queue)) ELSE pods[i]]
  /\ UNCHANGED removed

\* The k-th of a set of positions, and the rows at such a set, in their order.
Nth(S, k)   == CHOOSE i \in S : Cardinality({j \in S : j <= i}) = k
RowsAt(S)   == [k \in 1 .. Cardinality(S) |-> pods[Nth(S, k)]]

\* Mutant: the predicate of removeIf is inverted.
PodRemovedInverted ==
  /\ Head(queue).type = "DELETED"
  /\ pods' = RowsAt({i \in DOMAIN pods : IsRowOf(pods[i], Head(queue).pod)})
  /\ removed' = removed \cup {Head(queue).pod}

PodRemoved ==
  /\ Head(queue).type = "DELETED"
  /\ pods' = RowsAt({i \in DOMAIN pods : ~IsRowOf(pods[i], Head(queue).pod)})
  /\ removed' = removed \cup {Head(queue).pod}

GuiEvent ==
  /\ ~crashed
  /\ queue # << >>
  /\ queue' = Tail(queue)
  /\ PodAdded \/ PodModified \/ PodRemoved
  /\ UNCHANGED << version, watching, connections, watches, phase, stream, crashed >>

-----------------------------------------------------------------------------
Next ==
  \/ \E p \in Pods : Cluster(p)
  \/ BtnRefreshPodsClick
  \/ WatchPods
  \/ StopWatch
  \/ \E i \in DOMAIN pods : BtnDelete(i)
  \/ \E t \in Threads : ThreadStarts(t) \/ OnPodEventReceived(t) \/ ThreadEnds(t)
  \/ GuiEvent

\* The scheduler runs the threads and the GUI thread handles its queue.
Fairness ==
  /\ \A t \in Threads : WF_vars(ThreadStarts(t)) /\ WF_vars(OnPodEventReceived(t))
  /\ WF_vars(GuiEvent)

Spec == Init /\ [][Next]_vars /\ Fairness

-----------------------------------------------------------------------------
\* All rows of a pod, and those that a watch has added.
RowsOfPod(p)   == {i \in DOMAIN pods : pods[i].pod = p}
TrackedRows(p) == {i \in DOMAIN pods : IsRowOf(pods[i], p)}

\* However often the watch is stopped and started and the table refreshed, a pod
\* is listed at most once per thread and connection, and once more by the last
\* refresh, whose row no watch replaces: twice under a single watch.
ListedBounded == \A p \in Pods : Cardinality(RowsOfPod(p)) <= watches * connections + 1

\* The table implements PodReplica under a single watch: what it shows of a pod
\* never goes back, whatever changes while the first events are still queued.
Shown == [p \in Pods |-> IF TrackedRows(p) # {}
                         THEN pods[CHOOSE i \in TrackedRows(p) : TRUE].version
                         ELSE IF p \in removed THEN Gone ELSE 0]
Replica == INSTANCE PodReplica WITH shown <- Shown
ImplementsReplica == Replica!Spec

WatchLost == crashed \/ \E t \in Threads : phase[t] = "dead"

\* The rows that watches have added for a pod disappear in the end once it is
\* deleted, also the ones that a slower second watch adds after the first has
\* removed the pod, unless a watch ends.  Nothing is said of a refresh's row: no
\* event finds it, and it stays until the next refresh.
GoneRowsVanish ==
  \A p \in Pods :
    (version[p] = Gone /\ TrackedRows(p) # {}) ~> (TrackedRows(p) = {} \/ WatchLost)

\* What a watched pod has become is shown in the end, in a row that the watch has
\* added (a refresh's row does not count), unless a watch ends.
ChangesAreShown ==
  \A p \in Pods, v \in Versions \ {0} :
    (phase[1] = "watching" /\ Live(p) /\ version[p] = v) ~>
      \/ \E i \in TrackedRows(p) : pods[i].version >= v
      \/ p \in removed
      \/ WatchLost

\* What the button's label says (EksPage.qml:188, "Stop Watch"): once the watch
\* is stopped, its thread delivers no more pod events.
StopWatchStops == [][\A t \in Threads : OnPodEventReceived(t) => watching]_vars
=============================================================================
