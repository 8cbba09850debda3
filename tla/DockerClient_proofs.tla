------------------------- MODULE DockerClient_proofs -------------------------
(***************************************************************************)
(* Proofs about DockerClient, for any number of requests: type             *)
(* correctness, that every push reply is examined by a push slot, that a   *)
(* troubleshooter opens only for a reply that failed, that a build is      *)
(* reported once at most; and what a request that overlaps with no other   *)
(* may count on.                                                           *)
(***************************************************************************)
EXTENDS DockerClient, TLAPS

(***************************************************************************)
(* The inductive invariant.                                                *)
(***************************************************************************)
\* Requests in flight or being emitted have been posted, and so has the request
\* of every connection; slots are to be called only while a signal is emitted.
Bookkeeping ==
  /\ \A r \in inflight : kind[r] # Unposted
  /\ \A c \in connected : kind[c] # Unposted
  /\ current # 0 => kind[current] # Unposted /\ current \notin inflight
  /\ current = 0 => todo = {}

\* The history names posted requests whose reply has finished.
CallsAreFinished ==
  \A x \in calls : /\ kind[x[1]] # Unposted
                   /\ kind[x[2]] # Unposted
                   /\ x[2] \notin inflight

\* A push's own connection is never removed ...
PushConnectionsStay == \A r \in Requests : kind[r] = "push" => r \in connected

\* ... so while a push reply is emitted, a push slot has run or is to run.
PushSlotAhead ==
  current # 0 /\ kind[current] = "push" =>
    Examined(current, "push") \/ \E c \in todo : kind[c] = "push"

\* A build connection that was called is gone, and a reply that was reported to
\* one build connection visits no other.
BuildConnectionsUsedUp ==
  \A x \in calls : kind[x[1]] = "build" =>
    /\ x[1] \notin connected
    /\ x[2] = current => \A c \in todo : kind[c] # "build"

\* A push slot called for a reply with a network error opens the troubleshooter.
NetworkErrorsReported ==
  \A x \in calls :
    kind[x[1]] = "push" /\ result[x[2]] \in {"unreachable", "otherError"} => x[3]

IInv ==
  /\ TypeOK
  /\ Bookkeeping
  /\ CallsAreFinished
  /\ PushConnectionsStay
  /\ PushSlotAhead
  /\ BuildConnectionsUsedUp
  /\ NetworkErrorsReported
  /\ PushRepliesExamined
  /\ AlarmsAreFailures
  /\ BuildReportedOnce

USE MaxRequestsAssumption

-----------------------------------------------------------------------------
(***************************************************************************)
(* The initial states.                                                     *)
(***************************************************************************)
\* Every part of the invariant holds before the first post.
LEMMA InitIInv == Init => IInv
<1> SUFFICES ASSUME Init PROVE IInv
  OBVIOUS
<1> USE DEF Init
<1>1. TypeOK
  BY DEF TypeOK, Slots, Results, Unposted
<1>2. Posted = {}
  BY DEF Posted
<1>3. Bookkeeping /\ PushConnectionsStay /\ PushSlotAhead
  BY DEF Bookkeeping, PushConnectionsStay, PushSlotAhead, Unposted
<1>4. /\ CallsAreFinished /\ BuildConnectionsUsedUp
      /\ AlarmsAreFailures /\ NetworkErrorsReported
  BY DEF CallsAreFinished, BuildConnectionsUsedUp, AlarmsAreFailures,
         NetworkErrorsReported
<1>5. PushRepliesExamined
  BY <1>2 DEF PushRepliesExamined, Finished
<1>6. BuildReportedOnce
  BY DEF BuildReportedOnce
<1> QED
  BY <1>1, <1>3, <1>4, <1>5, <1>6 DEF IInv

(***************************************************************************)
(* A call in the history is a triple of two requests and a Boolean.        *)
(***************************************************************************)
\* What TypeOK says of one call, component by component.
LEMMA CallComponents ==
  ASSUME TypeOK, NEW x \in calls
  PROVE  /\ x[1] \in Requests
         /\ x[2] \in Requests
         /\ x[3] \in BOOLEAN
BY DEF TypeOK

(***************************************************************************)
(* A post touches nothing that has been posted before it.                  *)
(***************************************************************************)
\* buildDockerImage, buildDockerImageFromGit and pushDockerImage preserve the
\* invariant: the new request is in flight and its connection is its own.
LEMMA PostIInv ==
  ASSUME IInv, AtEventLoop, NEW r \in Requests, NEW s \in Slots, Post(r, s),
         signal' = "none"
  PROVE  IInv'
<1> USE DEF IInv, AtEventLoop, Post
<1>k. \A q \in Requests : kind[q] # Unposted => q # r /\ kind'[q] = kind[q]
  BY DEF TypeOK
<1>r. kind'[r] = s /\ s # Unposted
  BY DEF TypeOK, Slots, Unposted
<1>c. \A x \in calls : /\ x[1] \in Requests /\ x[2] \in Requests
                       /\ kind'[x[1]] = kind[x[1]] /\ kind'[x[2]] = kind[x[2]]
                       /\ x[1] # r /\ x[2] # r
  BY <1>k, CallComponents DEF CallsAreFinished
<1>1. TypeOK'
  BY DEF TypeOK, Slots
<1>2. Bookkeeping'
  BY <1>k, <1>r DEF Bookkeeping, TypeOK
<1>3. CallsAreFinished'
  BY <1>c DEF CallsAreFinished
<1>4. PushConnectionsStay'
  <2> SUFFICES ASSUME NEW q \in Requests, kind'[q] = "push" PROVE q \in connected'
    BY DEF PushConnectionsStay
  <2>1. CASE q = r
    BY <2>1
  <2>2. CASE q # r
    BY <2>2 DEF PushConnectionsStay, TypeOK
  <2> QED
    BY <2>1, <2>2
<1>5. PushSlotAhead'
  BY DEF PushSlotAhead
<1>6. BuildConnectionsUsedUp'
  BY <1>c DEF BuildConnectionsUsedUp, Bookkeeping
<1>7. PushRepliesExamined'
  <2> SUFFICES ASSUME NEW q \in Finished', kind'[q] = "push"
               PROVE  Examined(q, "push")'
    BY DEF PushRepliesExamined
  <2>1. q \in Requests /\ q # r /\ kind'[q] = kind[q]
    BY DEF Finished, Posted, TypeOK
  <2>2. q \in Finished
    BY <2>1 DEF Finished, Posted
  <2>3. Examined(q, "push")
    BY <2>1, <2>2 DEF PushRepliesExamined
  <2> QED
    BY <2>3, <1>c DEF Examined
<1>8. AlarmsAreFailures'
  BY DEF AlarmsAreFailures, Failed
<1>9. BuildReportedOnce'
  BY <1>c DEF BuildReportedOnce
<1>10. NetworkErrorsReported'
  BY <1>c DEF NetworkErrorsReported
<1> QED
  BY <1>1, <1>2, <1>3, <1>4, <1>5, <1>6, <1>7, <1>8, <1>9, <1>10

(***************************************************************************)
(* A reply finishes.                                                       *)
(***************************************************************************)
\* The emission starts over all connections, the reply's own among them; the
\* result it sets is one that no slot has seen.
LEMMA ReplyFinishesIInv ==
  ASSUME IInv, NEW r \in Requests, ReplyFinishes(r)
  PROVE  IInv'
<1> USE DEF IInv, AtEventLoop, ReplyFinishes
<1>c. \A x \in calls : /\ x[1] \in Requests /\ x[2] \in Requests
                       /\ x[2] # r /\ result'[x[2]] = result[x[2]]
  <2> SUFFICES ASSUME NEW x \in calls
               PROVE  /\ x[1] \in Requests /\ x[2] \in Requests
                      /\ x[2] # r /\ result'[x[2]] = result[x[2]]
    OBVIOUS
  <2>1. x[1] \in Requests /\ x[2] \in Requests
    BY CallComponents
  <2>2. x[2] # r
    BY DEF CallsAreFinished
  <2> QED
    BY <2>1, <2>2 DEF TypeOK
<1>r. r # 0
  BY DEF Requests
<1>1. TypeOK'
  BY DEF TypeOK
<1>2. Bookkeeping'
  BY <1>r DEF Bookkeeping, TypeOK
<1>3. CallsAreFinished'
  BY <1>c DEF CallsAreFinished
<1>4. PushConnectionsStay'
  BY DEF PushConnectionsStay
<1>5. PushSlotAhead'
  BY DEF PushSlotAhead, PushConnectionsStay
<1>6. BuildConnectionsUsedUp'
  BY <1>c DEF BuildConnectionsUsedUp
<1>7. PushRepliesExamined'
  <2> SUFFICES ASSUME NEW q \in Finished', kind'[q] = "push"
               PROVE  Examined(q, "push")'
    BY DEF PushRepliesExamined
  <2>1. q \in Finished
    BY <1>r DEF Finished, Posted, Requests
  <2>2. Examined(q, "push")
    BY <2>1 DEF PushRepliesExamined
  <2> QED
    BY <2>2 DEF Examined
<1>8. AlarmsAreFailures'
  BY <1>c DEF AlarmsAreFailures, Failed
<1>9. BuildReportedOnce'
  BY DEF BuildReportedOnce
<1>10. NetworkErrorsReported'
  BY <1>c DEF NetworkErrorsReported
<1> QED
  BY <1>1, <1>2, <1>3, <1>4, <1>5, <1>6, <1>7, <1>8, <1>9, <1>10

(***************************************************************************)
(* A slot of the current emission is called.                               *)
(***************************************************************************)
\* Only build connections go: a push connection that was to be called still is,
\* unless it is the one called now.
LEMMA PushConnectionsSurvive ==
  ASSUME TypeOK, PushConnectionsStay
  PROVE  \A q \in Requests : kind[q] = "push" => q \in connected \ BuildConnections
BY DEF PushConnectionsStay, BuildConnections

\* buildImageFinished preserves the invariant: it uses up every build
\* connection, and leaves the push slots of the emission to be called.
LEMMA BuildImageFinishedIInv ==
  ASSUME IInv, NEW c \in Requests, BuildImageFinished(c)
  PROVE  IInv'
<1> DEFINE new == <<c, current, Refused(current)>>
<1> USE DEF IInv, BuildImageFinished, IsNextSlot
<1>cur. current # 0 /\ current \in Requests /\ current \notin inflight
        /\ kind[current] # Unposted
  BY DEF Bookkeeping, TypeOK
<1>c. c \in connected /\ c \in BuildConnections
  BY DEF TypeOK, BuildConnections
<1>bc. \A d \in todo' : kind[d] # "build"
  BY DEF BuildConnections, TypeOK
<1>x. \A x \in calls' : x \in calls \/ x = new
  OBVIOUS
<1>n. /\ new[1] = c /\ new[2] = current /\ new[3] = Refused(current)
  OBVIOUS
<1>f. \A x \in calls : kind[x[1]] = "build" => x[1] # c /\ x[2] # current
  BY <1>c DEF BuildConnectionsUsedUp
<1>1. TypeOK'
  <2>1. new \in Requests \X Requests \X BOOLEAN
    BY <1>cur DEF Refused
  <2>2. calls' \subseteq Requests \X Requests \X BOOLEAN
    BY <2>1 DEF TypeOK
  <2>3. unread' \in BOOLEAN
    BY Zenon DEF TypeOK
  <2> QED
    BY <1>cur, <2>2, <2>3 DEF TypeOK
<1>2. Bookkeeping'
  BY <1>cur DEF Bookkeeping, BuildConnections
<1>3. CallsAreFinished'
  BY <1>x, <1>n, <1>cur, <1>c DEF CallsAreFinished, Bookkeeping
<1>4. PushConnectionsStay'
  BY PushConnectionsSurvive DEF PushConnectionsStay
<1>5. PushSlotAhead'
  <2> SUFFICES ASSUME kind[current] = "push"
               PROVE  Examined(current, "push")' \/ \E d \in todo' : kind[d] = "push"
    BY DEF PushSlotAhead
  <2>1. CASE Examined(current, "push")
    BY <2>1 DEF Examined
  <2>2. CASE \E d \in todo : kind[d] = "push"
    BY <2>2 DEF BuildConnections
  <2> QED
    BY <2>1, <2>2, <1>cur DEF PushSlotAhead
<1>6. BuildConnectionsUsedUp'
  <2> SUFFICES ASSUME NEW x \in calls', kind[x[1]] = "build"
               PROVE  x[1] \notin connected'
    BY <1>bc DEF BuildConnectionsUsedUp
  <2>1. CASE x \in calls
    BY <2>1 DEF BuildConnectionsUsedUp
  <2>2. CASE x = new
    BY <2>2, <1>n, <1>c
  <2> QED
    BY <2>1, <2>2, <1>x
<1>7. PushRepliesExamined'
  BY DEF PushRepliesExamined, Finished, Posted, Examined
<1>8. AlarmsAreFailures'
  BY <1>x, <1>n DEF AlarmsAreFailures, Failed, Refused
<1>9. BuildReportedOnce'
  <2> SUFFICES ASSUME NEW x \in calls', NEW y \in calls',
                      kind[x[1]] = "build", kind[y[1]] = "build",
                      x[1] = y[1] \/ x[2] = y[2]
               PROVE  x = y
    BY DEF BuildReportedOnce
  <2>1. CASE x \in calls /\ y \in calls
    BY <2>1 DEF BuildReportedOnce
  <2>2. CASE x \in calls /\ y = new
    BY <2>2, <1>n, <1>f
  <2>3. CASE x = new /\ y \in calls
    BY <2>3, <1>n, <1>f
  <2> QED
    BY <2>1, <2>2, <2>3, <1>x
<1>10. NetworkErrorsReported'
  BY <1>x, <1>n DEF NetworkErrorsReported
<1> QED
  BY <1>1, <1>2, <1>3, <1>4, <1>5, <1>6, <1>7, <1>8, <1>9, <1>10

\* pushImageFinished preserves the invariant: it is the examination that
\* PushSlotAhead waits for.
LEMMA PushImageFinishedIInv ==
  ASSUME IInv, NEW c \in Requests, PushImageFinished(c)
  PROVE  IInv'
<1> DEFINE new == <<c, current, ~PushSucceeded>>
<1> USE DEF IInv, PushImageFinished, IsNextSlot
<1>cur. current # 0 /\ current \in Requests /\ current \notin inflight
        /\ kind[current] # Unposted
  BY DEF Bookkeeping, TypeOK
<1>x. \A x \in calls' : x \in calls \/ x = new
  OBVIOUS
<1>n. /\ new \in calls' /\ new[1] = c /\ new[2] = current
      /\ new[3] = ~PushSucceeded
  OBVIOUS
<1>e. Examined(current, "push")'
  BY <1>n DEF Examined
<1>1. TypeOK'
  <2>1. new \in Requests \X Requests \X BOOLEAN
    BY <1>cur
  <2>2. calls' \subseteq Requests \X Requests \X BOOLEAN
    BY <2>1 DEF TypeOK
  <2>3. unread' \in BOOLEAN
    BY Zenon DEF TypeOK
  <2> QED
    BY <1>cur, <2>2, <2>3 DEF TypeOK
<1>2. Bookkeeping'
  BY <1>cur DEF Bookkeeping, BuildConnections
<1>3. CallsAreFinished'
  BY <1>x, <1>n, <1>cur DEF CallsAreFinished, Bookkeeping, Unposted
<1>4. PushConnectionsStay'
  BY PushConnectionsSurvive DEF PushConnectionsStay
<1>5. PushSlotAhead'
  BY <1>e DEF PushSlotAhead
<1>6. BuildConnectionsUsedUp'
  BY <1>x, <1>n DEF BuildConnectionsUsedUp
<1>7. PushRepliesExamined'
  BY DEF PushRepliesExamined, Finished, Posted, Examined
<1>8. AlarmsAreFailures'
  BY <1>x, <1>n DEF AlarmsAreFailures, Failed, PushSucceeded
<1>9. BuildReportedOnce'
  BY <1>x, <1>n DEF BuildReportedOnce
<1>10. NetworkErrorsReported'
  BY <1>x, <1>n DEF NetworkErrorsReported, PushSucceeded
<1> QED
  BY <1>1, <1>2, <1>3, <1>4, <1>5, <1>6, <1>7, <1>8, <1>9, <1>10

\* The end of an emission preserves the invariant: a push reply that no slot is
\* left to see has been examined by PushSlotAhead.
LEMMA EmissionEndsIInv ==
  ASSUME IInv, EmissionEnds
  PROVE  IInv'
<1> USE DEF IInv, EmissionEnds
<1>1. TypeOK'
  BY DEF TypeOK
<1>2. Bookkeeping' /\ CallsAreFinished' /\ PushConnectionsStay' /\ PushSlotAhead'
  BY DEF Bookkeeping, CallsAreFinished, PushConnectionsStay, PushSlotAhead
<1>3. BuildConnectionsUsedUp'
  BY DEF BuildConnectionsUsedUp
<1>4. NetworkErrorsReported' /\ AlarmsAreFailures' /\ BuildReportedOnce'
  BY DEF NetworkErrorsReported, AlarmsAreFailures, Failed, BuildReportedOnce
<1>5. PushRepliesExamined'
  <2> SUFFICES ASSUME NEW q \in Finished', kind[q] = "push"
               PROVE  Examined(q, "push")
    BY DEF PushRepliesExamined, Examined
  <2>1. CASE q = current
    BY <2>1 DEF PushSlotAhead, Finished, Posted
  <2>2. CASE q # current
    BY <2>2 DEF PushRepliesExamined, Finished, Posted
  <2> QED
    BY <2>1, <2>2
<1> QED
  BY <1>1, <1>2, <1>3, <1>4, <1>5

\* The invariant reads none of `running', `signal', `released', `unread' and
\* `overlapped' but for their types: a step that changes only those preserves it.
LEMMA OtherVariablesIInv ==
  ASSUME IInv, TypeOK',
         UNCHANGED << kind, connected, inflight, current, todo, result, calls >>
  PROVE  IInv'
<1> USE DEF IInv
<1>1. /\ Bookkeeping' /\ CallsAreFinished' /\ PushConnectionsStay'
      /\ PushSlotAhead' /\ BuildConnectionsUsedUp'
  BY DEF Bookkeeping, CallsAreFinished, PushConnectionsStay, PushSlotAhead,
         Examined, BuildConnectionsUsedUp
<1>2. NetworkErrorsReported' /\ AlarmsAreFailures' /\ BuildReportedOnce'
  BY DEF NetworkErrorsReported, AlarmsAreFailures, Failed, BuildReportedOnce
<1>3. PushRepliesExamined'
  BY DEF PushRepliesExamined, Finished, Posted, Examined
<1> QED
  BY <1>1, <1>2, <1>3

(***************************************************************************)
(* The invariant, and what it implies.                                     *)
(***************************************************************************)
\* Every step of the client preserves the inductive invariant.
LEMMA NextIInv == IInv /\ [Next]_vars => IInv'
<1> SUFFICES ASSUME IInv, [Next]_vars PROVE IInv'
  OBVIOUS
<1>1. CASE BuildDockerImage
  <2>1. PICK r \in Requests : Post(r, "build")
    BY <1>1 DEF BuildDockerImage
  <2> QED
    BY <1>1, <2>1, PostIInv DEF BuildDockerImage, Slots
<1>2. CASE PushDockerImage
  <2>1. PICK r \in Requests : Post(r, "push")
    BY <1>2 DEF PushDockerImage
  <2> QED
    BY <1>2, <2>1, PostIInv DEF PushDockerImage, Slots
<1>3. CASE PushDockerImageNoToken
  <2>1. TypeOK'
    BY <1>3 DEF PushDockerImageNoToken, IInv, TypeOK
  <2> QED
    BY <1>3, <2>1, OtherVariablesIInv DEF PushDockerImageNoToken
<1>4. ASSUME NEW r \in Requests, ReplyFinishes(r) PROVE IInv'
  BY <1>4, ReplyFinishesIInv
<1>5. ASSUME NEW c \in Requests, BuildImageFinished(c) PROVE IInv'
  BY <1>5, BuildImageFinishedIInv
<1>6. ASSUME NEW c \in Requests, PushImageFinished(c) PROVE IInv'
  BY <1>6, PushImageFinishedIInv
<1>7. CASE EmissionEnds
  BY <1>7, EmissionEndsIInv
<1>8. CASE UNCHANGED vars
  <2>1. TypeOK'
    BY <1>8 DEF vars, IInv, TypeOK
  <2> QED
    BY <1>8, <2>1, OtherVariablesIInv DEF vars
<1> QED
  BY <1>1, <1>2, <1>3, <1>4, <1>5, <1>6, <1>7, <1>8 DEF Next

\* The invariant holds in every state of every session.
THEOREM Invariance == Spec => []IInv
BY InitIInv, NextIInv, PTL DEF Spec

\* The state keeps its shape, for any number of requests.
THEOREM TypeCorrect == Spec => []TypeOK
<1>1. IInv => TypeOK
  BY DEF IInv
<1> QED
  BY <1>1, Invariance, PTL

\* However many builds and pushes overlap, no disconnect() ever takes away a
\* push's own connection: every push reply is examined by pushImageFinished.
THEOREM EveryPushReplyExamined == Spec => []PushRepliesExamined
<1>1. IInv => PushRepliesExamined
  BY DEF IInv
<1> QED
  BY <1>1, Invariance, PTL

\* Every push that fails on the network opens the push troubleshooter: a push
\* slot sees it, and what it sees does not depend on the slots called before.
THEOREM EveryNetworkFailureTroubleshot == Spec => []NetworkFailureTroubleshot
<1>1. IInv => NetworkFailureTroubleshot
  <2> SUFFICES ASSUME IInv, NEW r \in Finished, kind[r] = "push",
                      result[r] \in {"unreachable", "otherError"}
               PROVE  Troubleshot(r, "push")
    BY DEF NetworkFailureTroubleshot
  <2>1. PICK x \in calls : x[2] = r /\ kind[x[1]] = "push"
    BY DEF IInv, PushRepliesExamined, Examined
  <2>2. x[3]
    BY <2>1 DEF IInv, NetworkErrorsReported
  <2> QED
    BY <2>1, <2>2 DEF Troubleshot
<1> QED
  BY <1>1, Invariance, PTL

\* No build connection reports twice and no reply is reported to two of them,
\* however many builds overlap.
THEOREM NoBuildReportedTwice == Spec => []BuildReportedOnce
<1>1. IInv => BuildReportedOnce
  BY DEF IInv
<1> QED
  BY <1>1, Invariance, PTL

\* A troubleshooter opens only for a reply that failed.
THEOREM EveryAlarmIsAFailure == Spec => []AlarmsAreFailures
<1>1. IInv => AlarmsAreFailures
  BY DEF IInv
<1> QED
  BY <1>1, Invariance, PTL

-----------------------------------------------------------------------------
(***************************************************************************)
(* Requests that overlap with no other.  The invariant is inductive        *)
(* together with IInv.                                                     *)
(***************************************************************************)
\* Requests are posted in the order of their numbers.
InOrder ==
  \A q, r \in Requests : q < r /\ kind[r] # Unposted => kind[q] # Unposted

\* Until a request that overlaps with no other has been handled, it is the last
\* one posted and nothing else is going on.
Pending(r) == r \in inflight \/ r = current

LoneIsLast ==
  \A r \in Requests \ overlapped : Pending(r) =>
    /\ \A q \in Requests : kind[q] # Unposted => q <= r
    /\ inflight \subseteq {r}
    /\ r \in inflight => current = 0 /\ r \in connected

\* A build connection is one of a request in flight, or a slot that the current
\* emission will call: every slot that is called removes all of them.
BuildConnectionsPending ==
  \A c \in connected : kind[c] = "build" =>
    IF current = 0 THEN c \in inflight ELSE c \in todo

\* The reply of a lone push meets push slots only, and the first of them finds
\* the body unread.
LonePushSeen ==
  current # 0 /\ current \notin overlapped /\ kind[current] = "push" =>
    /\ \A c \in todo : kind[c] = "push"
    /\ Failed(current) =>
         Troubleshot(current, "push") \/ (unread /\ \E c \in todo : kind[c] = "push")

\* While no push was posted, the reply of a lone build meets a build slot.
OnlyBuildsUpTo(r) == \A q \in 1 .. r : kind[q] = "build"

LoneBuildSeen ==
  current # 0 /\ current \notin overlapped /\ OnlyBuildsUpTo(current) =>
    Examined(current, "build") \/ \E c \in todo : kind[c] = "build"

LoneInv ==
  /\ InOrder
  /\ LoneIsLast
  /\ BuildConnectionsPending
  /\ LonePushSeen
  /\ LoneBuildSeen
  /\ LonePushFailureTroubleshot
  /\ LoneBuildReported

\* Nothing has been posted.
LEMMA InitLoneInv == Init => LoneInv
<1> SUFFICES ASSUME Init PROVE LoneInv
  OBVIOUS
<1>1. \A r \in Requests : kind[r] = Unposted
  BY DEF Init
<1>2. InOrder
  BY <1>1 DEF InOrder
<1>3. LoneIsLast
  BY DEF Init, LoneIsLast, Pending, Requests
<1>4. BuildConnectionsPending /\ LonePushSeen /\ LoneBuildSeen
  BY DEF Init, BuildConnectionsPending, LonePushSeen, LoneBuildSeen
<1>5. Finished = {}
  BY <1>1 DEF Finished, Posted
<1>6. LonePushFailureTroubleshot /\ LoneBuildReported
  BY <1>5 DEF LonePushFailureTroubleshot, LoneBuildReported
<1> QED
  BY <1>2, <1>3, <1>4, <1>6 DEF LoneInv

\* A post: whatever is in flight now overlaps with the new request.
LEMMA PostLoneInv ==
  ASSUME IInv, LoneInv, AtEventLoop, NEW r \in Requests, NEW s \in Slots, Post(r, s)
  PROVE  LoneInv'
<1> USE DEF AtEventLoop, Post
<1>t. /\ kind \in [Requests -> Slots \cup {Unposted}] /\ overlapped \subseteq Requests
      /\ inflight \subseteq Requests /\ connected \subseteq Requests
      /\ r \notin inflight
  BY DEF IInv, TypeOK, Bookkeeping
<1>k. \A q \in Requests : q # r => kind'[q] = kind[q]
  BY <1>t
<1>r. kind'[r] = s /\ s # Unposted
  BY <1>t DEF Slots, Unposted
<1>o. overlapped \subseteq overlapped' /\ (inflight # {} => inflight' \subseteq overlapped')
  OBVIOUS
<1>f. \A q \in Requests : q \in Finished' => q \in Finished /\ q # r
  BY <1>t, <1>k DEF Finished, Posted
<1>c. \A x \in calls : /\ x[1] \in Requests /\ x[2] \in Requests
                       /\ x[1] # r /\ kind'[x[1]] = kind[x[1]]
  BY <1>k, CallComponents DEF IInv, CallsAreFinished
<1>1. InOrder'
  BY <1>k, <1>r DEF LoneInv, InOrder, Requests
<1>2. LoneIsLast'
  <2> SUFFICES ASSUME NEW q \in Requests \ overlapped', Pending(q)'
               PROVE  /\ \A p \in Requests : kind'[p] # Unposted => p <= q
                      /\ inflight' \subseteq {q}
                      /\ q \in inflight' => current' = 0 /\ q \in connected'
    BY DEF LoneIsLast
  <2>1. q = r /\ inflight = {}
    BY <1>o DEF Pending, Requests
  <2>2. \A p \in Requests : kind'[p] # Unposted => p <= r
    <3> SUFFICES ASSUME NEW p \in Requests, p > r PROVE kind'[p] = Unposted
      BY DEF Requests
    <3>1. kind[p] = Unposted
      BY DEF LoneInv, InOrder
    <3> QED
      BY <1>k, <3>1 DEF Requests
  <2> QED
    BY <2>1, <2>2
<1>3. BuildConnectionsPending'
  BY <1>k, <1>t DEF LoneInv, BuildConnectionsPending
<1>4. LonePushSeen' /\ LoneBuildSeen'
  BY DEF LonePushSeen, LoneBuildSeen
<1>5. LonePushFailureTroubleshot'
  <2> SUFFICES ASSUME NEW q \in Finished', Lone(q)', kind'[q] = "push", Failed(q)
               PROVE  Troubleshot(q, "push")'
    BY DEF LonePushFailureTroubleshot, Failed
  <2>1. q \in Requests
    BY DEF Finished, Posted
  <2>2. q \in Finished /\ Lone(q) /\ kind[q] = "push"
    BY <2>1, <1>f, <1>k, <1>o DEF Lone
  <2>3. Troubleshot(q, "push")
    BY <2>2 DEF LoneInv, LonePushFailureTroubleshot
  <2> QED
    BY <2>3, <1>c DEF Troubleshot
<1>6. LoneBuildReported'
  <2> SUFFICES ASSUME NEW q \in Finished', Lone(q)', \A p \in 1 .. q : kind'[p] = "build"
               PROVE  Examined(q, "build")'
    BY DEF LoneBuildReported
  <2>1. q \in Requests
    BY DEF Finished, Posted
  <2>2. q \in Finished /\ Lone(q) /\ q # r
    BY <2>1, <1>f, <1>o DEF Lone
  <2>3. \A p \in 1 .. q : p \in Requests /\ kind[p] # Unposted
    BY <2>1, <2>2 DEF LoneInv, InOrder, Finished, Posted, Requests
  <2>4. \A p \in 1 .. q : kind[p] = "build"
    BY <2>3, <1>k
  <2>5. Examined(q, "build")
    BY <2>2, <2>4 DEF LoneInv, LoneBuildReported
  <2> QED
    BY <2>5, <1>c DEF Examined
<1> QED
  BY <1>1, <1>2, <1>3, <1>4, <1>5, <1>6 DEF LoneInv

\* A reply finishes: that of a lone request finds its own connection, and no
\* build connection but its own.
LEMMA ReplyFinishesLoneInv ==
  ASSUME IInv, LoneInv, NEW r \in Requests, ReplyFinishes(r)
  PROVE  LoneInv'
<1> USE DEF AtEventLoop, ReplyFinishes
<1>t. /\ result \in [Requests -> Results] /\ inflight \subseteq Requests /\ r # 0
      /\ kind \in [Requests -> Slots \cup {Unposted}] /\ kind[r] # Unposted
      /\ connected \subseteq Requests
  BY DEF IInv, TypeOK, Bookkeeping, Requests
<1>f. Finished' = Finished
  <2>1. Posted' = Posted /\ 0 \notin Posted
    BY DEF Posted, Requests
  <2>2. r \in inflight /\ current = 0 /\ inflight' \cup {current'} = inflight
    OBVIOUS
  <2> QED
    BY <2>1, <2>2 DEF Finished
<1>c. \A q \in Finished : result'[q] = result[q]
  BY <1>t DEF Finished, Posted
<1>l. r \notin overlapped => inflight = {r} /\ r \in connected
  BY DEF LoneInv, LoneIsLast, Pending
<1>1. InOrder'
  BY DEF LoneInv, InOrder
<1>2. LoneIsLast'
  <2> SUFFICES ASSUME NEW q \in Requests \ overlapped, Pending(q)'
               PROVE  /\ \A p \in Requests : kind[p] # Unposted => p <= q
                      /\ inflight' \subseteq {q}
                      /\ q \in inflight' => current' = 0 /\ q \in connected
    BY DEF LoneIsLast
  <2>1. Pending(q)
    BY DEF Pending
  <2>2. q = r
    BY <2>1 DEF LoneInv, LoneIsLast, Pending
  <2> QED
    BY <2>1, <2>2 DEF LoneInv, LoneIsLast
<1>3. BuildConnectionsPending'
  BY <1>t DEF BuildConnectionsPending
<1>4. LonePushSeen'
  <2> SUFFICES ASSUME r \notin overlapped, kind[r] = "push"
               PROVE  /\ \A c \in connected : kind[c] = "push"
                      /\ unread' /\ \E c \in connected : kind[c] = "push"
    BY DEF LonePushSeen
  <2>1. \A c \in connected : kind[c] # "build"
    BY <1>l DEF LoneInv, BuildConnectionsPending
  <2>2. \A c \in connected : kind[c] \in Slots
    BY <1>t DEF IInv, Bookkeeping, Slots
  <2> QED
    BY <2>1, <2>2, <1>l DEF Slots
<1>5. LoneBuildSeen'
  <2> SUFFICES ASSUME r \notin overlapped, OnlyBuildsUpTo(r)
               PROVE  \E c \in connected : kind[c] = "build"
    BY DEF LoneBuildSeen, OnlyBuildsUpTo
  <2>1. kind[r] = "build"
    BY DEF OnlyBuildsUpTo, Requests
  <2> QED
    BY <2>1, <1>l
<1>6. LonePushFailureTroubleshot'
  BY <1>f, <1>c DEF LoneInv, LonePushFailureTroubleshot, Lone, Failed, Troubleshot
<1>7. LoneBuildReported'
  BY <1>f DEF LoneInv, LoneBuildReported, Lone, Examined
<1> QED
  BY <1>1, <1>2, <1>3, <1>4, <1>5, <1>6, <1>7 DEF LoneInv

\* A slot is called: it leaves no build connection, and it is the one that a
\* lone reply has waited for.
LEMMA SlotLoneInv ==
  ASSUME IInv, LoneInv, NEW c \in Requests, BuildImageFinished(c) \/ PushImageFinished(c)
  PROVE  LoneInv'
<1> USE DEF BuildImageFinished, PushImageFinished, IsNextSlot
<1>u. /\ UNCHANGED << kind, inflight, current, result, overlapped >>
      /\ connected' = connected \ BuildConnections
      /\ todo' \subseteq todo /\ calls \subseteq calls' /\ c \in todo
  OBVIOUS
<1>t. /\ kind \in [Requests -> Slots \cup {Unposted}] /\ connected \subseteq Requests
      /\ current # 0 /\ current \in Requests /\ kind[c] # Unposted
  BY DEF IInv, TypeOK, Bookkeeping
<1>f. Finished' = Finished
  BY <1>u DEF Finished, Posted
<1>1. InOrder'
  BY <1>u DEF LoneInv, InOrder
<1>2. LoneIsLast'
  BY <1>u, <1>t DEF LoneInv, LoneIsLast, Pending
<1>3. BuildConnectionsPending'
  BY <1>u DEF BuildConnectionsPending, BuildConnections
<1>4. LonePushSeen'
  <2> SUFFICES ASSUME current \notin overlapped, kind[current] = "push"
               PROVE  /\ \A d \in todo' : kind[d] = "push"
                      /\ Failed(current) =>
                           \/ Troubleshot(current, "push")'
                           \/ unread' /\ \E d \in todo' : kind[d] = "push"
    BY <1>u DEF LonePushSeen, Failed
  <2>1. \A d \in todo : kind[d] = "push"
    BY <1>t DEF LoneInv, LonePushSeen
  <2>2. PushImageFinished(c)
    BY <2>1, <1>u
  <2>3. ASSUME Failed(current) PROVE Troubleshot(current, "push")'
    <3>1. CASE Troubleshot(current, "push")
      BY <3>1, <1>u DEF Troubleshot
    <3>2. CASE ~Troubleshot(current, "push")
      <4>1. unread
        BY <2>3, <3>2, <1>t DEF LoneInv, LonePushSeen
      <4>2. ~PushSucceeded
        BY <2>3, <4>1 DEF PushSucceeded, Failed
      <4>3. <<c, current, TRUE>> \in calls'
        BY <2>2, <4>2
      <4> QED
        BY <4>3, <2>1, <1>u DEF Troubleshot
    <3> QED
      BY <3>1, <3>2
  <2> QED
    BY <2>1, <2>3, <1>u
<1>5. LoneBuildSeen'
  <2> SUFFICES ASSUME current \notin overlapped, OnlyBuildsUpTo(current)
               PROVE  Examined(current, "build")'
    BY <1>u DEF LoneBuildSeen, OnlyBuildsUpTo
  <2>1. c <= current
    BY <1>t DEF LoneInv, LoneIsLast, Pending
  <2>2. kind[c] = "build"
    BY <2>1 DEF OnlyBuildsUpTo, Requests
  <2>3. <<c, current, Refused(current)>> \in calls'
    BY <2>2
  <2> QED
    BY <2>2, <2>3, <1>u DEF Examined
<1>6. LonePushFailureTroubleshot'
  BY <1>u, <1>f DEF LoneInv, LonePushFailureTroubleshot, Lone, Failed, Troubleshot
<1>7. LoneBuildReported'
  BY <1>u, <1>f DEF LoneInv, LoneBuildReported, Lone, Examined
<1> QED
  BY <1>1, <1>2, <1>3, <1>4, <1>5, <1>6, <1>7 DEF LoneInv

\* The end of an emission: what the slots have seen becomes the outcome.
LEMMA EmissionEndsLoneInv ==
  ASSUME IInv, LoneInv, EmissionEnds
  PROVE  LoneInv'
<1> USE DEF EmissionEnds
<1>f. \A q \in Finished' : q \in Finished \/ q = current
  BY DEF Finished, Posted
<1>1. InOrder'
  BY DEF LoneInv, InOrder
<1>2. LoneIsLast'
  BY DEF LoneInv, LoneIsLast, Pending, Requests
<1>3. BuildConnectionsPending'
  BY DEF LoneInv, BuildConnectionsPending
<1>4. LonePushSeen' /\ LoneBuildSeen'
  BY DEF LonePushSeen, LoneBuildSeen
<1>5. LonePushFailureTroubleshot'
  <2> SUFFICES ASSUME NEW q \in Finished', Lone(q)', kind[q] = "push", Failed(q)
               PROVE  Troubleshot(q, "push")
    BY DEF LonePushFailureTroubleshot, Failed, Troubleshot
  <2>1. CASE q = current
    BY <2>1 DEF LoneInv, LonePushSeen, Lone
  <2>2. CASE q \in Finished
    BY <2>2 DEF LoneInv, LonePushFailureTroubleshot, Lone
  <2> QED
    BY <2>1, <2>2, <1>f
<1>6. LoneBuildReported'
  <2> SUFFICES ASSUME NEW q \in Finished', Lone(q)', OnlyBuildsUpTo(q)
               PROVE  Examined(q, "build")
    BY DEF LoneBuildReported, Examined, OnlyBuildsUpTo
  <2>1. CASE q = current
    BY <2>1 DEF LoneInv, LoneBuildSeen, Lone
  <2>2. CASE q \in Finished
    BY <2>2 DEF LoneInv, LoneBuildReported, Lone, OnlyBuildsUpTo
  <2> QED
    BY <2>1, <2>2, <1>f
<1> QED
  BY <1>1, <1>2, <1>3, <1>4, <1>5, <1>6 DEF LoneInv

\* Every step of the client preserves what is said of lone requests.
LEMMA NextLoneInv == IInv /\ LoneInv /\ [Next]_vars => LoneInv'
<1> SUFFICES ASSUME IInv, LoneInv, [Next]_vars PROVE LoneInv'
  OBVIOUS
<1>u. ASSUME UNCHANGED << kind, connected, inflight, current, todo, unread, result,
                          calls, overlapped >>
      PROVE  LoneInv'
  BY <1>u DEF LoneInv, InOrder, LoneIsLast, Pending, BuildConnectionsPending,
              LonePushSeen, LoneBuildSeen, OnlyBuildsUpTo, LonePushFailureTroubleshot,
              LoneBuildReported, Lone, Failed, Troubleshot, Examined, Finished, Posted
<1>1. CASE BuildDockerImage
  <2>1. PICK r \in Requests : Post(r, "build")
    BY <1>1 DEF BuildDockerImage
  <2> QED
    BY <1>1, <2>1, PostLoneInv DEF BuildDockerImage, Slots
<1>2. CASE PushDockerImage
  <2>1. PICK r \in Requests : Post(r, "push")
    BY <1>2 DEF PushDockerImage
  <2> QED
    BY <1>2, <2>1, PostLoneInv DEF PushDockerImage, Slots
<1>3. CASE PushDockerImageNoToken
  BY <1>3, <1>u DEF PushDockerImageNoToken
<1>4. ASSUME NEW r \in Requests, ReplyFinishes(r) PROVE LoneInv'
  BY <1>4, ReplyFinishesLoneInv
<1>5. ASSUME NEW c \in Requests, BuildImageFinished(c) \/ PushImageFinished(c)
      PROVE  LoneInv'
  BY <1>5, SlotLoneInv
<1>6. CASE EmissionEnds
  BY <1>6, EmissionEndsLoneInv
<1>7. CASE UNCHANGED vars
  BY <1>7, <1>u DEF vars
<1> QED
  BY <1>1, <1>2, <1>3, <1>4, <1>5, <1>6, <1>7 DEF Next

\* What is said of lone requests holds in every state of every session.
THEOREM LoneInvariance == Spec => []LoneInv
BY InitLoneInv, NextLoneInv, Invariance, PTL DEF Spec

\* A push that overlaps with no other request opens the troubleshooter whenever
\* it fails: the slots left over by earlier requests are all push slots, and the
\* first of them finds the body unread.
THEOREM LonePushesAreTroubleshot == Spec => []LonePushFailureTroubleshot
<1>1. LoneInv => LonePushFailureTroubleshot
  BY DEF LoneInv
<1> QED
  BY <1>1, LoneInvariance, PTL

\* A build that overlaps with no other request is reported by its own slot as
\* long as nothing was pushed before it.
THEOREM LoneBuildsAreReported == Spec => []LoneBuildReported
<1>1. LoneInv => LoneBuildReported
  BY DEF LoneInv
<1> QED
  BY <1>1, LoneInvariance, PTL
=============================================================================
