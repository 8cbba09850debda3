---------------------------- MODULE DockerClient ----------------------------
(***************************************************************************)
(* The Docker client (standalone/source/docker/DockerClient.cpp): builds   *)
(* and pushes are HTTP posts to the local Docker daemon, all of them on    *)
(* one QNetworkAccessManager.  Every post is preceded by a connect() of    *)
(* the manager's `finished` signal to buildImageFinished or to             *)
(* pushImageFinished.  The signal is not tied to a request: when any reply *)
(* finishes, every slot connected at that moment is called, in the order   *)
(* of connection, unless an earlier slot of the same emission has          *)
(* disconnected it (Qt's rule for direct connections).                     *)
(*                                                                         *)
(* Request r is the r-th post; it also names the connection made just      *)
(* before that post, so "the order of connection" is the order of numbers. *)
(* Several variables are history: they record what the slots did, for the  *)
(* properties.                                                             *)
(***************************************************************************)
EXTENDS Naturals, FiniteSets

CONSTANT MaxRequests      \* bound on the number of posts of one session

ASSUME MaxRequestsAssumption == MaxRequests \in Nat

Requests == 1 .. MaxRequests
Slots    == {"build", "push"}

\* What the slots tell apart in a finished reply: no error; no error but a body
\* with "errorDetail"; ConnectionRefusedError or TimeoutError; any other error.
Results == {"ok", "errorDetail", "unreachable", "otherError"}

VARIABLES
  kind,       \* kind[r]: "build" or "push" once request r has been posted
  connected,  \* the connections of `finished` that exist, by request number
  inflight,   \* posted requests whose reply has not finished
  current,    \* the reply whose `finished` is being emitted, 0 if none
  todo,       \* slots (connections) of the current emission still to be called
  unread,     \* nobody has read the body of the current reply yet
  result,     \* result[r]: how reply r finished
  released,   \* replies for which deleteLater() was called
  signal,     \* the signal the last step emitted to the user interface
  running,    \* FALSE once an uncaught exception has ended the program
  calls,      \* history: <<c, r, opened>>, the slot of connection c was called for
              \* reply r and opened a troubleshooter (TRUE) or not (FALSE)
  overlapped  \* history: requests that were in flight together with another

vars == << kind, connected, inflight, current, todo, unread, result, released,
           signal, running, calls, overlapped >>

Unposted == "none"
Posted   == {r \in Requests : kind[r] # Unposted}
Finished == Posted \ (inflight \cup {current})   \* emission over

TypeOK ==
  /\ kind \in [Requests -> Slots \cup {Unposted}]
  /\ connected \subseteq Requests
  /\ inflight \subseteq Requests
  /\ current \in Requests \cup {0}
  /\ todo \subseteq connected
  /\ unread \in BOOLEAN
  /\ result \in [Requests -> Results]
  /\ released \subseteq Requests
  /\ signal \in {"none", "openTroubleshooter", "troubleshootPushImage"}
  /\ running \in BOOLEAN
  /\ calls \subseteq (Requests \X Requests \X BOOLEAN)
  /\ overlapped \subseteq Requests

Init ==
  /\ kind = [r \in Requests |-> Unposted]
  /\ connected = {}
  /\ inflight = {}
  /\ current = 0
  /\ todo = {}
  /\ unread = TRUE
  /\ result = [r \in Requests |-> "ok"]
  /\ released = {}
  /\ signal = "none"
  /\ running = TRUE
  /\ calls = {}
  /\ overlapped = {}

(***************************************************************************)
(* The GUI thread is in its event loop: no emission of `finished` is under *)
(* way, so a click or the next reply can be handled.                       *)
(***************************************************************************)
AtEventLoop == running /\ current = 0

\* Mutant: the connection is made for the first request only.
PostConnectOnce(r, slot) ==
  /\ kind[r] = Unposted
  /\ \A q \in Requests : q < r => kind[q] # Unposted
  /\ kind' = [kind EXCEPT ![r] = slot]
  /\ connected' = IF r = 1 THEN {r} ELSE connected
  /\ inflight' = inflight \cup {r}
  /\ overlapped' = IF inflight = {} THEN overlapped
                   ELSE overlapped \cup inflight \cup {r}
  /\ UNCHANGED << current, todo, unread, result, released, running, calls >>

\* connect(finished, slot) and post(): the common end of the three requests.
Post(r, slot) ==
  /\ kind[r] = Unposted
  /\ \A q \in Requests : q < r => kind[q] # Unposted
  /\ kind' = [kind EXCEPT ![r] = slot]
  /\ connected' = connected \cup {r}
  /\ inflight' = inflight \cup {r}
  /\ overlapped' = IF inflight = {} THEN overlapped
                   ELSE overlapped \cup inflight \cup {r}
  /\ UNCHANGED << current, todo, unread, result, released, running, calls >>

\* buildDockerImage (when the tar file does not open it changes nothing) and
\* buildDockerImageFromGit differ only in the URL and the body they post.
BuildDockerImage ==
  /\ AtEventLoop
  /\ signal' = "none"
  /\ \E r \in Requests : Post(r, "build")

\* getEcrToken succeeds, then connect and post.
PushDockerImage ==
  /\ AtEventLoop
  /\ signal' = "none"
  /\ \E r \in Requests : Post(r, "push")

\* getEcrToken takes the first element of the list in a failed outcome: the
\* list is empty and at(0) throws out of an event handler.
PushDockerImageNoToken ==
  /\ AtEventLoop
  /\ \E r \in Requests : kind[r] = Unposted
  /\ running' = FALSE
  /\ signal' = "none"
  /\ UNCHANGED << kind, connected, inflight, current, todo, unread, result,
                  released, calls, overlapped >>

(***************************************************************************)
(* The network: a reply finishes and the manager starts to emit `finished` *)
(* over the connections that exist now.                                    *)
(***************************************************************************)
ReplyFinishes(r) ==
  /\ AtEventLoop
  /\ r \in inflight
  /\ \E res \in Results : result' = [result EXCEPT ![r] = res]
  /\ inflight' = inflight \ {r}
  /\ current' = r
  /\ todo' = connected
  /\ unread' = TRUE
  /\ signal' = "none"
  /\ UNCHANGED << kind, connected, released, running, calls, overlapped >>

IsNextSlot(c) ==
  /\ c \in todo
  /\ \A d \in todo : c <= d

\* Mutants of the disconnect(): nothing is removed; every connection is.
NoConnections  == {}
AllConnections == connected

\* Both slots begin with the same disconnect(): it removes every connection to
\* buildImageFinished, and none to pushImageFinished.  A slot disconnected
\* while the signal is emitted is not called any more.
BuildConnections == {c \in connected : kind[c] = "build"}

Refused(r) == result[r] = "unreachable"

\* Mutant: a slot that was disconnected while the signal is emitted is called
\* all the same, as it is over a queued connection.
BuildFinishedQueued(c) ==
  /\ IsNextSlot(c)
  /\ kind[c] = "build"
  /\ connected' = connected \ BuildConnections
  /\ todo' = todo \ {c}
  /\ signal' = IF Refused(current) THEN "openTroubleshooter" ELSE "none"
  /\ released' = IF Refused(current) THEN released ELSE released \cup {current}
  /\ calls' = calls \cup {<<c, current, Refused(current)>>}
  /\ unread' = (unread /\ Refused(current))
  /\ UNCHANGED << kind, inflight, current, result, running, overlapped >>

BuildImageFinished(c) ==
  /\ IsNextSlot(c)
  /\ kind[c] = "build"
  /\ connected' = connected \ BuildConnections
  /\ todo' = todo \ (BuildConnections \cup {c})
  /\ signal' = IF Refused(current) THEN "openTroubleshooter" ELSE "none"
  /\ released' = IF Refused(current) THEN released ELSE released \cup {current}
  /\ calls' = calls \cup {<<c, current, Refused(current)>>}
  /\ unread' = (unread /\ Refused(current))
  /\ UNCHANGED << kind, inflight, current, result, running, overlapped >>

\* Mutants: the body is tested and the error is not; a body that another slot
\* has read is taken for an error.
BodyHasNoError  == ~(unread /\ result[current] = "errorDetail")
BodyReadAndGood == unread /\ result[current] = "ok"

\* readAll() returns what no earlier slot of this emission has read, so a body
\* read before shows no "errorDetail".
PushSucceeded ==
  \/ result[current] = "ok"
  \/ result[current] = "errorDetail" /\ ~unread

PushImageFinished(c) ==
  /\ IsNextSlot(c)
  /\ kind[c] = "push"
  /\ connected' = connected \ BuildConnections
  /\ todo' = (todo \ BuildConnections) \ {c}
  /\ signal' = IF PushSucceeded THEN "none" ELSE "troubleshootPushImage"
  /\ released' = IF PushSucceeded THEN released \cup {current} ELSE released
  /\ calls' = calls \cup {<<c, current, ~PushSucceeded>>}
  /\ unread' = (unread /\ result[current] \notin {"ok", "errorDetail"})
  /\ UNCHANGED << kind, inflight, current, result, running, overlapped >>

EmissionEnds ==
  /\ current # 0
  /\ todo = {}
  /\ current' = 0
  /\ signal' = "none"
  /\ UNCHANGED << kind, connected, inflight, todo, unread, result, released,
                  running, calls, overlapped >>

Next ==
  \/ BuildDockerImage
  \/ PushDockerImage
  \/ PushDockerImageNoToken
  \/ \E r \in Requests : ReplyFinishes(r)
  \/ \E c \in Requests : BuildImageFinished(c)
  \/ \E c \in Requests : PushImageFinished(c)
  \/ EmissionEnds

Spec == Init /\ [][Next]_vars

-----------------------------------------------------------------------------
Failed(r)         == result[r] # "ok"
Examined(r, s)    == \E x \in calls : x[2] = r /\ kind[x[1]] = s
Troubleshot(r, s) == \E x \in calls : x[2] = r /\ kind[x[1]] = s /\ x[3]
Lone(r)           == r \in Finished /\ r \notin overlapped

\* Every push reply is examined by pushImageFinished, whatever builds and
\* pushes overlap with it: the disconnect() of another reply's slot never takes
\* a push's own connection away (DockerClient.cpp:43, 111).
PushRepliesExamined ==
  \A r \in Finished : kind[r] = "push" => Examined(r, "push")

\* A push that fails on the network opens the push troubleshooter, whatever
\* other slots run for the same reply (DockerClient.cpp:137-141).
NetworkFailureTroubleshot ==
  \A r \in Finished :
    kind[r] = "push" /\ result[r] \in {"unreachable", "otherError"} => Troubleshot(r, "push")

\* A push that overlapped with no other request and that the registry refused
\* ("errorDetail" in a reply without error) opens the push troubleshooter: no
\* slot reads its body first and passes it over, for the slots left over from
\* earlier requests are push slots, which open the troubleshooter themselves.
LonePushFailureTroubleshot ==
  \A r \in Finished :
    Lone(r) /\ kind[r] = "push" /\ Failed(r) => Troubleshot(r, "push")

\* A build that overlapped with no other request, before any push of the
\* session, is examined by buildImageFinished (DockerClient.cpp:37, 43).
LoneBuildReported ==
  \A r \in Finished :
    Lone(r) /\ (\A q \in 1 .. r : kind[q] = "build") => Examined(r, "build")

\* A connection of buildImageFinished is called for one reply at most, and a
\* reply calls buildImageFinished once at most, however many builds overlap.
BuildReportedOnce ==
  \A x, y \in {z \in calls : kind[z[1]] = "build"} :
    x[1] = y[1] \/ x[2] = y[2] => x = y

\* A troubleshooter opens only for a reply that failed, however many slots
\* handle it and whoever reads its body first.
AlarmsAreFailures == \A x \in calls : x[3] => Failed(x[2])

\* What README.md:7 promises of failures ("Instead of giving you error messages
\* ... proposes solutions"): for every refused build and every failed push some
\* slot opens a troubleshooter, be it one left over from another request.
FailuresTroubleshot ==
  \A r \in Finished :
    (kind[r] = "build" /\ Refused(r)) \/ (kind[r] = "push" /\ Failed(r)) =>
      \E x \in calls : x[2] = r /\ x[3]
=============================================================================
