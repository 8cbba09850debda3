--------------------- MODULE DockerTroubleshooting_proofs ---------------------
(***************************************************************************)
(* Proofs about the Docker client together with the troubleshooter, for    *)
(* any number of requests and any catalogue: the composition implements    *)
(* the client alone, so that everything proved of the client holds in it;  *)
(* a dialog explains a failure; and which catalogues the program survives. *)
(***************************************************************************)
EXTENDS DockerTroubleshooting, DockerClient_proofs

-----------------------------------------------------------------------------
(***************************************************************************)
(* The composition implements the client.                                  *)
(***************************************************************************)
\* Every step of the composition is a step of the client or leaves it alone.
LEMMA StepIsClientStep == [SystemNext]_systemVars => [Next]_vars
BY DEF SystemNext, DockerStep, UserAnswers, systemVars

\* Whatever the troubleshooter does, the client goes on as it does alone.
THEOREM SystemImplementsClient == SystemSpec => Spec
<1>1. SystemInit => Init
  BY DEF SystemInit
<1> QED
  BY <1>1, StepIsClientStep, PTL DEF SystemSpec, Spec

\* Some reply that a slot has seen had failed.
SomeFailureSeen == \E x \in calls : x[3] /\ Failed(x[2])

\* A step that emits a signal to Main.qml records a failure that a slot has seen,
\* and no step takes a recorded one away.
LEMMA SignalsComeFromFailures ==
  ASSUME IInv, IInv', [Next]_vars
  PROVE  /\ SomeFailureSeen => SomeFailureSeen'
         /\ Next /\ signal' # "none" => SomeFailureSeen'
<1>c. \A x \in calls : x \in calls' /\ result'[x[2]] = result[x[2]]
  <2> SUFFICES ASSUME NEW x \in calls PROVE x \in calls' /\ result'[x[2]] = result[x[2]]
    OBVIOUS
  <2>1. x[2] \in Requests /\ x[2] \notin inflight
    BY CallComponents DEF IInv, CallsAreFinished
  <2>2. \/ UNCHANGED << calls, result >>
        \/ UNCHANGED result /\ calls \subseteq calls'
        \/ \E r \in Requests : ReplyFinishes(r)
    BY DEF Next, BuildDockerImage, PushDockerImage, Post, PushDockerImageNoToken,
           BuildImageFinished, PushImageFinished, EmissionEnds, vars
  <2>3. ASSUME NEW r \in Requests, ReplyFinishes(r)
        PROVE  x \in calls' /\ result'[x[2]] = result[x[2]]
    BY <2>1, <2>3 DEF ReplyFinishes, IInv, TypeOK
  <2> QED
    BY <2>2, <2>3
<1>1. SomeFailureSeen => SomeFailureSeen'
  BY <1>c DEF SomeFailureSeen, Failed
<1>2. ASSUME Next, signal' # "none" PROVE SomeFailureSeen'
  <2>1. PICK c \in Requests : BuildImageFinished(c) \/ PushImageFinished(c)
    BY <1>2 DEF Next, BuildDockerImage, PushDockerImage, PushDockerImageNoToken,
                ReplyFinishes, EmissionEnds
  <2>2. \E x \in calls' : x[3]
    <3>1. CASE BuildImageFinished(c)
      <4>1. Refused(current)
        BY <1>2, <3>1 DEF BuildImageFinished
      <4>2. <<c, current, TRUE>> \in calls'
        BY <3>1, <4>1 DEF BuildImageFinished
      <4> QED
        BY <4>2
    <3>2. CASE PushImageFinished(c)
      <4>1. ~PushSucceeded
        BY <1>2, <3>2 DEF PushImageFinished
      <4>2. <<c, current, TRUE>> \in calls'
        BY <3>2, <4>1 DEF PushImageFinished
      <4> QED
        BY <4>2
    <3> QED
      BY <2>1, <3>1, <3>2
  <2> QED
    BY <2>2 DEF SomeFailureSeen, IInv, AlarmsAreFailures
<1> QED
  BY <1>1, <1>2

-----------------------------------------------------------------------------
(***************************************************************************)
(* The dialog.                                                             *)
(***************************************************************************)
\* The names of the solutions of docker_not_found, the only ones ever listed.
DockerItems == {s.name : s \in UI!SolutionsOf("docker_not_found")}

\* A build connection has reported only if the problem was set.
ProblemIsSet ==
  (\E r \in Requests : Troubleshot(r, "build")) => problem = "docker_not_found"

DialogInv ==
  /\ IInv
  /\ DialogTypeOK
  /\ problem \in {NoProblem, "docker_not_found"}
  /\ items \subseteq DockerItems
  /\ dialog => SomeFailureSeen
  /\ ProblemIsSet
  /\ dialog => items = DockerItems

\* Nothing is listed before the first failure.
LEMMA InitDialogInv == SystemInit => DialogInv
<1> SUFFICES ASSUME SystemInit PROVE DialogInv
  OBVIOUS
<1>1. IInv
  BY InitIInv DEF SystemInit
<1>2. DialogTypeOK
  BY DEF SystemInit, DialogTypeOK, UI!Init, UI!TypeOK
<1>3. calls = {} /\ problem = NoProblem /\ items = {} /\ dialog = FALSE
  BY DEF SystemInit, Init, UI!Init
<1> QED
  BY <1>1, <1>2, <1>3 DEF DialogInv, ProblemIsSet, Troubleshot

\* What the history says of builds changes only with the signal of a refused one.
LEMMA BuildTroubleshotBySignal ==
  ASSUME IInv, Next, signal' # "openTroubleshooter",
         NEW r \in Requests, Troubleshot(r, "build")'
  PROVE  \E q \in Requests : Troubleshot(q, "build")
<1>1. PICK x \in calls' : x[2] = r /\ kind'[x[1]] = "build" /\ x[3]
  BY DEF Troubleshot
<1>2. CASE x \in calls
  <2>1. x[1] \in Requests /\ kind[x[1]] # Unposted
    BY <1>2, CallComponents DEF IInv, CallsAreFinished
  <2>2. kind'[x[1]] = kind[x[1]]
    BY <2>1 DEF Next, BuildDockerImage, PushDockerImage, Post, PushDockerImageNoToken,
           ReplyFinishes, BuildImageFinished, PushImageFinished, EmissionEnds, IInv, TypeOK
  <2> QED
    BY <1>1, <1>2, <2>2 DEF Troubleshot
<1>3. CASE x \notin calls
  <2>1. PICK c \in Requests : BuildImageFinished(c) \/ PushImageFinished(c)
    BY <1>3 DEF Next, BuildDockerImage, PushDockerImage, Post, PushDockerImageNoToken,
                ReplyFinishes, EmissionEnds
  <2>2. CASE BuildImageFinished(c)
    BY <1>1, <1>3, <2>2 DEF BuildImageFinished
  <2>3. CASE PushImageFinished(c)
    BY <1>1, <1>3, <2>3 DEF PushImageFinished
  <2> QED
    BY <2>1, <2>2, <2>3
<1> QED
  BY <1>2, <1>3

\* Every step keeps the dialog explained.
LEMMA NextDialogInv == DialogInv /\ [SystemNext]_systemVars => DialogInv'
<1> SUFFICES ASSUME DialogInv, [SystemNext]_systemVars PROVE DialogInv'
  OBVIOUS
<1>i. IInv'
  BY StepIsClientStep, NextIInv DEF DialogInv
<1>f. SomeFailureSeen => SomeFailureSeen'
  BY <1>i, StepIsClientStep, SignalsComeFromFailures DEF DialogInv
<1>d. DockerItems \subseteq UI!ItemNames
  BY DEF DockerItems, UI!SolutionsOf, UI!ItemNames
<1>b. ASSUME UNCHANGED vars PROVE ProblemIsSet' <=> (problem' = "docker_not_found" \/ \A r \in Requests : ~Troubleshot(r, "build"))
  BY <1>b DEF ProblemIsSet, Troubleshot, vars
<1>1. CASE DockerStep
  <2> USE <1>1 DEF DockerStep
  <2>1. CASE signal' = "none" /\ UNCHANGED uiVars
    <3>1. DialogTypeOK'
      BY <2>1 DEF DialogInv, DialogTypeOK, UI!TypeOK, uiVars
    <3>2. ProblemIsSet'
      BY <2>1, BuildTroubleshotBySignal DEF DialogInv, ProblemIsSet, uiVars
    <3> QED
      BY <1>i, <1>f, <2>1, <3>1, <3>2 DEF DialogInv, uiVars
  <2>2. CASE signal' = "openTroubleshooter" /\ UI!OnOpenTroubleshooter("docker_not_found")
    <3> USE DEF UI!OnOpenTroubleshooter, UI!GetSolutions
    <3>1. SomeFailureSeen'
      BY <1>i, <2>2, SignalsComeFromFailures DEF DialogInv
    <3>2. /\ items' = DockerItems /\ problem' = "docker_not_found" /\ dialog' = TRUE
          /\ crashed' \in BOOLEAN /\ ran' = ran
      BY <2>2 DEF DockerItems
    <3>3. DialogTypeOK'
      BY <1>d, <3>2 DEF DialogInv, DialogTypeOK, UI!TypeOK
    <3> QED
      BY <1>i, <3>1, <3>2, <3>3 DEF DialogInv, ProblemIsSet
  <2>3. CASE signal' = "troubleshootPushImage" /\ UI!OnTroubleshootPushImage
    <3> USE DEF UI!OnTroubleshootPushImage, UI!GetSolutions
    <3>1. SomeFailureSeen'
      BY <1>i, <2>3, SignalsComeFromFailures DEF DialogInv
    <3>2. /\ items' = DockerItems /\ problem' = problem /\ dialog' = TRUE
          /\ crashed' \in BOOLEAN /\ ran' = ran
      BY <2>3 DEF DockerItems
    <3>3. DialogTypeOK'
      BY <1>d, <3>2 DEF DialogInv, DialogTypeOK, UI!TypeOK
    <3>4. ProblemIsSet'
      BY <2>3, <3>2, BuildTroubleshotBySignal DEF DialogInv, ProblemIsSet
    <3> QED
      BY <1>i, <3>1, <3>2, <3>3, <3>4 DEF DialogInv
  <2> QED
    BY <2>1, <2>2, <2>3 DEF React
<1>2. CASE UserAnswers
  <2>1. UNCHANGED << problem, items >> /\ dialog' = FALSE
    BY <1>2 DEF UserAnswers, UI!Accept, UI!Reject
  <2>2. crashed' \in BOOLEAN /\ ran' \in SUBSET Catalogue
    <3>1. ASSUME NEW name \in items, UI!Accept(name)
          PROVE  crashed' \in BOOLEAN /\ ran' \in SUBSET Catalogue
      <4>1. UI!Matching(name) \in SUBSET Catalogue
        BY DEF UI!Matching, UI!SolutionsOf
      <4> QED
        BY <3>1, <4>1 DEF UI!Accept, DialogInv, DialogTypeOK, UI!TypeOK
    <3>2. CASE UI!Reject
      BY <3>2 DEF UI!Reject, DialogInv, DialogTypeOK, UI!TypeOK
    <3> QED
      BY <1>2, <3>1, <3>2 DEF UserAnswers
  <2>3. DialogTypeOK'
    BY <2>1, <2>2 DEF DialogInv, DialogTypeOK, UI!TypeOK
  <2>4. ProblemIsSet'
    BY <1>2, <1>b, <2>1 DEF DialogInv, ProblemIsSet, UserAnswers
  <2> QED
    BY <1>i, <2>1, <2>3, <2>4 DEF DialogInv
<1>3. CASE UNCHANGED systemVars
  <2>1. DialogTypeOK'
    BY <1>3 DEF DialogInv, DialogTypeOK, UI!TypeOK, systemVars, uiVars
  <2>2. ProblemIsSet'
    BY <1>3, <1>b DEF DialogInv, ProblemIsSet, systemVars, uiVars
  <2> QED
    BY <1>i, <1>f, <1>3, <2>1, <2>2 DEF DialogInv, systemVars, uiVars
<1> QED
  BY <1>1, <1>2, <1>3 DEF SystemNext

\* The dialog is explained in every state of every session.
THEOREM DialogInvariance == SystemSpec => []DialogInv
BY InitDialogInv, NextDialogInv, PTL DEF SystemSpec

\* The state of the dialog keeps its shape, whatever the catalogue.
THEOREM DialogTypeCorrect == SystemSpec => []DialogTypeOK
<1>1. DialogInv => DialogTypeOK
  BY DEF DialogInv
<1> QED
  BY <1>1, DialogInvariance, PTL

\* A dialog opens only for a reply that a slot has seen fail, and it lists
\* nothing but solutions of docker_not_found, whatever the catalogue.
THEOREM EveryDialogExplainsAFailure == SystemSpec => []DialogExplainsAFailure
<1>1. DialogInv => DialogExplainsAFailure
  BY DEF DialogInv, DialogExplainsAFailure, SomeFailureSeen, DockerItems
<1> QED
  BY <1>1, DialogInvariance, PTL

\* After a refused build every solution that a dialog offers can be accepted,
\* whatever the catalogue: push failures list solutions of the problem it set.
THEOREM OfferedSolutionsResolve == SystemSpec => []SolutionsResolveAfterBuildFailure
<1>1. DialogInv => SolutionsResolveAfterBuildFailure
  <2> SUFFICES ASSUME DialogInv, \E r \in Requests : Troubleshot(r, "build"),
                      NEW name \in items
               PROVE  Resolves(name)
    BY DEF SolutionsResolveAfterBuildFailure
  <2>1. problem = "docker_not_found"
    BY DEF DialogInv, ProblemIsSet
  <2>2. PICK s \in UI!SolutionsOf("docker_not_found") : s.name = name
    BY DEF DialogInv, DockerItems
  <2> QED
    BY <2>1, <2>2 DEF Resolves, UI!Matching
<1> QED
  BY <1>1, DialogInvariance, PTL

-----------------------------------------------------------------------------
(***************************************************************************)
(* Catalogues that the program survives.                                   *)
(***************************************************************************)
\* The solutions of docker_not_found name actions that are registered and
\* implemented, and the empty problem has no solutions.
WellNamedCatalogue ==
  /\ \A s \in UI!SolutionsOf("docker_not_found") : s.action \in Implemented
  /\ UI!SolutionsOf(NoProblem) = {}

\* With a catalogue whose actions are named as they are registered no failure
\* and no accepted solution ends the program.  (solutions.json is not one.)
THEOREM WellNamedCataloguesSurvive ==
  ASSUME WellNamedCatalogue
  PROVE  SystemSpec => []TroubleshooterSurvives
<1>1. SystemInit => TroubleshooterSurvives
  BY DEF SystemInit, UI!Init, TroubleshooterSurvives
<1>2. ASSUME DialogInv, TroubleshooterSurvives, [SystemNext]_systemVars
      PROVE  TroubleshooterSurvives'
  <2>s. \A s \in UI!SolutionsOf("docker_not_found") : s.action \in Registered
    BY WellNamedCatalogue, ImplementedAssumption DEF WellNamedCatalogue
  <2>1. CASE DockerStep
    BY <1>2, <2>1, <2>s DEF DockerStep, React, uiVars, TroubleshooterSurvives,
       UI!OnOpenTroubleshooter, UI!OnTroubleshootPushImage, UI!GetSolutions
  <2>2. ASSUME NEW name \in items, UI!Accept(name) PROVE ~crashed'
    <3>1. \A s \in UI!Matching(name) : s.action \in Implemented
      BY <1>2, WellNamedCatalogue DEF UI!Matching, DialogInv, WellNamedCatalogue
    <3> QED
      BY <1>2, <2>2, <3>1 DEF UI!Accept, TroubleshooterSurvives
  <2>3. CASE UserAnswers
    BY <1>2, <2>2, <2>3 DEF UserAnswers, UI!Reject, TroubleshooterSurvives
  <2>4. CASE UNCHANGED systemVars
    BY <1>2, <2>4 DEF systemVars, uiVars, TroubleshooterSurvives
  <2> QED
    BY <1>2, <2>1, <2>3, <2>4 DEF SystemNext
<1> QED
  BY <1>1, <1>2, DialogInvariance, PTL DEF SystemSpec
=============================================================================
