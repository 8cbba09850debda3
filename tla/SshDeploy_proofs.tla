--------------------------- MODULE SshDeploy_proofs ---------------------------
(***************************************************************************)
(* Proofs about SshDeploy, for any number of deployments and of health     *)
(* checks: type correctness, that a deployment which fails gives its       *)
(* session back, and that monitoring goes on until the service was healthy.*)
(***************************************************************************)
EXTENDS SshDeploy, TLAPS

(***************************************************************************)
(* The inductive invariant.                                                *)
(***************************************************************************)
\* A deployment in progress has begun, and the program has not exited.
Begun == step # "idle" => deploys \in Deploys /\ running

\* Nothing belongs to a deployment that has not begun.
NothingAhead ==
  \A d \in Deploys : d > deploys =>
    session[d] = "none" /\ channel[d] = "none" /\ d \notin loggedIn

\* What the deployment in progress holds at each of its steps.
HeldInProgress ==
  step # "idle" =>
    /\ channel[Current] = "none"
    /\ session[Current] = IF step = "connect" THEN "new" ELSE "open"
    /\ Current \in loggedIn <=> step = "exec"

\* What a deployment that is over has left behind.
Over(d) == step = "idle" \/ d < Current

LeftBehind ==
  \A d \in 1 .. deploys : Over(d) =>
    /\ session[d] = "open" <=> d \in loggedIn
    /\ session[d] = "freed" => channel[d] = "none"

IInv ==
  /\ TypeOK
  /\ Begun
  /\ NothingAhead
  /\ HeldInProgress
  /\ LeftBehind
  /\ MonitoredUntilHealthy

USE BoundsAssumption

-----------------------------------------------------------------------------
\* Every part of the invariant holds before the first deployment.
LEMMA InitIInv == Init => IInv
<1> SUFFICES ASSUME Init PROVE IInv
  OBVIOUS
<1>1. /\ answers \in [ok : 0 .. MaxOutstanding, bad : 0 .. MaxOutstanding]
      /\ asked = 0 /\ answers.ok = 0 /\ answers.bad = 0
  BY DEF Init
<1>2. TypeOK
  <2>1. asked \in 0 .. MaxOutstanding /\ asked + answers.ok + answers.bad <= MaxOutstanding
    BY <1>1
  <2>2. /\ step = "idle" /\ deploys \in 0 .. MaxDeploys /\ loggedIn \subseteq Deploys
        /\ session \in [Deploys -> {"none", "new", "open", "freed"}]
        /\ channel \in [Deploys -> {"none", "open"}]
    BY DEF Init
  <2>3. /\ running \in BOOLEAN /\ timer \in BOOLEAN
        /\ healthy \in BOOLEAN /\ unconfirmed \in BOOLEAN
    BY DEF Init
  <2> QED
    BY <1>1, <2>1, <2>2, <2>3 DEF TypeOK
<1>3. Begun /\ NothingAhead /\ HeldInProgress /\ LeftBehind /\ MonitoredUntilHealthy
  BY DEF Init, Begun, NothingAhead, HeldInProgress, LeftBehind, MonitoredUntilHealthy
<1> QED
  BY <1>2, <1>3 DEF IInv

(***************************************************************************)
(* A step of the deployment changes what one deployment holds; the others  *)
(* keep what they had.                                                     *)
(***************************************************************************)
\* deployDockerImage begins: the new session is the new deployment's, or the
\* program exits and nothing begins.
LEMMA DeployDockerImageIInv == IInv /\ DeployDockerImage => IInv'
<1> SUFFICES ASSUME IInv, DeployDockerImage PROVE IInv'
  OBVIOUS
<1> USE DEF IInv, DeployDockerImage
<1>1. CASE /\ running' = FALSE
           /\ UNCHANGED << deploys, session, step >>
  <2>1. TypeOK'
    BY <1>1 DEF TypeOK
  <2>2. Begun' /\ MonitoredUntilHealthy'
    BY <1>1 DEF Begun, MonitoredUntilHealthy
  <2>3. NothingAhead' /\ HeldInProgress' /\ LeftBehind'
    BY <1>1 DEF NothingAhead, HeldInProgress, LeftBehind, Over, Current
  <2> QED
    BY <2>1, <2>2, <2>3
<1>2. CASE /\ deploys' = deploys + 1
           /\ session' = [session EXCEPT ![deploys + 1] = "new"]
           /\ step' = "connect"
           /\ UNCHANGED running
  <2>0. deploys' \in Deploys
    BY <1>2 DEF TypeOK, Deploys
  <2>1. TypeOK'
    BY <1>2, <2>0 DEF TypeOK, Deploys
  <2>2. Begun' /\ MonitoredUntilHealthy'
    BY <1>2, <2>0 DEF Begun, MonitoredUntilHealthy
  <2>3. NothingAhead'
    BY <1>2 DEF NothingAhead, TypeOK, Deploys
  <2>4. HeldInProgress'
    BY <1>2, <2>0 DEF HeldInProgress, NothingAhead, TypeOK, Current, Deploys
  <2>5. LeftBehind'
    BY <1>2 DEF LeftBehind, Over, TypeOK, Deploys, Current
  <2> QED
    BY <2>1, <2>2, <2>3, <2>4, <2>5
<1> QED
  BY <1>1, <1>2

\* ssh_connect: the session is open, or it is freed and the deployment is over.
LEMMA ConnectIInv == IInv /\ Connect => IInv'
<1> SUFFICES ASSUME IInv, Connect PROVE IInv'
  OBVIOUS
<1> USE DEF IInv, Connect, Current
<1>1. TypeOK' /\ Begun' /\ MonitoredUntilHealthy'
  BY DEF TypeOK, Begun, MonitoredUntilHealthy
<1>2. NothingAhead'
  BY DEF NothingAhead, TypeOK, Deploys, Begun
<1>3. HeldInProgress'
  BY DEF HeldInProgress, TypeOK, Deploys, Begun
<1>4. LeftBehind'
  BY DEF LeftBehind, HeldInProgress, Over, TypeOK, Deploys, Begun
<1> QED
  BY <1>1, <1>2, <1>3, <1>4

\* The login: a refused one frees the session, an accepted one is recorded.
LEMMA AuthenticateIInv == IInv /\ Authenticate => IInv'
<1> SUFFICES ASSUME IInv, Authenticate PROVE IInv'
  OBVIOUS
<1> USE DEF IInv, Authenticate, Current
<1>1. TypeOK' /\ Begun' /\ MonitoredUntilHealthy'
  BY DEF TypeOK, Begun, MonitoredUntilHealthy
<1>2. NothingAhead'
  BY DEF NothingAhead, TypeOK, Deploys, Begun
<1>3. HeldInProgress'
  BY DEF HeldInProgress, TypeOK, Deploys, Begun
<1>4. LeftBehind'
  BY DEF LeftBehind, HeldInProgress, Over, TypeOK, Deploys, Begun
<1> QED
  BY <1>1, <1>2, <1>3, <1>4

\* The remote command: the channel stays open only on a session that is open,
\* and the timer starts whatever came of it.
LEMMA ExecuteSshCommandIInv == IInv /\ ExecuteSshCommand => IInv'
<1> SUFFICES ASSUME IInv, ExecuteSshCommand PROVE IInv'
  OBVIOUS
<1> USE DEF IInv, ExecuteSshCommand, Current
<1>1. TypeOK' /\ Begun' /\ MonitoredUntilHealthy'
  BY DEF TypeOK, Begun, MonitoredUntilHealthy
<1>2. NothingAhead'
  BY DEF NothingAhead, TypeOK, Deploys, Begun
<1>3. HeldInProgress'
  BY DEF HeldInProgress
<1>4. LeftBehind'
  BY DEF LeftBehind, HeldInProgress, Over, TypeOK, Deploys, Begun
<1> QED
  BY <1>1, <1>2, <1>3, <1>4

(***************************************************************************)
(* The health checks touch no deployment.                                  *)
(***************************************************************************)
\* A step that leaves the SSH side alone disturbs only the types and the link
\* between the timer and what is unconfirmed.
LEMMA HealthIInv ==
  ASSUME IInv, UNCHANGED sshVars, TypeOK', MonitoredUntilHealthy'
  PROVE  IInv'
BY DEF IInv, sshVars, Begun, NothingAhead, HeldInProgress, LeftBehind, Over, Current

\* A check is sent only while fewer than MaxOutstanding are unanswered.
LEMMA HealthCheckIInv == IInv /\ HealthCheck => IInv'
<1> SUFFICES ASSUME IInv, HealthCheck PROVE IInv'
  OBVIOUS
<1>1. TypeOK' /\ MonitoredUntilHealthy'
  BY DEF IInv, HealthCheck, TypeOK, sshVars, MonitoredUntilHealthy
<1> QED
  BY <1>1, HealthIInv DEF HealthCheck

\* An answer takes the place of the check it answers.
LEMMA AnswerIInv == IInv /\ (AnswerOk \/ AnswerBad) => IInv'
<1> SUFFICES ASSUME IInv, AnswerOk \/ AnswerBad PROVE IInv'
  OBVIOUS
<1>1. MonitoredUntilHealthy'
  BY DEF IInv, AnswerOk, AnswerBad, sshVars, MonitoredUntilHealthy
<1>2. /\ asked \in Nat /\ asked > 0 /\ asked' = asked - 1
      /\ answers.ok \in Nat /\ answers.bad \in Nat
      /\ answers \in [ok : Nat, bad : Nat]
      /\ asked + answers.ok + answers.bad <= MaxOutstanding
  BY DEF IInv, AnswerOk, AnswerBad, TypeOK
<1>3. \/ answers' = [ok |-> answers.ok + 1, bad |-> answers.bad]
      \/ answers' = [ok |-> answers.ok, bad |-> answers.bad + 1]
  BY <1>2 DEF AnswerOk, AnswerBad
<1>4. TypeOK'
  BY <1>2, <1>3 DEF IInv, AnswerOk, AnswerBad, TypeOK, sshVars
<1> QED
  BY <1>1, <1>4, HealthIInv DEF AnswerOk, AnswerBad

\* replyFinished: an answer 200 stops the timer, and there is nothing left to
\* confirm; any other answer leaves both alone.
LEMMA ReplyFinishedIInv ==
  ASSUME IInv, NEW kind \in {"ok", "bad"}, ReplyFinished(kind)
  PROVE  IInv'
<1> USE DEF ReplyFinished, Handled, StopIfHealthy
<1>1. MonitoredUntilHealthy'
  BY DEF IInv, MonitoredUntilHealthy, sshVars
<1>2. /\ answers.ok \in Nat /\ answers.bad \in Nat /\ asked \in Nat
      /\ answers \in [ok : Nat, bad : Nat]
      /\ asked + answers.ok + answers.bad <= MaxOutstanding
  BY DEF IInv, TypeOK
<1>3. \/ answers.ok > 0 /\ answers' = [ok |-> answers.ok - 1, bad |-> answers.bad]
      \/ answers.bad > 0 /\ answers' = [ok |-> answers.ok, bad |-> answers.bad - 1]
  BY <1>2
<1>4. /\ answers' \in [ok : 0 .. MaxOutstanding, bad : 0 .. MaxOutstanding]
      /\ asked' + answers'.ok + answers'.bad <= MaxOutstanding
  BY <1>2, <1>3
<1>5. TypeOK
  BY DEF IInv
<1>6. timer' \in BOOLEAN /\ unconfirmed' \in BOOLEAN
  BY <1>5, Zenon DEF TypeOK
<1>7. TypeOK'
  BY <1>4, <1>5, <1>6 DEF TypeOK, sshVars
<1> QED
  BY <1>1, <1>7, HealthIInv

(***************************************************************************)
(* The invariant, and what it implies.                                     *)
(***************************************************************************)
\* Every step preserves the inductive invariant.
LEMMA NextIInv == IInv /\ [Next]_vars => IInv'
<1> SUFFICES ASSUME IInv, [Next]_vars PROVE IInv'
  OBVIOUS
<1>1. CASE DeployDockerImage
  BY <1>1, DeployDockerImageIInv
<1>2. CASE Connect
  BY <1>2, ConnectIInv
<1>3. CASE Authenticate
  BY <1>3, AuthenticateIInv
<1>4. CASE ExecuteSshCommand
  BY <1>4, ExecuteSshCommandIInv
<1>5. CASE HealthCheck
  BY <1>5, HealthCheckIInv
<1>6. CASE AnswerOk \/ AnswerBad
  BY <1>6, AnswerIInv
<1>7. CASE ServiceChanges
  <2>1. TypeOK' /\ MonitoredUntilHealthy'
    BY <1>7 DEF IInv, ServiceChanges, TypeOK, sshVars, MonitoredUntilHealthy
  <2> QED
    BY <1>7, <2>1, HealthIInv DEF ServiceChanges
<1>8. ASSUME NEW kind \in {"ok", "bad"}, ReplyFinished(kind) PROVE IInv'
  BY <1>8, ReplyFinishedIInv
<1>9. CASE UNCHANGED vars
  <2>1. TypeOK' /\ MonitoredUntilHealthy'
    BY <1>9 DEF IInv, vars, sshVars, TypeOK, MonitoredUntilHealthy
  <2> QED
    BY <1>9, <2>1, HealthIInv DEF vars
<1> QED
  BY <1>1, <1>2, <1>3, <1>4, <1>5, <1>6, <1>7, <1>8, <1>9 DEF Next

\* The invariant holds in every state of every session.
THEOREM Invariance == Spec => []IInv
BY InitIInv, NextIInv, PTL DEF Spec

\* The state keeps its shape; no more checks are unanswered than were sent.
THEOREM TypeCorrect == Spec => []TypeOK
<1>1. IInv => TypeOK
  BY DEF IInv
<1> QED
  BY <1>1, Invariance, PTL

\* Wherever a deployment fails, it has freed its session, and only then; a
\* freed session has no channel.
THEOREM NoFailureKeepsASession == Spec => []FailedDeploysReleaseSession
<1>1. IInv => FailedDeploysReleaseSession
  <2> SUFFICES ASSUME IInv, NEW d \in 1 .. deploys
               PROVE  /\ Over(d) => (session[d] = "open" <=> d \in loggedIn)
                      /\ session[d] = "freed" => channel[d] = "none"
    BY DEF FailedDeploysReleaseSession, Over
  <2>1. CASE Over(d)
    BY <2>1 DEF IInv, LeftBehind
  <2>2. CASE ~Over(d)
    <3>1. d = Current /\ step # "idle"
      BY <2>2 DEF IInv, Over, Current, TypeOK
    <3> QED
      BY <2>2, <3>1 DEF IInv, HeldInProgress
  <2> QED
    BY <2>1, <2>2
<1> QED
  BY <1>1, Invariance, PTL

\* No answer that is late or of another kind ends the monitoring of a
\* deployment: it goes on until an answer 200 has come.
THEOREM MonitoringIsNotLost == Spec => []MonitoredUntilHealthy
<1>1. IInv => MonitoredUntilHealthy
  BY DEF IInv
<1> QED
  BY <1>1, Invariance, PTL
=============================================================================
