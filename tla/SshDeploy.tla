----------------------------- MODULE SshDeploy -----------------------------
(***************************************************************************)
(* Deploying the image over SSH and watching its health                    *)
(* (standalone/source/ssh/SshHandler.cpp, source/ssh/Ssh.cpp).             *)
(*                                                                         *)
(* deployDockerImage blocks the GUI thread from ssh_connect to the remote  *)
(* command; each call that can fail is a step, because the machine and the *)
(* network go on meanwhile.  It ends by starting a one-second timer whose  *)
(* ticks send health checks; any answer with status 200 stops the timer.   *)
(* The checks all go to one fixed address, so `healthy' is the state of    *)
(* the service there, whatever machine the image was deployed to.  Several *)
(* checks may be unanswered at once, and they are answered in any order.   *)
(***************************************************************************)
EXTENDS Naturals

CONSTANTS
  MaxDeploys,      \* bound on deployments
  MaxOutstanding   \* bound on health checks that are not answered yet

ASSUME BoundsAssumption == MaxDeploys \in Nat /\ MaxOutstanding \in Nat

Deploys == 1 .. MaxDeploys

VARIABLES
  step,         \* where the deployment in progress is, "idle" if there is none
  deploys,      \* deployments begun
  session,      \* session[d]: the ssh_session of deployment d
  channel,      \* channel[d]: its ssh_channel
  loggedIn,     \* deployments that passed the authentication
  running,      \* FALSE after exit(-1)
  timer,        \* the health timer is active
  asked,        \* health checks without an answer
  answers,      \* answers not yet handled: how many have status 200, how many not
  healthy,      \* the service at the fixed address answers 200
  unconfirmed   \* history: a deployment ended after the last answer 200

sshVars == << step, deploys, session, channel, loggedIn, running >>
vars    == << sshVars, timer, asked, answers, healthy, unconfirmed >>

TypeOK ==
  /\ step \in {"idle", "connect", "auth", "exec"}
  /\ deploys \in 0 .. MaxDeploys
  /\ session \in [Deploys -> {"none", "new", "open", "freed"}]
  /\ channel \in [Deploys -> {"none", "open"}]
  /\ loggedIn \subseteq Deploys
  /\ running \in BOOLEAN
  /\ timer \in BOOLEAN
  /\ asked \in 0 .. MaxOutstanding
  /\ answers \in [ok : 0 .. MaxOutstanding, bad : 0 .. MaxOutstanding]
  /\ asked + answers.ok + answers.bad <= MaxOutstanding
  /\ healthy \in BOOLEAN
  /\ unconfirmed \in BOOLEAN

Init ==
  /\ step = "idle"
  /\ deploys = 0
  /\ session = [d \in Deploys |-> "none"]
  /\ channel = [d \in Deploys |-> "none"]
  /\ loggedIn = {}
  /\ running = TRUE
  /\ timer = FALSE
  /\ asked = 0
  /\ answers = [ok |-> 0, bad |-> 0]
  /\ healthy \in BOOLEAN
  /\ unconfirmed = FALSE

-----------------------------------------------------------------------------
Current == deploys   \* the deployment in progress

\* "Deploy Image": ssh_new() yields a session, or the program exits.
DeployDockerImage ==
  /\ running
  /\ step = "idle"
  /\ deploys < MaxDeploys
  /\ \/ /\ deploys' = deploys + 1
        /\ session' = [session EXCEPT ![deploys + 1] = "new"]
        /\ step' = "connect"
        /\ UNCHANGED running
     \/ /\ running' = FALSE
        /\ UNCHANGED << deploys, session, step >>
  /\ UNCHANGED << channel, loggedIn, timer, asked, answers, healthy, unconfirmed >>

Connect ==
  /\ step = "connect"
  /\ \/ /\ session' = [session EXCEPT ![Current] = "open"]
        /\ step' = "auth"
     \/ /\ session' = [session EXCEPT ![Current] = "freed"]
        /\ step' = "idle"
  /\ UNCHANGED << deploys, channel, loggedIn, running, timer, asked, answers, healthy,
                  unconfirmed >>

\* Mutant: a refused login returns and keeps the session.
AuthenticateAndKeep ==
  /\ step = "auth"
  /\ \/ /\ loggedIn' = loggedIn \cup {Current}
        /\ step' = "exec"
     \/ /\ step' = "idle"
        /\ UNCHANGED loggedIn
  /\ UNCHANGED << session, deploys, channel, running, timer, asked, answers, healthy,
                  unconfirmed >>

\* The key file is read and the login accepted, or the session is closed.
Authenticate ==
  /\ step = "auth"
  /\ \/ /\ loggedIn' = loggedIn \cup {Current}
        /\ step' = "exec"
        /\ UNCHANGED session
     \/ /\ session' = [session EXCEPT ![Current] = "freed"]
        /\ step' = "idle"
        /\ UNCHANGED loggedIn
  /\ UNCHANGED << deploys, channel, running, timer, asked, answers, healthy, unconfirmed >>

\* executeSshCommand frees its channel when it fails and keeps it when the
\* command was sent; its result is not looked at: the timer starts either way.
ExecuteSshCommand ==
  /\ step = "exec"
  /\ \E sent \in BOOLEAN :
       channel' = IF sent THEN [channel EXCEPT ![Current] = "open"] ELSE channel
  /\ step' = "idle"
  /\ timer' = TRUE
  /\ unconfirmed' = TRUE
  /\ UNCHANGED << deploys, session, loggedIn, running, asked, answers, healthy >>

-----------------------------------------------------------------------------
AtEventLoop == running /\ step = "idle"

HealthCheck ==
  /\ AtEventLoop
  /\ timer
  /\ asked + answers.ok + answers.bad < MaxOutstanding
  /\ asked' = asked + 1
  /\ UNCHANGED << sshVars, timer, answers, healthy, unconfirmed >>

\* The service, or the lack of one, at the fixed address.
AnswerOk ==
  /\ asked > 0
  /\ healthy
  /\ asked' = asked - 1
  /\ answers' = [answers EXCEPT !.ok = @ + 1]
  /\ UNCHANGED << sshVars, timer, healthy, unconfirmed >>

AnswerBad ==
  /\ asked > 0
  /\ asked' = asked - 1
  /\ answers' = [answers EXCEPT !.bad = @ + 1]
  /\ UNCHANGED << sshVars, timer, healthy, unconfirmed >>

ServiceChanges ==
  /\ healthy' = ~healthy
  /\ UNCHANGED << sshVars, timer, asked, answers, unconfirmed >>

\* Mutants: the timer stops at every answer, at none, and an answer is handled
\* once more than it came.
StopAtAnyAnswer(kind)  == timer' = FALSE
StopAtNoAnswer(kind)   == UNCHANGED timer
HandledTwice(kind)     == answers' = [answers EXCEPT ![kind] = @ - 2]

Handled(kind) == answers' = [answers EXCEPT ![kind] = @ - 1]

StopIfHealthy(kind) ==
  timer' = IF kind = "ok" THEN FALSE ELSE timer

ReplyFinished(kind) ==
  /\ AtEventLoop
  /\ answers[kind] > 0
  /\ Handled(kind)
  /\ StopIfHealthy(kind)
  /\ unconfirmed' = (unconfirmed /\ kind # "ok")
  /\ UNCHANGED << sshVars, asked, healthy >>

Next ==
  \/ DeployDockerImage
  \/ Connect
  \/ Authenticate
  \/ ExecuteSshCommand
  \/ HealthCheck
  \/ AnswerOk
  \/ AnswerBad
  \/ ServiceChanges
  \/ \E kind \in {"ok", "bad"} : ReplyFinished(kind)

\* The GUI thread goes on, the timer fires, every check is answered or fails,
\* and a healthy service answers some of the checks.
Fairness ==
  /\ WF_vars(Connect)
  /\ WF_vars(Authenticate)
  /\ WF_vars(ExecuteSshCommand)
  /\ WF_vars(HealthCheck)
  /\ WF_vars(AnswerOk \/ AnswerBad)
  /\ SF_vars(AnswerOk)
  /\ \A kind \in {"ok", "bad"} : SF_vars(ReplyFinished(kind))

Spec == Init /\ [][Next]_vars /\ Fairness

-----------------------------------------------------------------------------
\* A deployment that fails leaves no session behind, and no deployment leaves a
\* channel on a session that was freed.  (One that logs in keeps its session
\* and channel for good: SshHandler.cpp:79-80, Ssh.cpp:43-66 are commented out.)
FailedDeploysReleaseSession ==
  \A d \in 1 .. deploys :
    /\ step = "idle" \/ d < Current => (session[d] = "open" <=> d \in loggedIn)
    /\ session[d] = "freed" => channel[d] = "none"

\* After a deployment the health checks go on until an answer 200 has arrived,
\* although answers to checks of before may arrive after it.
MonitoredUntilHealthy == unconfirmed /\ running => timer

\* If the service becomes healthy for good, the health checks end.
MonitoringEnds == <>[](healthy /\ running) => (timer ~> ~timer)
=============================================================================
