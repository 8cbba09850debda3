----------------------- MODULE DockerTroubleshooting -----------------------
(***************************************************************************)
(* The Docker client together with the troubleshooter, as main.cpp and     *)
(* Main.qml connect them: the signals openTroubleshooter and               *)
(* troubleshootPushImage are emitted from the slots of DockerClient and    *)
(* handled by Main.qml before the slot goes on, so a slot and the handler  *)
(* it triggers are one step.                                               *)
(*                                                                         *)
(* The client is extended, not instantiated: its own properties are        *)
(* checked in the composition, where a null action ends the program.       *)
(***************************************************************************)
EXTENDS DockerClient

CONSTANTS Catalogue, Registered, Implemented, NoProblem

ASSUME ImplementedAssumption == Implemented \subseteq Registered

VARIABLES problem, items, dialog, crashed, ran

UI == INSTANCE Troubleshooter

uiVars     == << problem, items, dialog, crashed, ran >>
systemVars == << vars, uiVars >>

DialogTypeOK == UI!TypeOK

SystemInit == Init /\ UI!Init

\* Main.qml's reaction to the signal that the current step emits.
React ==
  \/ signal' = "none" /\ UNCHANGED uiVars
  \/ signal' = "openTroubleshooter" /\ UI!OnOpenTroubleshooter("docker_not_found")
  \/ signal' = "troubleshootPushImage" /\ UI!OnTroubleshootPushImage

DockerStep == ~crashed /\ Next /\ React

\* Accepting or closing the dialog, between two emissions of the manager.
UserAnswers ==
  /\ ~crashed
  /\ AtEventLoop
  /\ (\E name \in items : UI!Accept(name)) \/ UI!Reject
  /\ UNCHANGED vars

SystemNext == DockerStep \/ UserAnswers

SystemSpec == SystemInit /\ [][SystemNext]_systemVars

-----------------------------------------------------------------------------
Resolves(name) == UI!Matching(name) # {}

\* Once a refused build has opened the troubleshooter, every solution a dialog
\* offers is found by runAction when it is accepted, also the ones that later
\* push failures list without setting the problem (Main.qml:144, 178-186).
SolutionsResolveAfterBuildFailure ==
  /\ \E r \in Requests : Troubleshot(r, "build")
  /\ dialog /\ ~crashed
  => \A name \in items : Resolves(name)

\* A dialog never offers solutions unless a slot has seen a failed reply, and
\* then only solutions of the problem docker_not_found.
DialogExplainsAFailure ==
  dialog => /\ \E x \in calls : x[3] /\ Failed(x[2])
            /\ items \subseteq {s.name : s \in UI!SolutionsOf("docker_not_found")}

\* The program survives listing the solutions of a failure.  With the shipped
\* catalogue it does not: solutions.json:8 names the action "open_url" (the
\* name OpenUrl.cpp:13 gives itself), which is registered as "OpenUrl".
TroubleshooterSurvives == ~crashed
=============================================================================
