--------------------------- MODULE Troubleshooter ---------------------------
(***************************************************************************)
(* The troubleshooter: the catalogue of solutions per problem              *)
(* (source/solutions/SolutionsRepo.cpp, Solution.cpp) and the dialog of    *)
(* Main.qml that lists them and runs the one the user accepts.  The        *)
(* catalogue is read once from solutions.json; each of its actions is      *)
(* looked up by name among the action objects that CMakeLists.txt          *)
(* registers, and a name that is not registered yields a null pointer.     *)
(***************************************************************************)
CONSTANTS
  Catalogue,    \* the solutions of solutions.json: [problem, name, action] records
  Registered,   \* names under which getActions() holds an action object
  Implemented,  \* registered actions whose run() does not throw
  NoProblem     \* the initial '' of solutionsList.problem

Problems  == {s.problem : s \in Catalogue}
ItemNames == {s.name : s \in Catalogue}

VARIABLES
  problem,  \* solutionsList.problem
  items,    \* the names in solutionsList, which the dialog shows
  dialog,   \* the solutions dialog is open
  crashed,  \* a null action was dereferenced, or run() threw
  ran       \* the solution whose action ran last, {} if none

TypeOK ==
  /\ problem \in Problems \cup {NoProblem, "docker_not_found"}
  /\ items \subseteq ItemNames
  /\ dialog \in BOOLEAN
  /\ crashed \in BOOLEAN
  /\ ran \in SUBSET Catalogue

Init ==
  /\ problem = NoProblem
  /\ items = {}
  /\ dialog = FALSE
  /\ crashed = FALSE
  /\ ran = {}

\* Mutant: the name of the problem is not looked at.
AllSolutions(p) == Catalogue

SolutionsOf(p) == {s \in Catalogue : s.problem = p}

\* Mutant: one problem's solutions are taken for another's.
GetSolutionsOfAll(p) ==
  /\ crashed' = (\E s \in SolutionsOf(p) : s.action \notin Registered)
  /\ items' = ItemNames

\* getSolutions, with the loop of Main.qml that lists its result: getDisplay
\* calls a member of the action object, null when the name is not registered.
GetSolutions(p) ==
  /\ crashed' = (\E s \in SolutionsOf(p) : s.action \notin Registered)
  /\ items' = {s.name : s \in SolutionsOf(p)}

\* Mutant: the list is replaced and the problem it belongs to is not.
OpenWithoutProblem(p) ==
  /\ GetSolutions(p)
  /\ dialog' = TRUE
  /\ UNCHANGED << problem, ran >>

OnOpenTroubleshooter(p) ==
  /\ problem' = p
  /\ GetSolutions(p)
  /\ dialog' = TRUE
  /\ UNCHANGED ran

\* Mutant: the problem is set to the signal's argument, which has no solutions.
OnTroubleshootOwnProblem ==
  /\ GetSolutions("docker_not_found")
  /\ problem' = "docker_push_error"
  /\ dialog' = TRUE
  /\ UNCHANGED ran

\* The handler ignores the signal's argument ("docker_push_error"), lists the
\* solutions of docker_not_found and leaves solutionsList.problem as it was.
OnTroubleshootPushImage ==
  /\ GetSolutions("docker_not_found")
  /\ dialog' = TRUE
  /\ UNCHANGED << problem, ran >>

\* The solution runAction finds for the accepted item: the one of that name
\* among those of solutionsList.problem.
Matching(name) == {s \in SolutionsOf(problem) : s.name = name}

Accept(name) ==
  /\ dialog
  /\ name \in items
  /\ dialog' = FALSE
  /\ IF Matching(name) = {} THEN UNCHANGED << ran, crashed >>
     ELSE /\ ran' = Matching(name)
          /\ crashed' = (\E s \in Matching(name) : s.action \notin Implemented)
  /\ UNCHANGED << problem, items >>

Reject ==
  /\ dialog
  /\ dialog' = FALSE
  /\ UNCHANGED << problem, items, crashed, ran >>
=============================================================================
