--------------------------- MODULE InstancesTable ---------------------------
(***************************************************************************)
(* The EC2 table (standalone/source/models/InstancesTableModel.cpp), the   *)
(* EC2 calls it makes (standalone/source/ec2/Ec2.cpp) and the page that    *)
(* drives it (Ec2Page.qml); and the two handlers of other pages that start *)
(* and shut down the same AWS SDK: the refresh of the ECR list             *)
(* (EcrListModel.cpp) and the push of an image (DockerClient.cpp).         *)
(*                                                                         *)
(* Everything runs on the GUI thread, one handler at a time, except for    *)
(* one thing: a handler asks AuthUtils::getCredentialsProvider for         *)
(* credentials, and with the Okta login that call runs a QEventLoop of its *)
(* own (Okta.cpp:46).  While it waits there, clicks and timer ticks start  *)
(* other handlers, which finish before the first one goes on.  `stack'     *)
(* holds the handlers that have started and not finished, the running one  *)
(* last.  With static credentials the call returns at once and nothing     *)
(* nests: that program has the behaviours in which `nested' stays FALSE.   *)
(*                                                                         *)
(* EC2 itself is external: `cloud' is what it would answer now.            *)
(***************************************************************************)
EXTENDS Naturals, Sequences, FiniteSets

CONSTANTS
  InstanceIds,    \* the instances of the account
  Absent,         \* the cloud state of an id that EC2 does not know (any more)
  NoDialog,       \* no confirmation dialog is open
  MaxDepth,       \* handlers that can be active at once
  MaxEvents       \* bound on clicks and on changes others make in EC2

ASSUME DepthAssumption  == MaxDepth \in Nat \ {0}
ASSUME EventsAssumption == MaxEvents \in Nat

LiveStates ==
  {"pending", "running", "stopping", "stopped", "shutting-down", "terminated"}
Rows       == [instanceId : InstanceIds, instanceState : LiveStates]

VARIABLES
  cloud,      \* the state of each instance in EC2
  instances,  \* the rows of the table
  timer,      \* the 5 s poll timer is active
  dialog,     \* the confirmation dialog: row and instance it was opened for
  stack,      \* the handlers in progress
  api,        \* "up" between InitAPI and ShutdownAPI (which do not count)
  resets,     \* beginResetModel calls without their endResetModel
  fault,      \* how the program has failed, "none" while it has not
  acted,      \* history: <<instance clicked, instance acted upon>> pairs
  marked,     \* history: instances set to "pending" since the last refresh
  nested,     \* history: an event was handled while a handler waited for Okta
  events      \* clicks and foreign changes so far

vars    == << cloud, instances, timer, dialog, stack, api, resets, fault, acted, marked,
              nested, events >>
history == << acted, marked, nested >>

Faults == {"none", "row_not_found", "bad_index", "dangling_row", "api_down"}

Frames == [op    : {"updateTimer", "refresh", "startStop", "ecr"},
           pc    : {"auth", "call", "real"},
           row   : Nat,                  \* startStop: the row it refers to
           call  : {"start", "stop", "describe", "images"},
           todo  : SUBSET InstanceIds,   \* describe: instances still to be listed
           got   : Seq(Rows),            \* describe: the rows received so far
           stale : BOOLEAN]              \* the rows were replaced under this handler

TypeOK ==
  /\ cloud \in [InstanceIds -> LiveStates \cup {Absent}]
  /\ instances \in Seq(Rows)
  /\ timer \in BOOLEAN
  /\ dialog \in [row : Nat, id : InstanceIds] \cup {NoDialog}
  /\ stack \in Seq(Frames)
  /\ Len(stack) <= MaxDepth
  /\ api \in {"up", "down"}
  /\ resets \in 0 .. MaxDepth
  /\ fault \in Faults
  /\ acted \subseteq InstanceIds \X InstanceIds
  /\ marked \subseteq InstanceIds
  /\ nested \in BOOLEAN
  /\ events \in 0 .. MaxEvents

Init ==
  /\ cloud \in [InstanceIds -> {"running", "stopped", Absent}]
  /\ instances = << >>
  /\ timer = FALSE
  /\ dialog = NoDialog
  /\ stack = << >>
  /\ api = "down"
  /\ resets = 0
  /\ fault = "none"
  /\ acted = {}
  /\ marked = {}
  /\ nested = FALSE
  /\ events = 0

-----------------------------------------------------------------------------
Top == stack[Len(stack)]
Pop == SubSeq(stack, 1, Len(stack) - 1)
Replace(frame) == Append(Pop, frame)

RowIds     == {instances[i].instanceId : i \in DOMAIN instances}
RowOf(id)  == CHOOSE i \in DOMAIN instances : instances[i].instanceId = id

\* The rows whose button says "Loading".  (Mutant of the next: these are polled.)
ShownAsLoading(state) == state \notin {"running", "stopped"}

\* EC2 has no state "starting"; its "shutting-down" is not polled.
Transitional(state) == state \in {"pending", "stopping", "starting"}

\* An event is dispatched by the outer loop, or by the loop of a handler that
\* waits for Okta.
CanDispatch ==
  /\ fault = "none"
  /\ Len(stack) < MaxDepth
  /\ stack # << >> => Top.pc = "auth"

\* Every event is recorded that is handled inside a handler.
Dispatched == nested' = (nested \/ stack # << >>)

Running == fault = "none" /\ stack # << >>

UserEvent == events < MaxEvents /\ events' = events + 1

Frame(op, row, call, todo) ==
  [op |-> op, pc |-> "auth", row |-> row, call |-> call, todo |-> todo,
   got |-> << >>, stale |-> FALSE]

-----------------------------------------------------------------------------
(***************************************************************************)
(* The starts of the handlers, up to the call that may nest.               *)
(***************************************************************************)
\* Mutant: the poll asks for every instance of the account.
AllIds == InstanceIds

PolledIds == {instances[i].instanceId :
                i \in {j \in DOMAIN instances : Transitional(instances[j].instanceState)}}

\* Qt does not fire a timer again whose slot has not returned.
UpdateTimer ==
  /\ CanDispatch
  /\ Dispatched
  /\ timer
  /\ \A k \in DOMAIN stack : stack[k].op # "updateTimer"
  /\ IF PolledIds = {}
     THEN /\ timer' = FALSE
          /\ UNCHANGED << stack, api, resets >>
     ELSE /\ stack' = Append(stack, Frame("updateTimer", 0, "describe", PolledIds))
          /\ api' = "up"
          /\ resets' = resets + 1
          /\ UNCHANGED timer
  /\ UNCHANGED << cloud, instances, dialog, fault, acted, marked, events >>

\* Mutant: the timer is left as it is.
RefreshWithoutTimer ==
  /\ CanDispatch
  /\ Dispatched
  /\ dialog = NoDialog
  /\ UserEvent
  /\ stack' = Append(stack, Frame("refresh", 0, "describe", InstanceIds))
  /\ api' = "up"
  /\ resets' = resets + 1
  /\ UNCHANGED << cloud, instances, timer, dialog, fault, acted, marked >>

\* Mutant: the dialog does not block the page.
RefreshBehindDialog ==
  /\ CanDispatch
  /\ Dispatched
  /\ UserEvent
  /\ timer' = TRUE
  /\ stack' = Append(stack, Frame("refresh", 0, "describe", InstanceIds))
  /\ api' = "up"
  /\ resets' = resets + 1
  /\ UNCHANGED << cloud, instances, dialog, fault, acted, marked >>

\* The dialog is modal: while it is open the page takes no clicks.
BtnRefreshInstancesClick ==
  /\ CanDispatch
  /\ Dispatched
  /\ dialog = NoDialog
  /\ UserEvent
  /\ timer' = TRUE
  /\ stack' = Append(stack, Frame("refresh", 0, "describe", InstanceIds))
  /\ api' = "up"
  /\ resets' = resets + 1
  /\ UNCHANGED << cloud, instances, dialog, fault, acted, marked >>

\* A click on a row's first button opens the dialog with the number of the row.
StartStopClick(i) ==
  /\ CanDispatch
  /\ Dispatched
  /\ dialog = NoDialog
  /\ UserEvent
  /\ i \in DOMAIN instances
  /\ dialog' = [row |-> i, id |-> instances[i].instanceId]
  /\ UNCHANGED << cloud, instances, timer, stack, api, resets, fault, acted, marked >>

DialogNo ==
  /\ CanDispatch
  /\ dialog # NoDialog
  /\ dialog' = NoDialog
  /\ UNCHANGED << cloud, instances, timer, stack, api, resets, fault, history, events >>

\* Mutant: the row gets a state that EC2 does not have.
MarkStarting(i) ==
  /\ instances' = [instances EXCEPT ![i].instanceState = "starting"]
  /\ marked' = marked \cup {instances[i].instanceId}

Mark(i) ==
  /\ instances' = [instances EXCEPT ![i].instanceState = "pending"]
  /\ marked' = marked \cup {instances[i].instanceId}

\* "Yes": btnStartStopClick with that row number, whatever the table holds now.
\* The state of the row is read before any call; a row in another state than
\* "running" and "stopped" (its button says "Loading") is only marked.
BtnStartStopClick ==
  /\ CanDispatch
  /\ Dispatched
  /\ dialog # NoDialog
  /\ dialog' = NoDialog
  /\ IF dialog.row \notin DOMAIN instances
     THEN /\ fault' = "bad_index"
          /\ UNCHANGED << instances, stack, api, acted, marked >>
     ELSE LET state == instances[dialog.row].instanceState
          IN  /\ acted' = acted \cup {<<dialog.id, instances[dialog.row].instanceId>>}
              /\ IF state \in {"running", "stopped"}
                 THEN /\ stack' = Append(stack, Frame("startStop", dialog.row,
                                     IF state = "stopped" THEN "start" ELSE "stop", {}))
                      /\ api' = "up"
                      /\ UNCHANGED << instances, marked >>
                 ELSE /\ Mark(dialog.row)
                      /\ api' = "down"
                      /\ UNCHANGED stack
              /\ UNCHANGED fault
  /\ UNCHANGED << cloud, timer, resets, events >>

\* The rows of the ECR list are not modelled: its handler changes no more than
\* the SDK's state once it has listed the images, or some of them.
BtnRefreshEcrClick ==
  /\ CanDispatch
  /\ Dispatched
  /\ dialog = NoDialog
  /\ UserEvent
  /\ stack' = Append(stack, Frame("ecr", 0, "images", {}))
  /\ api' = "up"
  /\ UNCHANGED << cloud, instances, timer, dialog, resets, fault, acted, marked >>

\* getEcrToken asks for no credentials: nothing is handled before ShutdownAPI.
\* A request for the token that fails ends the program; DockerClient has that.
PushDockerImage ==
  /\ CanDispatch
  /\ Dispatched
  /\ dialog = NoDialog
  /\ UserEvent
  /\ api' = "down"
  /\ UNCHANGED << cloud, instances, timer, dialog, stack, resets, fault, acted, marked >>

-----------------------------------------------------------------------------
(***************************************************************************)
(* The rest of a handler, after getCredentialsProvider has returned.       *)
(***************************************************************************)
\* If a handler that ran meanwhile has called ShutdownAPI, the client is used
\* on an SDK that is shut down: the program may crash, or the call may go on.
\* startInstance and stopInstance get a reference into the rows.
CredentialsReady ==
  /\ Running
  /\ Top.pc = "auth"
  /\ \/ /\ api = "down"
        /\ fault' = "api_down"
        /\ UNCHANGED stack
     \/ /\ Top.op = "startStop" /\ Top.stale
        /\ fault' = "dangling_row"
        /\ UNCHANGED stack
     \/ /\ ~(Top.op = "startStop" /\ Top.stale)
        /\ stack' = Replace([Top EXCEPT !.pc = "call"])
        /\ UNCHANGED fault
  /\ UNCHANGED << cloud, instances, timer, dialog, api, resets, history, events >>

Listed == {id \in Top.todo : cloud[id] # Absent}

Describing == Running /\ Top.pc = "call" /\ Top.call = "describe"

\* A request that names an instance EC2 does not know fails as a whole.
Answerable == Top.op = "updateTimer" => Listed = Top.todo

\* Mutant: the next request repeats the token of the page before.
DescribePageAgain ==
  /\ Describing
  /\ Answerable
  /\ Len(Top.got) < 3
  /\ \E id \in Listed, rest \in {Top.todo, {}} :
       stack' = Replace([Top EXCEPT !.todo = rest,
                           !.got = Append(@, [instanceId |-> id, instanceState |-> cloud[id]])])
  /\ UNCHANGED << cloud, instances, timer, dialog, api, resets, fault, history, events >>

\* One page of DescribeInstances: an instance not listed yet, in any order.
DescribePage ==
  /\ Describing
  /\ Answerable
  /\ \E id \in Listed :
       stack' = Replace([Top EXCEPT !.todo = @ \ {id},
                           !.got = Append(@, [instanceId |-> id, instanceState |-> cloud[id]])])
  /\ UNCHANGED << cloud, instances, timer, dialog, api, resets, fault, history, events >>

\* Mutant: no rows, and the handler returns before ShutdownAPI.
ReturnWithoutShutdown ==
  /\ stack' = Pop
  /\ resets' = resets - 1
  /\ UNCHANGED << instances, marked, api, fault >>

\* endResetModel and return, with the rows received so far.
ApplyUpdate ==
  LET got == Top.got
  IN  IF \A k \in DOMAIN got : got[k].instanceId \in RowIds
      THEN /\ instances' = [i \in DOMAIN instances |->
                 IF \E k \in DOMAIN got : RowOf(got[k].instanceId) = i
                 THEN [instances[i] EXCEPT !.instanceState =
                         (CHOOSE r \in {got[k] : k \in DOMAIN got} :
                            RowOf(r.instanceId) = i).instanceState]
                 ELSE instances[i]]
           /\ marked' = marked \ {got[k].instanceId : k \in DOMAIN got}
           /\ resets' = resets - 1
           /\ stack' = Pop
           /\ api' = "down"
           /\ UNCHANGED fault
      ELSE /\ fault' = "row_not_found"
           /\ api' = "down"
           /\ UNCHANGED << instances, marked, resets, stack >>

ApplyRefresh ==
  /\ instances' = Top.got
  /\ marked' = {}
  /\ stack' = [k \in DOMAIN Pop |-> [Pop[k] EXCEPT !.stale = TRUE]]
  /\ resets' = resets - 1
  /\ api' = "down"
  /\ UNCHANGED fault

Return ==
  /\ \/ Top.op = "updateTimer" /\ ApplyUpdate
     \/ Top.op = "refresh" /\ ApplyRefresh
  /\ UNCHANGED << cloud, timer, dialog, acted, nested, events >>

\* The last page has no NextToken.
DescribeEnds == Describing /\ Answerable /\ Listed = {} /\ Return

\* A page fails: describeInstances returns the rows of the pages before it.
DescribeFails == Describing /\ Return

\* describeImages and ShutdownAPI: all pages, or those before one that fails.
EcrListed ==
  /\ Running
  /\ Top.pc = "call"
  /\ Top.op = "ecr"
  /\ stack' = Pop
  /\ api' = "down"
  /\ UNCHANGED << cloud, instances, timer, dialog, resets, fault, history, events >>

-----------------------------------------------------------------------------
StartStopReturns ==
  /\ Mark(Top.row)
  /\ stack' = Pop
  /\ api' = "down"
  /\ UNCHANGED << timer, dialog, resets, fault, acted, nested, events >>

Calling(pc) == Running /\ Top.op = "startStop" /\ Top.pc = pc

DryRunAccepted ==
  /\ Calling("call")
  /\ stack' = Replace([Top EXCEPT !.pc = "real"])
  /\ UNCHANGED << cloud, instances, timer, dialog, api, resets, fault, history, events >>

\* The dry run is refused, or the request after it fails: the handler goes on
\* all the same and marks the row.
StartStopFails ==
  /\ Calling("call") \/ Calling("real")
  /\ StartStopReturns
  /\ UNCHANGED cloud

Target == instances[Top.row].instanceId

StartInstances ==
  /\ Calling("real")
  /\ Top.call = "start"
  /\ cloud[Target] \in {"stopped", "pending", "running"}
  /\ cloud' = [cloud EXCEPT ![Target] = IF @ = "stopped" THEN "pending" ELSE @]
  /\ StartStopReturns

StopInstances ==
  /\ Calling("real")
  /\ Top.call = "stop"
  /\ cloud[Target] \in {"running", "stopping", "stopped"}
  /\ cloud' = [cloud EXCEPT ![Target] = IF @ = "running" THEN "stopping" ELSE @]
  /\ StartStopReturns

-----------------------------------------------------------------------------
(***************************************************************************)
(* EC2: instances settle by themselves, and others use the account too.    *)
(***************************************************************************)
SettlingMoves ==
  { <<"pending", "running">>, <<"stopping", "stopped">>, <<"shutting-down", "terminated">> }

CloudSettles(id) ==
  /\ \E m \in SettlingMoves : m[1] = cloud[id] /\ cloud' = [cloud EXCEPT ![id] = m[2]]
  /\ UNCHANGED << instances, timer, dialog, stack, api, resets, fault, history, events >>

ForeignMoves ==
  { <<Absent, "pending">>, <<"stopped", "pending">>, <<"running", "stopping">>,
    <<"running", "shutting-down">>, <<"stopped", "shutting-down">>, <<"terminated", Absent>> }

CloudChanges(id) ==
  /\ UserEvent
  /\ \E m \in ForeignMoves : m[1] = cloud[id] /\ cloud' = [cloud EXCEPT ![id] = m[2]]
  /\ UNCHANGED << instances, timer, dialog, stack, api, resets, fault, history >>

-----------------------------------------------------------------------------
Next ==
  \/ UpdateTimer
  \/ BtnRefreshInstancesClick
  \/ \E i \in DOMAIN instances : StartStopClick(i)
  \/ DialogNo
  \/ BtnStartStopClick
  \/ BtnRefreshEcrClick
  \/ PushDockerImage
  \/ CredentialsReady
  \/ DescribePage
  \/ DescribeEnds
  \/ DescribeFails
  \/ EcrListed
  \/ DryRunAccepted
  \/ StartStopFails
  \/ StartInstances
  \/ StopInstances
  \/ \E id \in InstanceIds : CloudSettles(id) \/ CloudChanges(id)

\* The GUI thread runs its handlers to the end and the timer fires; EC2
\* transitions end; every call is answered, and not refused for ever if EC2 can
\* answer it.  Nothing is assumed of the user or of others who use the account.
Fairness ==
  /\ WF_vars(UpdateTimer)
  /\ WF_vars(CredentialsReady)
  /\ WF_vars(EcrListed)
  /\ SF_vars(DescribePage)
  /\ SF_vars(DescribeEnds)
  /\ WF_vars(Describing /\ ~Answerable /\ DescribeFails)
  /\ WF_vars(DryRunAccepted \/ StartStopFails \/ StartInstances \/ StopInstances)
  /\ \A id \in InstanceIds : WF_vars(CloudSettles(id))

Spec == Init /\ [][Next]_vars /\ Fairness

-----------------------------------------------------------------------------
\* No handler reads a row that is not there, keeps a reference to rows that were
\* replaced, or calls AWS after a ShutdownAPI, unless handlers have nested: never
\* with static credentials.
FaultsNeedNesting == fault # "none" => nested

\* The instance that is started or stopped is the one whose button was clicked,
\* although the dialog keeps a row number only (Ec2Page.qml:81-86) and the poll
\* timer goes on behind the dialog.  With the Okta login a refresh that was
\* waiting may put other rows under the dialog.
ActedOnWhatWasClicked == nested \/ \A a \in acted : a[1] = a[2]

\* A row whose button says "Loading" (InstancesTableModel.cpp:73-79) is one that
\* the poll timer still updates, or was marked by btnStartStopClick, which does
\* not start the timer (:158), or belongs to an instance on its way out: the poll
\* leaves "shutting-down" and "terminated" alone (:17-18), so such a row says
\* "Loading" until the next refresh.  With the Okta login a tick that is handled
\* inside a refresh may stop the timer before the rows arrive.
TransitionalIsPolled ==
  nested \/ \A i \in DOMAIN instances :
              ShownAsLoading(instances[i].instanceState) =>
                \/ timer /\ instances[i].instanceId \in PolledIds
                \/ instances[i].instanceId \in marked
                \/ instances[i].instanceState \in {"shutting-down", "terminated"}

\* When no handler is active, every InitAPI has had its ShutdownAPI and every
\* beginResetModel its endResetModel, also after handlers have nested.
IdleIsClean == stack = << >> => api = "down" /\ resets = 0

\* The table never lists an instance twice, so that updateTimer, which stops at
\* the first row with an id, updates the only one.
RowsAreDistinct ==
  \A i, j \in DOMAIN instances :
    instances[i].instanceId = instances[j].instanceId => i = j

\* A handler finds the rows it works on missing only if a refresh has replaced
\* the table while the handler waited for Okta.
RowFaultsNeedNestedRefresh ==
  fault \in {"row_not_found", "dangling_row"} => Top.stale

\* While the poll timer is active it ends by stopping ("Done!"), once EC2 has
\* settled and answered, unless a row waits for an instance that EC2 no longer
\* knows: each request that names it fails as a whole.  Nested handlers may end
\* the program first; they are no other excuse.
PollingEnds ==
  timer ~> \/ ~timer
           \/ fault # "none"
           \/ \E id \in PolledIds : cloud[id] = Absent
=============================================================================
