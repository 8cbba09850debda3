# Cloud Companion: TLA+ models, checks and proofs

Cloud Companion is a Qt application that builds and pushes Docker images,
manages EC2 instances and EKS pods, and deploys over SSH, with credentials from
the settings or from an Okta login. Nearly all of it runs on the GUI thread, as
handlers of clicks, timers and network replies; what makes it hard is that
handlers overlap in ways the call structure hides: one signal shared by all
requests, event loops inside handlers, watch threads, and a thread pool in
which tasks wait for tasks.

Paths below are relative to `standalone/source/` unless they start with
`source/`, `qml/` (for `standalone/qml/CloudCompanionStandalone/`) or
`standalone/`.

## 1. Inventory

| Component | Code | State | Operations | Talks to |
|---|---|---|---|---|
| Docker client | `docker/DockerClient.cpp`, `ecr/Ecr.cpp:69` | connections of `finished`, requests in flight | build from file, build from Git, push; two reply slots | Docker daemon, ECR (token), troubleshooter (signals) |
| Troubleshooter | `source/solutions/`, `source/actions/`, `qml/Main.qml`, `standalone/solutions.json` | catalogue, registry of actions, list and problem of the dialog | open, list solutions, accept, close | Docker client, the actions |
| EC2 table | `models/InstancesTableModel.cpp`, `ec2/Ec2.cpp`, `qml/Pages/Ec2Page.qml` | rows, poll timer, dialog, SDK up or down | refresh, poll, start/stop, select | EC2, credentials |
| EKS pods table | `models/EksPodsTableModel.cpp`, `eks/Eks.cpp`, `source/kubernetes/KubernetesClient.cpp`, `qml/Pages/EksPage.qml` | rows, connections, watch threads, queued events | refresh, watch, stop, delete, logs | API server, STS token, thread pool |
| SSH deployment | `ssh/SshHandler.cpp`, `source/ssh/Ssh.cpp` | session, channel, health timer, unanswered checks | deploy, health check, reply | target machine, a fixed health URL |
| Credentials and Okta login | `authentication/`, `sts/StsClient.cpp` | four settings values that cache the credentials, tasks in the global pool | get credentials, five login stages | Okta, STS; called by every AWS handler and by watch threads |
| ECR list | `models/EcrListModel.cpp`, `ecr/Ecr.cpp:12` | images, selected index | refresh, select, build, push | ECR, Docker client |
| Pod logs | `source/kubernetes/KubernetesClient.cpp:151-248`, `eks/Eks.cpp:37` | lines shown | read, type detection, column search, parsing | API server, logger |
| Logger | `source/logging/Logger.cpp` | set of loggers | log, clear | every component |
| Main, pages, build files | `main.cpp`, `qml/`, `CMakeLists.txt` | wiring | - | - |

What makes each correct:

* **Docker client**: each reply is handled by the slot of its own request; a
  failure opens the troubleshooter of its kind, once, and a success opens none.
* **Troubleshooter**: what the dialog offers belongs to the failure that opened
  it and can be carried out.
* **EC2 table**: the instance acted on is the one clicked; rows that change are
  polled and polling ends; handlers that nest leave rows and SDK in order.
* **Pods table**: rows follow the cluster, never go back, and are not doubled;
  stopping stops.
* **SSH deployment**: failures release what was opened; the health checks go on
  until the service answers, and end then.
* **Okta login**: an approved login yields credentials; a login ends, and the
  tasks of logins and watches do not wait for each other for ever; cached
  credentials are those of one login.
* **ECR list, logs**: the list shown is that of the registry; each log line is
  parsed at the configured column.

The hazards, each at its line, are listed in `PROJECT.json`.

## 2. Modules

| Module | Models | Uses |
|---|---|---|
| `DockerClient` | the Docker client | - |
| `Troubleshooter` | catalogue, registry, dialog (state and operations, no behaviour of its own) | - |
| `DockerTroubleshooting` | both together, as `main.cpp` and `Main.qml` connect them | extends `DockerClient`, instance of `Troubleshooter` |
| `MCDockerTroubleshooting` | catalogues and registry for TLC | `DockerTroubleshooting` |
| `InstancesTable` | the EC2 table, its page and its calls, and the handlers of other pages that share its SDK | - |
| `PodReplica` | abstract: a table that follows the pods and never goes back | - |
| `PodsWatch` | the pods table and its watches; implements `PodReplica` | instance of `PodReplica` |
| `SshDeploy` | deployment and health checks | - |
| `PodLogs` | reading, parsing and showing a pod's log | - |
| `OktaLogin` | the login chain and the thread pool shared with the watches | - |
| `OktaSettings` | the credentials in the settings, read and written by every caller of the login | - |

Theorems about `M` are in `M_proofs`, which extends `M`, for eight of them:
`DockerClient`, `DockerTroubleshooting`, `InstancesTable`, `PodsWatch`,
`SshDeploy`, `PodLogs`, `OktaLogin`, `OktaSettings`.

### DockerClient

Request `r` is the r-th post. `connect()` comes just before each post, so `r`
also names a connection, and "in order of connection" is the order of numbers.
A reply that finishes (`ReplyFinishes`) starts an emission over the connections
that exist then (`todo`); `BuildImageFinished` and `PushImageFinished` are the
slots, called one by one, and a slot disconnected during the emission is not
called. Both slots begin with the same `disconnect()`, of *build* connections
(`DockerClient.cpp:43,111`). `unread` is the reply's body, which the first
reader drains. A push whose ECR token cannot be had ends the program
(`PushDockerImageNoToken`). `calls` and `overlapped` are history.

### Troubleshooter and DockerTroubleshooting

The composition extends the client, so that the client's properties are checked,
and proved, in it as well: `SystemSpec` implements `Spec`.

The slots emit `openTroubleshooter` and `troubleshootPushImage`; `Main.qml`
handles them before the slot goes on, so `DockerStep` is a slot with `React`.
Listing solutions calls a member of each solution's action object, which is
null for a name that is not registered. `onTroubleshootPushImage` lists the
solutions of `docker_not_found` and leaves `solutionsList.problem` alone; before
the first refused build that problem is the empty string and accepting a
solution then finds nothing and does nothing.

### InstancesTable

One action per part of a handler between calls that can fail or nest. `stack`
holds the handlers in progress. With static credentials nothing nests; with
Okta, `getCredentialsProvider` runs an event loop (`Okta.cpp:46`) in which
clicks and ticks start further handlers, up to `MaxDepth`. `nested` remembers
that this has happened: the behaviours in which it stays FALSE are those of
static credentials, and three properties that nesting breaks are stated for
them. The model does not ask whether the login yields
credentials: the kind of credentials can be changed in the settings at any
time, so rows listed with one kind meet handlers that log in with another.
The poll timer does not fire again while its own slot waits, as in Qt.
`stale` marks a handler whose rows a nested refresh has replaced;
`fault` records reads of missing rows, dangling references and calls on a
shut-down SDK. `DescribePage` delivers one instance per page, in any order, and
a request that names an id EC2 has purged fails as a whole.

`data()` labels a row "Loading" in every state but `running` and `stopped`
(`models/InstancesTableModel.cpp:73-79`), while the poll asks for `pending`,
`stopping` and `starting` only (`:17-18`). A row whose instance is
`shutting-down` or `terminated` therefore reads "Loading" until the next refresh;
`TransitionalIsPolled` names these states, and the rows that `btnStartStopClick`
has marked, as the only ones that are not polled.

The refresh of the ECR list and the push of an image start and shut down the same
SDK. The refresh logs in and may wait for Okta like the others; the push asks for
no login and is over before anything else is handled. Both can therefore run
within an EC2 handler that waits, and shut the SDK down under it.

### PodsWatch and PodReplica

A pod is a version number, 0 before it exists and `Gone` after. Each "Watch
Pods" adds a connection and a thread; a thread's events reach the GUI queue
once per connection. The thread reads its base path through a dangling
reference (`Eks.cpp:21`): it works, connects to nothing, or crashes. Rows from a
refresh carry no uuid (`tracked = FALSE`) and the events never match them: a
refresh and a watch list a pod twice, the refresh's row keeps its version, and it
stays when the pod has gone, until the next refresh. `ListedBounded` counts all rows
of a pod; what is shown in the end (`ChangesAreShown`) and what disappears
(`GoneRowsVanish`) is said of the rows that watches have added. "Stop Watch" cancels
a thread that the pool has not started; one that runs goes on, whether it already
watches or still fetches its token (`StopWatch`). The
refinement maps a pod to the version its tracked row shows, 0 before that, and
`Gone` once its removal has reached the table. `removeIf` keeps the rows at a set
of positions, in their order: `RowsAt` takes the k-th of them (`Nth`) as the k-th
row.

### SshDeploy

The deployment blocks the GUI thread, but machine and network go on, so each
call that can fail is a step; no other handler runs until `step = "idle"`
again. Health checks go to one fixed address and may be answered in any order.

### PodLogs

A log is a sequence of the characters that the parsers tell apart. The pod goes
on writing; `BtnLog` reads the last lines and replaces what the view shows.
`Split` is the loop of `std::getline` over the text, character by character, and
`Rounds` the loop of `nthSubstr`, round by round: both are functions on the number
of steps done, so that they can be reasoned about. `std::string::npos` is position
0: the code searches on from `npos + 1`, which wraps to the start of the line, and
positions that count from 1 do the same. What `NthSubstr` finds is the start of the n-th
run of delimiters, and a line is shown from there on: column 1 of `a,b` is `,b`.
`QJsonDocument` is external.

### OktaLogin

The tasks of the global pool: the four continuations of `oktaAuth`, the `run`
that two of them start and block on, the `poll` that handles each answer about
the second factor, and the watches. A thread blocked in `QFuture::result()`
takes the task it waits for out of the queue, if it is still there
(`RunBegins`); nobody but the pool runs a `poll`. A watch keeps its thread, and
logs in from it. The four values in the settings are one flag, `cacheValid`;
it may be true at the start, because settings outlive the program.

### OktaSettings

What `OktaLogin` leaves out: the four values themselves. A value is the number of
the login that produced it, 0 for an empty string or an expiration in 1970. Each
read and each write is a step. Callers are the watch threads and the GUI thread;
the latter calls a second time from the event loop of its own login (`Inner`
within `Outer`). `raced` marks the calls that overlap somebody
else's login, `doubt` says that such a call was the last to write. A nested call
is not disturbed by the login around it, which waits; but that login is disturbed
by one that a nested call has made, whose values it overwrites one by one.
`Restart` may come between any two steps. QSettings saves all values at once now
and then and at the end; what a restart finds is what had been written at the
last save, which is the same as a restart at that moment, so the model lets every
value survive. `OktaLogin` shows that a login of today's code never obtains
credentials (run `okta_token`); this module asks what becomes of whatever STS
answers, credentials or nothing.

## 3. Runs

| Run | Shows | Bounds |
|---|---|---|
| `docker` | seven guarantees that the shared signal still gives; the dialog explains a failure, its solutions resolve, nothing null is called | 4 requests of either kind, all overlaps, all results; 2 problems, 3 solutions |
| `docker_failures` (violation) | a failure can go without any troubleshooter | 2 requests |
| `troubleshooting_shipped` (violation) | the shipped catalogue names an action that is not registered | 2 requests |
| `ec2` | right instance, polling covers and ends, balance after nesting, what faults need | 2 instances, 4 events, depth 2 |
| `pods_single` | one watch implements `PodReplica`; changes show in the rows it has added | 2 pods, 3 versions |
| `pods_many` | rows per pod are bounded, a refresh's included; the rows watches have added for a deleted pod go | 1 pod, 2 watches, refreshes |
| `pods_stop` (violation) | "Stop Watch" does not stop | 1 pod, 1 watch |
| `logs` | each parser shows what a reference definition says; reading again extends what was shown | 5 characters of 5 kinds, 3 lines, columns 0 to 3 |
| `deploy` | sessions released, monitoring goes on and ends | 3 deployments, 3 unanswered checks |
| `okta` | which waiting can last for ever, and that logins end otherwise | 4 threads, 2 watches, logins repeated |
| `okta_token` (violation) | an approved login has no session token | GUI thread only |
| `okta_settings` | cached credentials are of one login, whatever is interrupted; only overlapping logins mix them | GUI thread, nested call, 1 watch, 3 logins, restarts |

Why the bounds are enough. The Docker slots look at one reply, the connections
and a read body: two requests are needed for a slot to touch a foreign reply, a
third for a slot left over from before, and the fourth shows that nothing new
happens; the theorems of section 5 lift most of it to any number. Two
instances are the fewest for a row number to point at the wrong row, and
the page order and foreign changes are free. Depth 2 is the first nesting;
deeper stacks repeat it. Five characters hold three runs of delimiters, or three
lines, and the server's window of lines moves once (20 in the code). Two watches are the fewest for events
out of order, and one pod suffices because rows of different pods do not
interact (`pods_single` has two). Three unanswered checks allow an old answer
before and after a new deployment. Two logins are the fewest to mix their values, the
third may put them right; the proofs lift it to any number. Four threads are a common core count: one
login needs three, a watch that logs in four, and both do not fit.

Deadlock checking is off where a session may really end (every request
answered; the account at rest; frozen logins), and on in `deploy`, where the
remote service always may change.

What the violations mean:

* `docker_failures`: no slot at all opens a troubleshooter for a failure. In the
  trace a push is posted while a build is in flight and is refused with
  `errorDetail`: the build's slot is called for the push's reply and reads its body
  (`DockerClient.cpp:62`), so that the push's slot sees none (`:120`). The other way
  is two overlapping builds: the slot called for the first reply disconnects both
  (`:43`), and nobody is called when the second is refused. A push slot left over
  from an earlier push does no such harm: it opens the troubleshooter itself.
* `troubleshooting_shipped`: `solutions.json:8` says `open_url`, `CMakeLists.txt`
  registers `OpenUrl`; the null pointer is dereferenced at the first failure.
* `pods_stop`: `QFuture::cancel` does not stop a running function
  (`Eks.cpp:26`), and the pod signals stay connected.
* `okta_token`: the loop at `Okta.cpp:100` repeats while it *has* a token.

`okta` passes, and says something unpleasant: `LoginEnds` holds only with the
alternative `Frozen`, which is reachable with four threads, one watch that logs
in, and one login of the GUI thread; the application then never answers again.
`OnlyPollsFreeze` locates the cause, the `Launch::Async` of `Okta.cpp:73`.

## 4. Fairness

* `InstancesTable`: the timer fires and handlers run on (weak); EC2 answers each
  request (weak) and does not refuse for ever one that it can answer (strong, for
  a page that arrives); EC2's own transitions end (weak).
  The user and other users of the account owe nothing. Without the strong
  assumption a failing EC2 keeps the timer going for ever, which is what the
  code does.
* `PodsWatch`: threads are scheduled and the GUI thread empties its queue (weak).
  A connection may end at any time, and the properties except that.
* `SshDeploy`: the handlers and the timer run, every check is answered or fails
  (weak, each request has a network timeout); answers are handled although
  others keep coming (strong, the queue is served in order); a service that
  stays healthy answers some check (strong).
* `OktaLogin`: threads run and every request is answered or fails (weak); Okta
  answers SUCCESS once per state token, and redirects come to an end.
* `DockerClient`, `DockerTroubleshooting`, `PodLogs` and `OktaSettings` state no liveness.

## 5. Proofs

Every invariant of the passing runs is proved, for all values of the constants,
from the assumptions that the modules name, and so are the action properties
and the refinement of `PodReplica`. Hardly one is inductive; each proof module first gives the invariant that is, `IInv`, in
named parts, then one lemma per action with a step for each part the action
can disturb, and ends with the theorems.

* `DockerClient_proofs`: `TypeCorrect`, `EveryPushReplyExamined`,
  `EveryNetworkFailureTroubleshot`, `NoBuildReportedTwice`, `EveryAlarmIsAFailure`,
  `LonePushesAreTroubleshot`, `LoneBuildsAreReported`, for any number of requests.
  A push's own connection is never removed, since `disconnect()` takes build
  connections only (`PushConnectionsStay`); so an emission for a push reply has
  had a push slot or has one ahead (`PushSlotAhead`), which is what the end of the
  emission needs. A build connection that was called is gone, and its emission
  visits no other (`BuildConnectionsUsedUp`). The history names only replies that
  have finished, whose result no longer changes (`CallsAreFinished`), and a push
  slot's verdict on a network error does not depend on who read the body
  (`NetworkErrorsReported`). The two theorems about a lone request have an
  invariant of their own, `LoneInv`: a lone request is the last one posted,
  its reply finds its own connection and no foreign build connection, and the
  first slot that is called for it is given an unread body.
* `DockerTroubleshooting_proofs`: `SystemImplementsClient` (`SystemSpec => Spec`:
  each step of the composition is a step of the client or leaves it alone), which
  carries the theorems above over; `DialogTypeCorrect`,
  `EveryDialogExplainsAFailure`, `OfferedSolutionsResolve`, for every catalogue;
  `WellNamedCataloguesSurvive`, for the catalogues in which every solution of
  `docker_not_found` names a registered and implemented action. `DialogInv` says
  that an open dialog shows the solutions of `docker_not_found` and nothing else,
  and that the problem is set from the first refused build on.
* `InstancesTable_proofs`: `TypeCorrect`, `IdleProgramsAreClean`,
  `TablesAreDistinct`, `FaultsAreOfNesting`, `RowFaultsAreOfRefreshes`,
  `ClicksAreObeyed`, `TransitionsArePolled`, for any number of instances and any
  depth of nesting. `resets` is the number of handlers in the stack that have
  opened one; all handlers but the last wait for Okta (`OthersWait`); a handler
  whose rows were not replaced finds them (`FramesInv`); and until something nests
  there is one handler, for which the SDK is up, and an open dialog's row
  number still belongs to the instance it was opened for (`Unnested`).
  `TransitionalIsPolled` follows from what is kept of the rows that the poll asks for
  (`RowsInTransition`).
* `PodsWatch_proofs`: `Typed` and `Bounded`, for any finite set of pods, any number
  of versions, watches and refreshes; `Implements` (`Spec => Replica!Spec`, initial
  states and steps) under the two hypotheses of the run `pods_single`, at most one
  watch and no refresh after it was started. Without the first, two watches deliver
  in any order and a row can go back; without the second, a refresh drops rows that
  events have put there. `Bounded` adds, for each pod, the rows that watches
  have added and the ADDED events queued for it (`CountInv`): both together are at most the
  connections times the threads that can no longer announce the pod (`Spent`), and
  a thread announces it once, to each connection there is then (`AddedOnce`). To
  these comes one row of a refresh, which replaces the whole table and lists a pod
  once (`RefreshInv`).
  `Implements` rests on `OneWatchInv`: before the watch nothing is listed or queued
  (`Quiet`); the events on their way, in the GUI's queue and behind it in the
  thread's stream (`Pending`), name ever newer versions of a pod (`Ordered`) and
  newer ones than its row shows, and none is about a pod that was removed (`Fresh`);
  the row shows no version that the pod has not had (`RowOK`). `NthEnumerates` says
  that `removeIf` keeps each row it keeps once.
* `SshDeploy_proofs`: `TypeCorrect`, `NoFailureKeepsASession`,
  `MonitoringIsNotLost`, for any number of deployments and unanswered checks. The
  invariant says what the deployment in progress holds at each step
  (`HeldInProgress`) and what those before it have left (`LeftBehind`).
* `PodLogs_proofs`: `Typed`, `LinesKept`, `ColumnShown`, `Extended` (an action
  property), for any log, any number of lines sent and any column. The invariant
  `ViewInv` is short: what was read is a beginning of the log, and the view is what
  that shows under the settings. The work is in what the loops compute.
  `SplitEquations`, `RoundsEquations` and `FlattenEquations` turn each recursive
  function into the equations it satisfies; then `LinesExtend` says that a longer
  text has the lines of the shorter one but for its last line, `NthSubstrIs` that
  the loop ends at the n-th run of delimiters or finds that there are fewer, and
  `FlattenExtends` that a longer list of parts is shown with what was there before.
* `OktaLogin_proofs`: `TypeCorrect`, `ThreadsAreReleased`, `OnlyPollsCanFreeze`, for
  any number of threads and watches, and `GuiAloneCannotFreeze` for three threads
  or more. Each task in the pool is there because its login is in the step that
  needs it (`NoTaskIsLeft`), a login holds the threads of its step
  (`HoldsThreads`), and the pool has a queue only while all its threads are busy
  (`PoolInv`). A frozen login of the GUI thread then holds two threads and waits
  for a third, so that with three the pool must be running something else, which
  can only be a watch or its login. The bound is tight: with two threads TLC finds
  the GUI thread's login frozen on its own. On a machine with two cores it would
  never come back.
* `OktaSettings_proofs`: `TypeCorrect`, `CachedCredentialsAreWhole`,
  `ReturnedCredentialsAreWhole` (an action property), for any number of watches and
  logins. The expiration is written last and read last: while an undisturbed login
  writes, nobody takes the old expiration for valid (`NotValidMeanwhile`), so what a
  restart finds is either whole or asks for a login (`WholeOrPassed`); and what
  an undisturbed call has read is still what the settings hold
  (`ReadsAreCurrent`), because whoever is active beside a login is in `raced`
  (`OverlapIsRecorded`), and what is nested ends first (`InnerIsNested`).

The library's induction theorems take an operator as a parameter, which the
provers cannot instantiate. `PodLogs_proofs` therefore states induction about sets
of numbers (`Induction`, from the library's fact that a well-founded relation has
minimal elements) and derives from it that a first value and a step define a
function (`Recursion`); an induction names the set of the positions at which the
claim holds.

Only model-checked: liveness (`PollingEnds`, `ChangesAreShown`, `GoneRowsVanish`,
`MonitoringEnds`, `LoginEnds`), since fairness and `ENABLED` are beyond the prover.

## 6. Not modelled

Layout, formatting and progress messages; the settings pages; start-up;
`createInstance` (nothing calls it); `btnSelectInstanceClick` (it hands an address
to the deployment and changes nothing); the libraries themselves. AWS, Docker,
Kubernetes, Okta and Qt are modelled by what the code sees of them and are
marked external in the map. In the pod logs, the limit of 100000 bytes and the
HTML around a line; the delimiter SPACE is not told from the comma, which the code
treats alike. In `OktaLogin` the GUI thread has one
login at a time: a second one inside the loop of the first (`Okta.cpp:46`) is what
`InstancesTable` and `OktaSettings` model. The token for the API server is taken not
to need a login in `PodsWatch`; that it is asked for without `InitAPI`
(`models/EksPodsTableModel.cpp:83`) and may find the SDK shut down is not modelled.
Of the ECR list: the rows, which nothing but the view reads; `selectedIndex`,
which is written and never read; its timer, which nothing starts; the buttons, which
call the Docker client with what the user typed.

## 7. Plan

1. Done: Docker client, troubleshooter and their composition, EC2 table with the
   ECR handlers that share its SDK, pods watch with its abstract specification, SSH
   deployment, pod logs, Okta login and its settings, all with proofs.
2. Could be modelled next:
   * the pods page and the EC2 table on one SDK, with watch threads that sign
     requests while a handler shuts it down;
   * the public address of a row, which the poll does not update
     (`models/InstancesTableModel.cpp:44`) and Select passes to the deployment;
   * an abstract specification of the Docker client ("each reply is reported to
     its own request's slot, once") and the restriction, one request at a time
     and builds first, under which the client implements it.
3. Could be proved next: the abstract specification of the Docker client, once it is
   stated, for the restriction under which it is implemented; what is kept of the
   rows of `PodsWatch` under several watches (each row shows a version its pod has
   had); and the safety parts of the liveness arguments, such as a bound on the
   steps that a login still has to take.
