------------------------------ MODULE OktaLogin ------------------------------
(***************************************************************************)
(* The Okta login (standalone/source/authentication/Okta.cpp) and the      *)
(* global thread pool it shares with the pod watches (Eks.cpp).            *)
(*                                                                         *)
(* oktaAuth waits for the password check in an event loop of its own and   *)
(* then blocks until a chain of continuations is through, each one a task  *)
(* of the pool:                                                            *)
(*                                                                         *)
(*    token -> cookie -> asserts -> assume                                 *)
(*                                                                         *)
(* `token' and `asserts' start a second task, `run', and block on it: a    *)
(* task that has no thread yet is then taken out of the queue and run by   *)
(* the thread that waits for it (QFuture::result).  Each answer to the     *)
(* requests of the first `run' is handled by a third task, `poll', which   *)
(* nobody runs but the pool.  A watch is a task that keeps its thread, and *)
(* logs in from there; the GUI thread logs in for everything else.         *)
(*                                                                         *)
(* Tasks wait for a thread in the order in which they were started.  Okta, *)
(* STS and QThreadPool are external.                                       *)
(***************************************************************************)
EXTENDS Naturals, Sequences, FiniteSets, SequencesExt

CONSTANTS
  Threads,   \* threads of the pool: one per processor core
  Watches,   \* the pod watches the user may start
  Gui        \* the GUI thread, as a caller of oktaAuth

ASSUME ThreadsAssumption == Threads \in Nat \ {0}
ASSUME GuiAssumption     == Gui \notin Watches

Logins == Watches \cup {Gui}
Chain  == << "token", "cookie", "asserts", "assume" >>
Kinds  == {Chain[i] : i \in DOMAIN Chain} \cup {"watch", "run", "poll"}
Tasks  == Kinds \X Logins

VARIABLES
  pool,        \* active: the tasks that hold a thread; queue: those that wait for one
  step,        \* step[l]: the part of its login that caller l is in
  phase,       \* phase[l]: how far that part is
  token,       \* token[l]: the last poll of l returned a session token
  approved,    \* history: callers to whom Okta has answered SUCCESS in this login
  cacheValid   \* the settings hold credentials that have not expired

vars == << pool, step, phase, token, approved, cacheValid >>

Resting  == {"none", "queued", "watching", "ended"}
Steps    == Resting \cup {"primary", "returned"} \cup {Chain[i] : i \in DOMAIN Chain}
Phases   == {"waiting", "submitted", "requested", "polled", "ran", "finished"}

TypeOK ==
  /\ pool.active \subseteq Tasks
  /\ Cardinality(pool.active) <= Threads
  /\ pool.queue \in Seq(Tasks)
  /\ step \in [Logins -> Steps]
  /\ phase \in [Logins -> Phases]
  /\ token \in [Logins -> BOOLEAN]
  /\ approved \subseteq Logins
  /\ cacheValid \in BOOLEAN

Init ==
  /\ pool = [active |-> {}, queue |-> << >>]
  /\ step = [l \in Logins |-> "none"]
  /\ phase = [l \in Logins |-> "waiting"]
  /\ token = [l \in Logins |-> FALSE]
  /\ approved = {}
  /\ cacheValid \in BOOLEAN   \* settings outlive the program

-----------------------------------------------------------------------------
(***************************************************************************)
(* QThreadPool.                                                            *)
(***************************************************************************)
Start(p, task) ==
  IF Cardinality(p.active) < Threads THEN [p EXCEPT !.active = @ \cup {task}]
                                     ELSE [p EXCEPT !.queue = Append(@, task)]

\* A thread that has finished a task takes the first one of the queue.
Finish(p, task) ==
  IF p.queue = << >> THEN [p EXCEPT !.active = @ \ {task}]
  ELSE [active |-> (p.active \ {task}) \cup {Head(p.queue)}, queue |-> Tail(p.queue)]

Queued(p, task) == \E i \in DOMAIN p.queue : p.queue[i] = task

\* No task is in the queue twice.
Dequeue(p, task) ==
  IF ~Queued(p, task) THEN p
  ELSE LET place == CHOOSE i \in DOMAIN p.queue : p.queue[i] = task
       IN  [p EXCEPT !.queue = RemoveAt(@, place)]

HasThread(kind, l) == <<kind, l>> \in pool.active
Waits(kind, l)     == Queued(pool, <<kind, l>>)

-----------------------------------------------------------------------------
(***************************************************************************)
(* The GUI thread, while it is not blocked in oktaAuth.                    *)
(***************************************************************************)
GuiDispatches == step[Gui] \in {"none", "primary"}

\* The start of oktaAuth: with valid credentials in the settings it returns at
\* once, to a caller whose step after the login is `rest'.
BeginLogin(l, rest) ==
  /\ step' = [step EXCEPT ![l] = IF cacheValid THEN rest ELSE "primary"]
  /\ approved' = approved \ {l}
  /\ token' = [token EXCEPT ![l] = FALSE]

GuiLogin ==
  /\ step[Gui] = "none"
  /\ BeginLogin(Gui, "none")
  /\ UNCHANGED << pool, phase, cacheValid >>

WatchPods(w) ==
  /\ GuiDispatches
  /\ step[w] = "none"
  /\ step' = [step EXCEPT ![w] = "queued"]
  /\ pool' = Start(pool, <<"watch", w>>)
  /\ UNCHANGED << phase, token, approved, cacheValid >>

\* cancel() keeps a watch that has no thread yet from doing anything.
StopWatch(w) ==
  /\ GuiDispatches
  /\ step[w] = "queued"
  /\ Waits("watch", w)
  /\ step' = [step EXCEPT ![w] = "ended"]
  /\ pool' = Dequeue(pool, <<"watch", w>>)
  /\ UNCHANGED << phase, token, approved, cacheValid >>

WatchBegins(w) ==
  /\ step[w] = "queued"
  /\ HasThread("watch", w)
  /\ BeginLogin(w, "watching")
  /\ UNCHANGED << pool, phase, cacheValid >>

WatchEnds(w) ==
  /\ step[w] = "watching"
  /\ step' = [step EXCEPT ![w] = "ended"]
  /\ pool' = Finish(pool, <<"watch", w>>)
  /\ UNCHANGED << phase, token, approved, cacheValid >>

-----------------------------------------------------------------------------
(***************************************************************************)
(* The login.                                                              *)
(***************************************************************************)
\* primaryAuth: whatever Okta answers, the chain is started.
PrimaryAnswered(l) ==
  /\ step[l] = "primary"
  /\ step' = [step EXCEPT ![l] = "token"]
  /\ phase' = [phase EXCEPT ![l] = "waiting"]
  /\ pool' = Start(pool, <<"token", l>>)
  /\ UNCHANGED << token, approved, cacheValid >>

At(l, s, p) == step[l] = s /\ phase[l] = p
Goes(l, p)  == phase' = [phase EXCEPT ![l] = p]

\* getSessionToken and getAsserts: QtConcurrent::run, and result() on it.
StartRun(l) ==
  /\ \E s \in {"token", "asserts"} : At(l, s, "waiting") /\ HasThread(s, l)
  /\ pool' = Start(pool, <<"run", l>>)
  /\ Goes(l, "submitted")
  /\ UNCHANGED << step, token, approved, cacheValid >>

\* The pool has given `run' a thread, or the waiting thread takes it.
RunBegins(l) ==
  /\ phase[l] = "submitted"
  /\ pool' = Dequeue(pool, <<"run", l>>)
  /\ Goes(l, "requested")
  /\ UNCHANGED << step, token, approved, cacheValid >>

FactorAnswered(l) ==
  /\ At(l, "token", "requested")
  /\ pool' = Start(pool, <<"poll", l>>)
  /\ Goes(l, "polled")
  /\ UNCHANGED << step, token, approved, cacheValid >>

\* Mutant: the loop never ends.
PollForEver(hasToken) == TRUE

\* The loop goes on as long as the result is not empty.
PollAgain(hasToken) == hasToken

\* Okta answers SUCCESS once: that answer uses the state token up.
Poll(l) ==
  /\ phase[l] = "polled"
  /\ HasThread("poll", l)
  /\ \E hasToken \in {FALSE} \cup {l \notin approved} :
       /\ token' = [token EXCEPT ![l] = hasToken]
       /\ approved' = IF hasToken THEN approved \cup {l} ELSE approved
       /\ Goes(l, IF PollAgain(hasToken) THEN "requested" ELSE "ran")
  /\ pool' = Finish(pool, <<"poll", l>>)
  /\ UNCHANGED << step, cacheValid >>

\* getAsserts, when an answer is no redirect any more.
PageArrives(l) ==
  /\ At(l, "asserts", "requested")
  /\ Goes(l, "ran")
  /\ UNCHANGED << pool, step, token, approved, cacheValid >>

\* Mutant: a thread is given back also when `run' had none of its own.
RunEndsTwice(l) ==
  /\ phase[l] = "ran"
  /\ pool' = Finish(pool, <<"run", l>>)
  /\ Goes(l, "finished")
  /\ UNCHANGED << step, token, approved, cacheValid >>

RunEnds(l) ==
  /\ phase[l] = "ran"
  /\ pool' = IF HasThread("run", l) THEN Finish(pool, <<"run", l>>) ELSE pool
  /\ Goes(l, "finished")
  /\ UNCHANGED << step, token, approved, cacheValid >>

\* getSessionCookie and AssumeRoleWithSAML, on the thread of their own task.
SingleAnswer(l) ==
  /\ \E s \in {"cookie", "assume"} : At(l, s, "waiting") /\ HasThread(s, l)
  /\ Goes(l, "finished")
  /\ UNCHANGED << pool, step, token, approved, cacheValid >>

\* Mutant: a continuation starts the next one and waits for it.
HandOverNested(l, i) ==
  /\ At(l, Chain[i], "finished")
  /\ step' = [step EXCEPT ![l] = Chain[i + 1]]
  /\ Goes(l, "waiting")
  /\ pool' = Start(pool, <<Chain[i + 1], l>>)
  /\ UNCHANGED << token, approved, cacheValid >>

\* A continuation starts the next one and gives its thread back.
HandOver(l, i) ==
  /\ At(l, Chain[i], "finished")
  /\ step' = [step EXCEPT ![l] = Chain[i + 1]]
  /\ Goes(l, "waiting")
  /\ pool' = Finish(Start(pool, <<Chain[i + 1], l>>), <<Chain[i], l>>)
  /\ UNCHANGED << token, approved, cacheValid >>

ChainEnds(l) ==
  /\ At(l, "assume", "finished")
  /\ step' = [step EXCEPT ![l] = "returned"]
  /\ pool' = Finish(pool, <<"assume", l>>)
  /\ UNCHANGED << phase, token, approved, cacheValid >>

\* oktaAuth writes what AssumeRoleWithSAML returned to the settings, the empty
\* strings of a failure too, and returns.  Without a session token it fails.
OktaReturns(l) ==
  /\ step[l] = "returned"
  /\ cacheValid' \in {FALSE, token[l]}
  /\ step' = [step EXCEPT ![l] = IF l = Gui THEN "none" ELSE "watching"]
  /\ UNCHANGED << pool, phase, token, approved >>

CacheExpires ==
  /\ cacheValid
  /\ cacheValid' = FALSE
  /\ UNCHANGED << pool, step, phase, token, approved >>

-----------------------------------------------------------------------------
LoginStep(l) ==
  \/ PrimaryAnswered(l) \/ StartRun(l) \/ RunBegins(l) \/ FactorAnswered(l)
  \/ Poll(l) \/ PageArrives(l) \/ RunEnds(l) \/ SingleAnswer(l)
  \/ \E i \in 1 .. 3 : HandOver(l, i)
  \/ ChainEnds(l) \/ OktaReturns(l)

Next ==
  \/ GuiLogin
  \/ \E w \in Watches : WatchPods(w) \/ StopWatch(w) \/ WatchBegins(w) \/ WatchEnds(w)
  \/ \E l \in Logins : LoginStep(l)
  \/ CacheExpires

\* The threads run and every request is answered or fails.  Nothing is assumed
\* of the user, and a watch may last for ever.
Fairness ==
  /\ \A l \in Logins : WF_vars(LoginStep(l))
  /\ \A w \in Watches : WF_vars(WatchBegins(w))

Spec == Init /\ [][Next]_vars /\ Fairness

-----------------------------------------------------------------------------
LoggingIn(l)  == step[l] \notin Resting
NeedsThread(l) ==
  \/ phase[l] = "waiting" /\ \E i \in DOMAIN Chain : At(l, Chain[i], "waiting") /\ Waits(Chain[i], l)
  \/ phase[l] = "polled" /\ LoggingIn(l) /\ Waits("poll", l)

\* Every login that has begun waits for a thread of the pool.
Frozen ==
  /\ \E l \in Logins : LoggingIn(l)
  /\ \A l \in Logins : LoggingIn(l) => NeedsThread(l)

\* Logins that wait for a thread wait for each other only over a `poll' task
\* (Okta.cpp:73): all other waiting is on tasks the waiting thread can run
\* itself, or needs a watch to hold every thread.
OnlyPollsFreeze ==
  Frozen => \/ \E l \in Logins : Waits("poll", l)
            \/ \A t \in pool.active : t[1] = "watch"

\* The GUI thread's own login never waits for ever for the pool while no watch
\* has a thread: one chain needs three threads at a time.
GuiAloneNeverFreezes == Frozen => \E w \in Watches : HasThread("watch", w)

\* A login holds no thread but those of its current step.
LoginsReleaseThreads ==
  \A l \in Logins, t \in pool.active :
    t[2] = l /\ t[1] # "watch" => /\ t[1] \in {step[l], "run", "poll"}
                                  /\ t[1] = "run" => step[l] \in {"token", "asserts"}
                                  /\ t[1] = "poll" => step[l] = "token"

\* The GUI thread comes back from a login, unless logins and watches hold all
\* the threads that the login needs.
LoginEnds == LoggingIn(Gui) ~> (~LoggingIn(Gui) \/ Frozen)

\* What README.md:25 says ("already integrated into multiple platforms services
\* like AWS, Kubernetes, Docker, and OKTA"): a login whose second factor Okta
\* has reported as approved goes on with a session token.
ApprovedLoginHasToken ==
  \A l \in Logins :
    l \in approved /\ step[l] \in {"cookie", "asserts", "assume"} => token[l]
=============================================================================
