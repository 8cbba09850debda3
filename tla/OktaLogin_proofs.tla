--------------------------- MODULE OktaLogin_proofs ---------------------------
(***************************************************************************)
(* Proofs about the Okta login and the thread pool, for any number of      *)
(* threads and watches: every task of the pool belongs to the step its     *)
(* login is in, so a login holds no thread longer than it needs it, and    *)
(* logins that wait for threads can only wait for each other over `poll'.  *)
(***************************************************************************)
EXTENDS OktaLogin, FiniteSetTheorems, SequenceTheorems, TLAPS

-----------------------------------------------------------------------------
(***************************************************************************)
(* The thread pool.                                                        *)
(***************************************************************************)
Waiting(p) == {p.queue[i] : i \in DOMAIN p.queue}
Alive(p)   == p.active \cup Waiting(p)

\* A task has one place, and tasks wait only while every thread is taken.
PoolInv(p) ==
  /\ p \in [active : SUBSET Tasks, queue : Seq(Tasks)]
  /\ IsFiniteSet(p.active)
  /\ Cardinality(p.active) <= Threads
  /\ p.queue # << >> => Cardinality(p.active) = Threads
  /\ \A i, j \in DOMAIN p.queue : p.queue[i] = p.queue[j] => i = j
  /\ Waiting(p) \cap p.active = {}

\* A task that is started gets a thread or the last place of the queue.
LEMMA StartTask ==
  ASSUME NEW p, PoolInv(p), NEW t \in Tasks, t \notin Alive(p)
  PROVE  /\ PoolInv(Start(p, t))
         /\ Alive(Start(p, t)) = Alive(p) \cup {t}
         /\ p.active \subseteq Start(p, t).active
         /\ Waiting(Start(p, t)) \subseteq Waiting(p) \cup {t}
<1>1. Cardinality(p.active) \in Nat
  BY FS_CardinalityType DEF PoolInv
<1>2. CASE Cardinality(p.active) < Threads
  <2> DEFINE q == [p EXCEPT !.active = p.active \cup {t}]
  <2>1. Start(p, t) = q
    BY <1>2 DEF Start
  <2>2. q.active = p.active \cup {t} /\ q.queue = p.queue
    BY DEF PoolInv
  <2>3. q \in [active : SUBSET Tasks, queue : Seq(Tasks)]
    BY DEF PoolInv
  <2> HIDE DEF q
  <2>4. t \notin p.active /\ t \notin Waiting(p)
    BY DEF Alive
  <2>5. IsFiniteSet(q.active) /\ Cardinality(q.active) = Cardinality(p.active) + 1
    BY <2>2, <2>4, FS_AddElement DEF PoolInv
  <2>6. q.queue = << >>
    BY <1>2, <2>2, <1>1, ThreadsAssumption DEF PoolInv
  <2>7. Waiting(q) = Waiting(p)
    BY <2>2 DEF Waiting
  <2>8. PoolInv(q)
    BY <1>1, <1>2, <2>2, <2>3, <2>4, <2>5, <2>6, <2>7, ThreadsAssumption DEF PoolInv
  <2> QED
    BY <2>1, <2>2, <2>7, <2>8 DEF Alive
<1>3. CASE ~(Cardinality(p.active) < Threads)
  <2> DEFINE q == [p EXCEPT !.queue = Append(p.queue, t)]
  <2>1. Start(p, t) = q
    BY <1>3 DEF Start
  <2>2. q.active = p.active /\ q.queue = Append(p.queue, t)
    BY DEF PoolInv
  <2>3. q \in [active : SUBSET Tasks, queue : Seq(Tasks)]
    BY DEF PoolInv
  <2> HIDE DEF q
  <2>4. t \notin p.active /\ t \notin Waiting(p)
    BY DEF Alive
  <2>5. /\ DOMAIN q.queue = DOMAIN p.queue \cup {Len(p.queue) + 1}
        /\ \A i \in DOMAIN p.queue : q.queue[i] = p.queue[i]
        /\ q.queue[Len(p.queue) + 1] = t
    BY <2>2 DEF PoolInv
  <2>6. Waiting(q) = Waiting(p) \cup {t}
    BY <2>5 DEF Waiting
  <2>7. \A i, j \in DOMAIN q.queue : q.queue[i] = q.queue[j] => i = j
    BY <2>4, <2>5 DEF PoolInv, Waiting
  <2>8. Cardinality(p.active) = Threads
    BY <1>1, <1>3, ThreadsAssumption DEF PoolInv
  <2>9. PoolInv(q)
    BY <2>2, <2>3, <2>4, <2>6, <2>7, <2>8, ThreadsAssumption DEF PoolInv
  <2> QED
    BY <2>1, <2>2, <2>6, <2>9 DEF Alive
<1> QED
  BY <1>2, <1>3

\* The thread of a task that ends is taken by the first one of the queue.
LEMMA FinishTask ==
  ASSUME NEW p, PoolInv(p), NEW t \in p.active
  PROVE  /\ PoolInv(Finish(p, t))
         /\ Alive(Finish(p, t)) = Alive(p) \ {t}
         /\ p.active \ {t} \subseteq Finish(p, t).active
         /\ Waiting(Finish(p, t)) \subseteq Waiting(p)
<1>1. /\ Cardinality(p.active) \in Nat
      /\ IsFiniteSet(p.active \ {t})
      /\ Cardinality(p.active \ {t}) = Cardinality(p.active) - 1
  BY FS_CardinalityType, FS_RemoveElement DEF PoolInv
<1>2. t \notin Waiting(p)
  BY DEF PoolInv
<1>3. CASE p.queue = << >>
  <2> DEFINE q == [p EXCEPT !.active = p.active \ {t}]
  <2>1. Finish(p, t) = q
    BY <1>3 DEF Finish
  <2>2. q.active = p.active \ {t} /\ q.queue = p.queue
    BY DEF PoolInv
  <2>3. q \in [active : SUBSET Tasks, queue : Seq(Tasks)]
    BY DEF PoolInv
  <2> HIDE DEF q
  <2>4. Waiting(q) = Waiting(p)
    BY <2>2 DEF Waiting
  <2>5. PoolInv(q)
    BY <1>1, <1>3, <2>2, <2>3, <2>4, ThreadsAssumption DEF PoolInv
  <2> QED
    BY <1>2, <2>1, <2>2, <2>4, <2>5 DEF Alive
<1>4. CASE p.queue # << >>
  <2> DEFINE h == Head(p.queue)
             q == [active |-> (p.active \ {t}) \cup {h}, queue |-> Tail(p.queue)]
  <2>1. Finish(p, t) = q
    BY <1>4 DEF Finish
  <2>2. /\ h \in Tasks /\ Tail(p.queue) \in Seq(Tasks)
        /\ h = p.queue[1] /\ 1 \in DOMAIN p.queue
        /\ DOMAIN Tail(p.queue) = 1 .. (Len(p.queue) - 1)
        /\ DOMAIN p.queue = 1 .. Len(p.queue) /\ Len(p.queue) \in Nat \ {0}
        /\ \A i \in 1 .. (Len(p.queue) - 1) : Tail(p.queue)[i] = p.queue[i + 1]
    BY <1>4 DEF PoolInv
  <2>3. q.active = (p.active \ {t}) \cup {h} /\ q.queue = Tail(p.queue)
    OBVIOUS
  <2>4. q \in [active : SUBSET Tasks, queue : Seq(Tasks)]
    BY <2>2 DEF PoolInv
  <2> HIDE DEF q, h
  <2>5. h \in Waiting(p) /\ h \notin p.active
    BY <2>2 DEF Waiting, PoolInv
  <2>6. Waiting(q) = Waiting(p) \ {h}
    <3>1. Waiting(q) \subseteq Waiting(p)
      BY <2>2, <2>3 DEF Waiting
    <3>2. h \notin Waiting(q)
      BY <2>2, <2>3 DEF Waiting, PoolInv
    <3>3. \A i \in DOMAIN p.queue : i = 1 \/ (i - 1 \in DOMAIN q.queue /\ q.queue[i - 1] = p.queue[i])
      BY <2>2, <2>3
    <3>4. Waiting(p) \subseteq Waiting(q) \cup {h}
      BY <2>2, <3>3 DEF Waiting
    <3> QED
      BY <3>1, <3>2, <3>4
  <2>7. IsFiniteSet(q.active) /\ Cardinality(q.active) = Cardinality(p.active)
    <3>1. h \notin p.active \ {t}
      BY <2>5
    <3>2. /\ IsFiniteSet((p.active \ {t}) \cup {h})
          /\ Cardinality((p.active \ {t}) \cup {h}) = Cardinality(p.active \ {t}) + 1
      BY <1>1, <3>1, FS_AddElement
    <3> QED
      BY <1>1, <2>3, <3>2
  <2>8. \A i, j \in DOMAIN q.queue : q.queue[i] = q.queue[j] => i = j
    <3> SUFFICES ASSUME NEW i \in DOMAIN q.queue, NEW j \in DOMAIN q.queue,
                        q.queue[i] = q.queue[j]
                 PROVE  i = j
      OBVIOUS
    <3>1. i \in 1 .. (Len(p.queue) - 1) /\ j \in 1 .. (Len(p.queue) - 1)
      BY <2>2, <2>3
    <3>2. p.queue[i + 1] = p.queue[j + 1]
      BY <2>2, <2>3, <3>1
    <3>3. i + 1 \in DOMAIN p.queue /\ j + 1 \in DOMAIN p.queue
      BY <2>2, <3>1
    <3>4. i + 1 = j + 1
      BY <3>2, <3>3 DEF PoolInv
    <3> QED
      BY <3>1, <3>4
  <2>9. PoolInv(q)
    BY <1>4, <2>3, <2>4, <2>5, <2>6, <2>7, <2>8 DEF PoolInv
  <2> QED
    BY <1>2, <2>1, <2>3, <2>5, <2>6, <2>9 DEF Alive
<1> QED
  BY <1>3, <1>4

\* What is left of a queue when one place is taken out.
LEMMA RemovedAt ==
  ASSUME NEW S, NEW s \in Seq(S), NEW n \in DOMAIN s
  PROVE  /\ RemoveAt(s, n) \in Seq(S)
         /\ Len(RemoveAt(s, n)) = Len(s) - 1
         /\ \A i \in 1 .. (Len(s) - 1) : RemoveAt(s, n)[i] = IF i < n THEN s[i] ELSE s[i + 1]
<1> DEFINE a == SubSeq(s, 1, n - 1)
           b == SubSeq(s, n + 1, Len(s))
<1>1. n \in 1 .. Len(s) /\ Len(s) \in Nat
  OBVIOUS
<1>2. /\ a \in Seq(S) /\ Len(a) = n - 1
      /\ \A i \in 1 .. (n - 1) : a[i] = s[i]
  BY <1>1, SubSeqProperties
<1>3. /\ b \in Seq(S) /\ Len(b) = Len(s) - n
      /\ \A i \in 1 .. (Len(s) - n) : b[i] = s[n + i]
  BY <1>1, SubSeqProperties
<1> HIDE DEF a, b
<1>4. RemoveAt(s, n) = a \o b
  BY DEF RemoveAt, a, b
<1> QED
  BY <1>1, <1>2, <1>3, <1>4

\* A task that leaves the queue is not there any more; the rest stays.
LEMMA DequeueTask ==
  ASSUME NEW p, PoolInv(p), NEW t
  PROVE  /\ PoolInv(Dequeue(p, t))
         /\ Dequeue(p, t).active = p.active
         /\ Waiting(Dequeue(p, t)) = Waiting(p) \ {t}
<1>1. CASE ~Queued(p, t)
  BY <1>1 DEF Dequeue, Queued, Waiting
<1>2. CASE Queued(p, t)
  <2> DEFINE n == CHOOSE i \in DOMAIN p.queue : p.queue[i] = t
             r == RemoveAt(p.queue, n)
             q == [p EXCEPT !.queue = r]
  <2>1. Dequeue(p, t) = q
    BY <1>2 DEF Dequeue
  <2>2. n \in DOMAIN p.queue /\ p.queue[n] = t
    BY <1>2 DEF Queued
  <2> HIDE DEF n
  <2>3. /\ p.queue \in Seq(Tasks)
        /\ DOMAIN p.queue = 1 .. Len(p.queue) /\ Len(p.queue) \in Nat /\ n \in 1 .. Len(p.queue)
    BY <2>2 DEF PoolInv
  <2>4. /\ r \in Seq(Tasks) /\ Len(r) = Len(p.queue) - 1
        /\ \A i \in 1 .. (Len(p.queue) - 1) :
             r[i] = IF i < n THEN p.queue[i] ELSE p.queue[i + 1]
    BY <2>2, <2>3, RemovedAt
  <2> HIDE DEF r
  <2>5. DOMAIN r = 1 .. (Len(p.queue) - 1)
    BY <2>4
  <2>6. q.active = p.active /\ q.queue = r
    BY DEF PoolInv
  <2>7. q \in [active : SUBSET Tasks, queue : Seq(Tasks)]
    BY <2>4 DEF PoolInv
  <2> HIDE DEF q
  <2>8. \A i \in DOMAIN r : \E k \in DOMAIN p.queue \ {n} : r[i] = p.queue[k] /\ k \in {i, i + 1}
    BY <2>3, <2>4, <2>5
  <2>9. \A k \in DOMAIN p.queue \ {n} : \E i \in DOMAIN r : r[i] = p.queue[k]
    <3> SUFFICES ASSUME NEW k \in DOMAIN p.queue \ {n} PROVE \E i \in DOMAIN r : r[i] = p.queue[k]
      OBVIOUS
    <3>1. CASE k < n
      BY <2>3, <2>4, <2>5, <3>1
    <3>2. CASE n < k
      <4>1. k - 1 \in DOMAIN r /\ ~(k - 1 < n) /\ (k - 1) + 1 = k
        BY <2>3, <2>5, <3>2
      <4> QED
        BY <2>4, <2>5, <4>1
    <3> QED
      BY <2>3, <3>1, <3>2
  <2>10. Waiting(q) = Waiting(p) \ {t}
    <3>1. \A k \in DOMAIN p.queue \ {n} : p.queue[k] # t
      BY <2>2 DEF PoolInv
    <3> QED
      BY <2>2, <2>6, <2>8, <2>9, <3>1 DEF Waiting
  <2>11. \A i, j \in DOMAIN r : r[i] = r[j] => i = j
    <3> SUFFICES ASSUME NEW i \in DOMAIN r, NEW j \in DOMAIN r, r[i] = r[j] PROVE i = j
      OBVIOUS
    <3> DEFINE at(k) == IF k < n THEN k ELSE k + 1
    <3>1. /\ at(i) \in DOMAIN p.queue /\ r[i] = p.queue[at(i)]
          /\ at(j) \in DOMAIN p.queue /\ r[j] = p.queue[at(j)]
      BY <2>3, <2>4, <2>5
    <3>2. at(i) = at(j)
      BY <3>1 DEF PoolInv
    <3> QED
      BY <2>3, <2>5, <3>2
  <2>12. p.queue # << >>
    BY <2>3
  <2>13. PoolInv(q)
    BY <2>6, <2>7, <2>10, <2>11, <2>12 DEF PoolInv
  <2> QED
    BY <2>1, <2>6, <2>10, <2>13
<1> QED
  BY <1>1, <1>2

-----------------------------------------------------------------------------
(***************************************************************************)
(* The inductive invariant.                                                *)
(***************************************************************************)
InChain(s) == \E i \in DOMAIN Chain : Chain[i] = s
Running(l) == phase[l] \in {"submitted", "requested", "polled", "ran"}

\* Why task t is in the pool: its login is in the step that needs it.
Needed(t) ==
  \/ t[1] = "watch" /\ t[2] \in Watches /\ step[t[2]] \notin {"none", "ended"}
  \/ t[1] = step[t[2]] /\ InChain(t[1])
  \/ t[1] = "run" /\ step[t[2]] \in {"token", "asserts"} /\ Running(t[2])
  \/ t[1] = "poll" /\ step[t[2]] = "token" /\ phase[t[2]] = "polled"

NoTaskIsLeft == \A t \in Alive(pool) : Needed(t)

\* The threads that caller l holds while its step lasts.
HoldsThreads(l) ==
  /\ l \in Watches /\ (step[l] \in {"watching", "primary", "returned"} \/ InChain(step[l]))
       => HasThread("watch", l)
  /\ InChain(step[l]) /\ phase[l] # "waiting" => HasThread(step[l], l)

\* Where a `run' or a `poll' has come to.
PhaseFits(l) ==
  /\ Running(l) => step[l] \in {"token", "asserts"}
  /\ phase[l] = "polled" => step[l] = "token"
  /\ <<"run", l>> \in Waiting(pool) => phase[l] = "submitted"

OtherTypes ==
  /\ step \in [Logins -> Steps]
  /\ phase \in [Logins -> Phases]
  /\ token \in [Logins -> BOOLEAN]
  /\ approved \subseteq Logins
  /\ cacheValid \in BOOLEAN

IInv ==
  /\ OtherTypes
  /\ PoolInv(pool)
  /\ NoTaskIsLeft
  /\ \A l \in Logins : HoldsThreads(l) /\ PhaseFits(l)

\* A step of one caller disturbs what holds of the others only through the pool.
LEMMA OneLogin ==
  ASSUME IInv, NEW l \in Logins, OtherTypes', PoolInv(pool'),
         \A k \in Logins \ {l} : step'[k] = step[k] /\ phase'[k] = phase[k],
         \A t \in pool.active : t[2] # l => t \in pool'.active,
         \A t \in Waiting(pool') : t[2] # l => t \in Waiting(pool),
         \A t \in pool'.active : t[2] # l => t \in Alive(pool),
         \A t \in Alive(pool') : t[2] = l => Needed(t)',
         HoldsThreads(l)', PhaseFits(l)'
  PROVE  IInv'
<1>1. \A t \in Alive(pool') : t[2] \in Logins
  BY DEF PoolInv, Alive, Waiting, Tasks
<1>2. ASSUME NEW t \in Alive(pool') PROVE Needed(t)'
  <2>1. CASE t[2] = l
    BY <2>1
  <2>2. CASE t[2] # l
    <3>1. t \in Alive(pool)
      BY <2>2 DEF Alive
    <3>2. Needed(t)
      BY <3>1 DEF IInv, NoTaskIsLeft
    <3>3. t[2] \in Logins \ {l}
      BY <1>1, <2>2
    <3>4. step'[t[2]] = step[t[2]] /\ phase'[t[2]] = phase[t[2]]
      BY <3>3
    <3> QED
      BY <3>2, <3>4 DEF Needed, Running
  <2> QED
    BY <2>1, <2>2
<1>3. NoTaskIsLeft'
  BY <1>2 DEF NoTaskIsLeft
<1>4. ASSUME NEW k \in Logins PROVE HoldsThreads(k)' /\ PhaseFits(k)'
  <2>1. CASE k = l
    BY <2>1
  <2>2. CASE k # l
    <3>1. step'[k] = step[k] /\ phase'[k] = phase[k] /\ HoldsThreads(k) /\ PhaseFits(k)
      BY <2>2 DEF IInv
    <3>2. \A x : HasThread(x, k) => HasThread(x, k)'
      BY <2>2 DEF HasThread
    <3>3. HoldsThreads(k)'
      BY <3>1, <3>2 DEF HoldsThreads
    <3>4. <<"run", k>> \in Waiting(pool') => <<"run", k>> \in Waiting(pool)
      BY <2>2
    <3>5. PhaseFits(k)'
      BY <3>1, <3>4 DEF PhaseFits, Running
    <3> QED
      BY <3>3, <3>5
  <2> QED
    BY <2>1, <2>2
<1> QED
  BY <1>3, <1>4 DEF IInv

LEMMA KindTyped ==
  /\ \A i \in DOMAIN Chain : Chain[i] \in {"token", "cookie", "asserts", "assume"}
  /\ DOMAIN Chain = 1 .. 4
  /\ Chain[1] = "token" /\ Chain[2] = "cookie" /\ Chain[3] = "asserts" /\ Chain[4] = "assume"
  /\ \A s : InChain(s) <=> s \in {"token", "cookie", "asserts", "assume"}
BY DEF Chain, InChain

LEMMA StepTyped ==
  /\ Steps = {"none", "queued", "watching", "ended", "primary", "returned",
              "token", "cookie", "asserts", "assume"}
  /\ Kinds = {"token", "cookie", "asserts", "assume", "watch", "run", "poll"}
  /\ Logins = Watches \cup {Gui}
BY KindTyped DEF Steps, Resting, Kinds, Logins, Chain

LEMMA ActivesLive == ASSUME NEW p, NEW t \in p.active PROVE t \in Alive(p)
BY DEF Alive

\* The pool is left alone, and the caller's step too.
LEMMA SamePool ==
  ASSUME IInv, NEW l \in Logins, OtherTypes', pool' = pool,
         \A k \in Logins \ {l} : step'[k] = step[k] /\ phase'[k] = phase[k],
         \A t \in Alive(pool) : t[2] = l => Needed(t)',
         HoldsThreads(l)', PhaseFits(l)'
  PROVE  IInv'
<1>1. PoolInv(pool')
  BY DEF IInv
<1>2. \A t \in pool'.active : t \in Alive(pool)
  BY ActivesLive
<1> QED
  BY <1>1, <1>2, OneLogin

LEMMA BeginLoginKeeps ==
  ASSUME IInv, NEW l \in Logins, NEW rest \in {"none", "watching"}, BeginLogin(l, rest),
         l = Gui <=> rest = "none", UNCHANGED << pool, phase, cacheValid >>,
         step[l] \in {"none", "queued"}, l # Gui => HasThread("watch", l)
  PROVE  IInv'
<1>1. /\ step' = [step EXCEPT ![l] = IF cacheValid THEN rest ELSE "primary"]
      /\ approved' \subseteq Logins /\ token' \in [Logins -> BOOLEAN]
  BY DEF BeginLogin, IInv, OtherTypes
<1>2. /\ step' \in [Logins -> Steps]
      /\ step'[l] \in {"none", "watching", "primary"} /\ (l # Gui => step'[l] # "none")
      /\ \A k \in Logins \ {l} : step'[k] = step[k]
  BY <1>1, StepTyped DEF IInv, OtherTypes
<1>3. OtherTypes'
  BY <1>1, <1>2 DEF IInv, OtherTypes
<1>4. \A t \in Alive(pool) : t[2] = l => Needed(t)'
  <2> SUFFICES ASSUME NEW t \in Alive(pool), t[2] = l PROVE Needed(t)'
    OBVIOUS
  <2>1. Needed(t)
    BY DEF IInv, NoTaskIsLeft
  <2>2. t[1] = "watch" /\ l \in Watches
    BY <2>1, KindTyped DEF Needed
  <2> QED
    BY <1>2, <2>2, GuiAssumption DEF Needed
<1>5. HoldsThreads(l)'
  BY <1>2, KindTyped, GuiAssumption DEF HoldsThreads, HasThread
<1>6. ~Running(l)
  BY DEF IInv, PhaseFits
<1>7. PhaseFits(l)'
  BY <1>6 DEF IInv, PhaseFits, Running
<1> QED
  BY <1>2, <1>3, <1>4, <1>5, <1>7, SamePool

LEMMA GuiLoginKeeps ==
  ASSUME IInv, GuiLogin
  PROVE  IInv'
<1>1. Gui \in Logins
  BY DEF Logins
<1> QED
  BY <1>1, BeginLoginKeeps DEF GuiLogin

LEMMA WatchBeginsKeeps ==
  ASSUME IInv, NEW w \in Watches, WatchBegins(w)
  PROVE  IInv'
<1>1. w \in Logins /\ w # Gui
  BY GuiAssumption DEF Logins
<1> QED
  BY <1>1, BeginLoginKeeps DEF WatchBegins

LEMMA WatchPodsKeeps ==
  ASSUME IInv, NEW w \in Watches, WatchPods(w)
  PROVE  IInv'
<1> DEFINE t == <<"watch", w>>
<1>1. /\ step[w] = "none" /\ step' = [step EXCEPT ![w] = "queued"]
      /\ pool' = Start(pool, t) /\ UNCHANGED << phase, token, approved, cacheValid >>
  BY DEF WatchPods
<1>2. w \in Logins /\ t \in Tasks /\ t[1] = "watch" /\ t[2] = w
  BY StepTyped DEF Tasks
<1>3. /\ step' \in [Logins -> Steps] /\ step'[w] = "queued"
      /\ \A k \in Logins \ {w} : step'[k] = step[k]
  BY <1>1, <1>2, StepTyped DEF IInv, OtherTypes
<1>4. OtherTypes'
  BY <1>1, <1>3 DEF IInv, OtherTypes
<1>5. \A x \in Alive(pool) : x[2] # w
  <2> SUFFICES ASSUME NEW x \in Alive(pool), x[2] = w PROVE FALSE
    OBVIOUS
  <2>1. Needed(x)
    BY DEF IInv, NoTaskIsLeft
  <2> QED
    BY <1>1, <2>1, KindTyped DEF Needed
<1> HIDE DEF t
<1>6. /\ PoolInv(pool') /\ Alive(pool') = Alive(pool) \cup {t}
      /\ pool.active \subseteq pool'.active /\ Waiting(pool') \subseteq Waiting(pool) \cup {t}
  BY <1>1, <1>2, <1>5, StartTask DEF IInv
<1>7. Needed(t)'
  BY <1>2, <1>3 DEF Needed
<1>8. HoldsThreads(w)'
  BY <1>3, KindTyped DEF HoldsThreads
<1>9. PhaseFits(w)'
  <2>1. ~Running(w) /\ phase' = phase
    BY <1>1, <1>2 DEF IInv, PhaseFits
  <2>2. <<"run", w>> \notin Waiting(pool')
    BY <1>2, <1>5, <1>6 DEF Alive
  <2> QED
    BY <2>1, <2>2 DEF PhaseFits, Running
<1> QED
  BY <1>1, <1>2, <1>3, <1>4, <1>5, <1>6, <1>7, <1>8, <1>9, OneLogin, ActivesLive DEF Alive

\* A task of caller l ends, and its thread goes to whoever waits first.
LEMMA FinishFrame ==
  ASSUME NEW p, PoolInv(p), NEW t \in p.active, NEW l, t[2] = l
  PROVE  /\ PoolInv(Finish(p, t))
         /\ Alive(Finish(p, t)) = Alive(p) \ {t}
         /\ p.active \ {t} \subseteq Finish(p, t).active
         /\ Waiting(Finish(p, t)) \subseteq Waiting(p)
         /\ \A x \in p.active : x[2] # l => x \in Finish(p, t).active
         /\ \A x \in Waiting(Finish(p, t)) : x[2] # l => x \in Waiting(p)
         /\ \A x \in Finish(p, t).active : x[2] # l => x \in Alive(p)
BY FinishTask, ActivesLive DEF Alive

LEMMA StartFrame ==
  ASSUME NEW p, PoolInv(p), NEW t \in Tasks, t \notin Alive(p), NEW l, t[2] = l
  PROVE  /\ PoolInv(Start(p, t))
         /\ Alive(Start(p, t)) = Alive(p) \cup {t}
         /\ p.active \subseteq Start(p, t).active
         /\ Waiting(Start(p, t)) \subseteq Waiting(p) \cup {t}
         /\ \A x \in p.active : x[2] # l => x \in Start(p, t).active
         /\ \A x \in Waiting(Start(p, t)) : x[2] # l => x \in Waiting(p)
         /\ \A x \in Start(p, t).active : x[2] # l => x \in Alive(p)
BY StartTask, ActivesLive DEF Alive

LEMMA DequeueFrame ==
  ASSUME NEW p, PoolInv(p), NEW t, NEW l, t[2] = l
  PROVE  /\ PoolInv(Dequeue(p, t))
         /\ Dequeue(p, t).active = p.active
         /\ Waiting(Dequeue(p, t)) = Waiting(p) \ {t}
         /\ Alive(Dequeue(p, t)) \subseteq Alive(p)
         /\ \A x \in p.active : x[2] # l => x \in Dequeue(p, t).active
         /\ \A x \in Waiting(Dequeue(p, t)) : x[2] # l => x \in Waiting(p)
         /\ \A x \in Dequeue(p, t).active : x[2] # l => x \in Alive(p)
BY DequeueTask, ActivesLive DEF Alive

LEMMA StopWatchKeeps ==
  ASSUME IInv, NEW w \in Watches, StopWatch(w)
  PROVE  IInv'
<1> DEFINE t == <<"watch", w>>
<1>1. /\ step[w] = "queued" /\ step' = [step EXCEPT ![w] = "ended"]
      /\ t \in Waiting(pool)
      /\ pool' = Dequeue(pool, t) /\ UNCHANGED << phase, token, approved, cacheValid >>
  BY DEF StopWatch, Waits, Queued, Waiting
<1>2. w \in Logins /\ t[1] = "watch" /\ t[2] = w
  BY StepTyped
<1>3. /\ step' \in [Logins -> Steps] /\ step'[w] = "ended"
      /\ \A k \in Logins \ {w} : step'[k] = step[k]
  BY <1>1, <1>2, StepTyped DEF IInv, OtherTypes
<1>4. OtherTypes'
  BY <1>1, <1>3 DEF IInv, OtherTypes
<1>5. \A x \in Alive(pool) : x[2] = w => x = t
  <2> SUFFICES ASSUME NEW x \in Alive(pool), x[2] = w PROVE x = t
    OBVIOUS
  <2>1. Needed(x)
    BY DEF IInv, NoTaskIsLeft
  <2>2. x[1] = "watch"
    BY <1>1, <2>1, KindTyped DEF Needed
  <2>3. x \in Tasks
    BY DEF IInv, PoolInv, Alive, Waiting
  <2> QED
    BY <2>2, <2>3 DEF Tasks
<1> HIDE DEF t
<1>6. /\ PoolInv(pool') /\ pool'.active = pool.active /\ Waiting(pool') = Waiting(pool) \ {t}
      /\ \A x \in pool.active : x[2] # w => x \in pool'.active
      /\ \A x \in Waiting(pool') : x[2] # w => x \in Waiting(pool)
      /\ \A x \in pool'.active : x[2] # w => x \in Alive(pool)
  BY <1>1, <1>2, DequeueFrame DEF IInv
<1>7. \A x \in Alive(pool') : x[2] # w
  <2>1. t \notin pool.active
    BY <1>1 DEF IInv, PoolInv
  <2>2. Alive(pool') = Alive(pool) \ {t}
    BY <1>6, <2>1 DEF Alive
  <2> QED
    BY <1>5, <2>2
<1>8. HoldsThreads(w)'
  BY <1>3, KindTyped DEF HoldsThreads
<1>9. PhaseFits(w)'
  <2>1. ~Running(w) /\ phase' = phase
    BY <1>1, <1>2 DEF IInv, PhaseFits
  <2>2. <<"run", w>> \notin Waiting(pool')
    BY <1>7 DEF Alive
  <2> QED
    BY <2>1, <2>2 DEF PhaseFits, Running
<1> QED
  BY <1>2, <1>3, <1>4, <1>1, <1>6, <1>7, <1>8, <1>9, OneLogin

LEMMA WatchEndsKeeps ==
  ASSUME IInv, NEW w \in Watches, WatchEnds(w)
  PROVE  IInv'
<1> DEFINE t == <<"watch", w>>
<1>1. /\ step[w] = "watching" /\ step' = [step EXCEPT ![w] = "ended"]
      /\ pool' = Finish(pool, t) /\ UNCHANGED << phase, token, approved, cacheValid >>
  BY DEF WatchEnds
<1>2. w \in Logins /\ t[1] = "watch" /\ t[2] = w
  BY StepTyped
<1>3. /\ step' \in [Logins -> Steps] /\ step'[w] = "ended"
      /\ \A k \in Logins \ {w} : step'[k] = step[k]
  BY <1>1, <1>2, StepTyped DEF IInv, OtherTypes
<1>4. OtherTypes'
  BY <1>1, <1>3 DEF IInv, OtherTypes
<1>5. t \in pool.active
  BY <1>1, <1>2 DEF IInv, HoldsThreads, HasThread
<1>6. \A x \in Alive(pool) : x[2] = w => x = t
  <2> SUFFICES ASSUME NEW x \in Alive(pool), x[2] = w PROVE x = t
    OBVIOUS
  <2>1. Needed(x)
    BY DEF IInv, NoTaskIsLeft
  <2>2. x[1] = "watch"
    BY <1>1, <2>1, KindTyped DEF Needed
  <2>3. x \in Tasks
    BY DEF IInv, PoolInv, Alive, Waiting
  <2> QED
    BY <2>2, <2>3 DEF Tasks
<1> HIDE DEF t
<1>7. /\ PoolInv(pool') /\ Alive(pool') = Alive(pool) \ {t}
      /\ \A x \in pool.active : x[2] # w => x \in pool'.active
      /\ \A x \in Waiting(pool') : x[2] # w => x \in Waiting(pool)
      /\ \A x \in pool'.active : x[2] # w => x \in Alive(pool)
  BY <1>1, <1>2, <1>5, FinishFrame DEF IInv
<1>8. \A x \in Alive(pool') : x[2] # w
  BY <1>6, <1>7
<1>9. HoldsThreads(w)'
  BY <1>3, KindTyped DEF HoldsThreads
<1>10. PhaseFits(w)'
  <2>1. ~Running(w) /\ phase' = phase
    BY <1>1, <1>2 DEF IInv, PhaseFits
  <2>2. <<"run", w>> \notin Waiting(pool')
    BY <1>8 DEF Alive
  <2> QED
    BY <2>1, <2>2 DEF PhaseFits, Running
<1> QED
  BY <1>1, <1>2, <1>3, <1>4, <1>7, <1>8, <1>9, <1>10, OneLogin

-----------------------------------------------------------------------------
(***************************************************************************)
(* The steps of a login.                                                   *)
(***************************************************************************)
\* The tasks of a caller that is in step s of its login.
LEMMA OwnTasks ==
  ASSUME IInv, NEW x \in Alive(pool)
  PROVE  /\ x \in Tasks /\ x = <<x[1], x[2]>> /\ Needed(x)
         /\ step[x[2]] \in {"primary", "returned"} => x[1] = "watch"
         /\ phase[x[2]] \in {"waiting", "finished"} => x[1] \in {"watch", step[x[2]]}
         /\ phase[x[2]] # "polled" => x[1] # "poll"
<1>1. x \in Tasks /\ Needed(x)
  BY DEF IInv, NoTaskIsLeft, PoolInv, Alive, Waiting
<1> QED
  BY <1>1, KindTyped DEF Tasks, Needed, Running

LEMMA PrimaryAnsweredKeeps ==
  ASSUME IInv, NEW l \in Logins, PrimaryAnswered(l)
  PROVE  IInv'
<1> DEFINE t == <<"token", l>>
<1>1. /\ step[l] = "primary" /\ step' = [step EXCEPT ![l] = "token"]
      /\ phase' = [phase EXCEPT ![l] = "waiting"]
      /\ pool' = Start(pool, t) /\ UNCHANGED << token, approved, cacheValid >>
  BY DEF PrimaryAnswered
<1>2. t \in Tasks /\ t[1] = "token" /\ t[2] = l
  BY StepTyped DEF Tasks
<1>3. /\ step' \in [Logins -> Steps] /\ step'[l] = "token"
      /\ phase' \in [Logins -> Phases] /\ phase'[l] = "waiting"
      /\ \A k \in Logins \ {l} : step'[k] = step[k] /\ phase'[k] = phase[k]
  BY <1>1, StepTyped DEF IInv, OtherTypes, Phases
<1>4. OtherTypes'
  BY <1>1, <1>3 DEF IInv, OtherTypes
<1>5. \A x \in Alive(pool) : x[2] = l => x[1] = "watch" /\ Needed(x)
  BY <1>1, OwnTasks
<1> HIDE DEF t
<1>6. t \notin Alive(pool)
  BY <1>2, <1>5
<1>7. /\ PoolInv(pool') /\ Alive(pool') = Alive(pool) \cup {t}
      /\ pool.active \subseteq pool'.active /\ Waiting(pool') \subseteq Waiting(pool) \cup {t}
      /\ \A x \in pool.active : x[2] # l => x \in pool'.active
      /\ \A x \in Waiting(pool') : x[2] # l => x \in Waiting(pool)
      /\ \A x \in pool'.active : x[2] # l => x \in Alive(pool)
  BY <1>1, <1>2, <1>6, StartFrame DEF IInv
<1>8. \A x \in Alive(pool') : x[2] = l => Needed(x)'
  <2> SUFFICES ASSUME NEW x \in Alive(pool'), x[2] = l PROVE Needed(x)'
    OBVIOUS
  <2>1. CASE x = t
    BY <1>2, <1>3, <2>1, KindTyped DEF Needed
  <2>2. CASE x \in Alive(pool)
    BY <1>3, <1>5, <2>2, KindTyped DEF Needed
  <2> QED
    BY <1>7, <2>1, <2>2
<1>9. HoldsThreads(l)'
  <2>1. l \in Watches => HasThread("watch", l)
    BY <1>1 DEF IInv, HoldsThreads
  <2> QED
    BY <1>3, <1>7, <2>1 DEF HoldsThreads, HasThread
<1>10. PhaseFits(l)'
  <2>1. <<"run", l>> \notin Waiting(pool')
    BY <1>2, <1>5, <1>7 DEF Alive
  <2> QED
    BY <1>3, <2>1 DEF PhaseFits, Running
<1> QED
  BY <1>3, <1>4, <1>7, <1>8, <1>9, <1>10, OneLogin

\* What does not depend on the pool when caller l only goes on in its step.
LEMMA PhaseGoes ==
  ASSUME IInv, NEW l \in Logins, NEW ph \in Phases, Goes(l, ph), step' = step,
         token' \in [Logins -> BOOLEAN], approved' \subseteq Logins, cacheValid' = cacheValid
  PROVE  /\ OtherTypes' /\ phase'[l] = ph /\ step'[l] = step[l]
         /\ \A k \in Logins \ {l} : step'[k] = step[k] /\ phase'[k] = phase[k]
BY DEF IInv, OtherTypes, Goes

LEMMA StartRunKeeps ==
  ASSUME IInv, NEW l \in Logins, StartRun(l)
  PROVE  IInv'
<1> DEFINE t == <<"run", l>>
<1>1. PICK s \in {"token", "asserts"} : step[l] = s /\ phase[l] = "waiting" /\ HasThread(s, l)
  BY DEF StartRun, At
<1>2. pool' = Start(pool, t) /\ Goes(l, "submitted") /\ UNCHANGED << step, token, approved, cacheValid >>
  BY DEF StartRun
<1>3. t \in Tasks /\ t[1] = "run" /\ t[2] = l
  BY StepTyped DEF Tasks
<1>4. /\ OtherTypes' /\ phase'[l] = "submitted" /\ step'[l] = s
      /\ \A k \in Logins \ {l} : step'[k] = step[k] /\ phase'[k] = phase[k]
  BY <1>1, <1>2, PhaseGoes DEF Phases, IInv, OtherTypes
<1>5. \A x \in Alive(pool) : x[2] = l => x[1] \in {"watch", s} /\ Needed(x)
  BY <1>1, OwnTasks
<1> HIDE DEF t
<1>6. t \notin Alive(pool)
  BY <1>3, <1>5
<1>7. /\ PoolInv(pool') /\ Alive(pool') = Alive(pool) \cup {t}
      /\ pool.active \subseteq pool'.active /\ Waiting(pool') \subseteq Waiting(pool) \cup {t}
      /\ \A x \in pool.active : x[2] # l => x \in pool'.active
      /\ \A x \in Waiting(pool') : x[2] # l => x \in Waiting(pool)
      /\ \A x \in pool'.active : x[2] # l => x \in Alive(pool)
  BY <1>2, <1>3, <1>6, StartFrame DEF IInv
<1>8. \A x \in Alive(pool') : x[2] = l => Needed(x)'
  <2> SUFFICES ASSUME NEW x \in Alive(pool'), x[2] = l PROVE Needed(x)'
    OBVIOUS
  <2>1. CASE x = t
    BY <1>3, <1>4, <2>1 DEF Needed, Running
  <2>2. CASE x \in Alive(pool)
    BY <1>1, <1>4, <1>5, <2>2, KindTyped DEF Needed, Running
  <2> QED
    BY <1>7, <2>1, <2>2
<1>9. HoldsThreads(l)'
  BY <1>1, <1>4, <1>7, KindTyped DEF IInv, HoldsThreads, HasThread
<1>10. PhaseFits(l)'
  BY <1>4 DEF PhaseFits, Running
<1> QED
  BY <1>4, <1>7, <1>8, <1>9, <1>10, OneLogin

LEMMA RunBeginsKeeps ==
  ASSUME IInv, NEW l \in Logins, RunBegins(l)
  PROVE  IInv'
<1> DEFINE t == <<"run", l>>
<1>1. /\ phase[l] = "submitted" /\ step[l] \in {"token", "asserts"}
      /\ pool' = Dequeue(pool, t) /\ Goes(l, "requested")
      /\ UNCHANGED << step, token, approved, cacheValid >>
  BY DEF RunBegins, IInv, PhaseFits, Running
<1>2. t[1] = "run" /\ t[2] = l
  OBVIOUS
<1>3. /\ OtherTypes' /\ phase'[l] = "requested" /\ step'[l] = step[l]
      /\ \A k \in Logins \ {l} : step'[k] = step[k] /\ phase'[k] = phase[k]
  BY <1>1, PhaseGoes DEF Phases, IInv, OtherTypes
<1>4. \A x \in Alive(pool) : x[2] = l => x[1] # "poll" /\ Needed(x)
  BY <1>1, OwnTasks
<1>5. /\ PoolInv(pool') /\ pool'.active = pool.active /\ Waiting(pool') = Waiting(pool) \ {t}
      /\ Alive(pool') \subseteq Alive(pool)
      /\ \A x \in pool.active : x[2] # l => x \in pool'.active
      /\ \A x \in Waiting(pool') : x[2] # l => x \in Waiting(pool)
      /\ \A x \in pool'.active : x[2] # l => x \in Alive(pool)
  BY <1>1, <1>2, DequeueFrame DEF IInv
<1>6. \A x \in Alive(pool') : x[2] = l => Needed(x)'
  <2> SUFFICES ASSUME NEW x \in Alive(pool'), x[2] = l PROVE Needed(x)'
    OBVIOUS
  <2>1. Needed(x) /\ x[1] # "poll"
    BY <1>4, <1>5
  <2> QED
    BY <1>1, <1>3, <2>1 DEF Needed, Running
<1>7. HoldsThreads(l)'
  BY <1>1, <1>3, <1>5 DEF IInv, HoldsThreads, HasThread
<1>8. PhaseFits(l)'
  BY <1>1, <1>3, <1>5 DEF PhaseFits, Running
<1> QED
  BY <1>3, <1>5, <1>6, <1>7, <1>8, OneLogin

LEMMA FactorAnsweredKeeps ==
  ASSUME IInv, NEW l \in Logins, FactorAnswered(l)
  PROVE  IInv'
<1> DEFINE t == <<"poll", l>>
<1>1. /\ phase[l] = "requested" /\ step[l] = "token"
      /\ pool' = Start(pool, t) /\ Goes(l, "polled")
      /\ UNCHANGED << step, token, approved, cacheValid >>
  BY DEF FactorAnswered, At
<1>2. t \in Tasks /\ t[1] = "poll" /\ t[2] = l
  BY StepTyped DEF Tasks
<1>3. /\ OtherTypes' /\ phase'[l] = "polled" /\ step'[l] = "token"
      /\ \A k \in Logins \ {l} : step'[k] = step[k] /\ phase'[k] = phase[k]
  BY <1>1, PhaseGoes DEF Phases, IInv, OtherTypes
<1>4. \A x \in Alive(pool) : x[2] = l => x[1] # "poll" /\ Needed(x)
  BY <1>1, OwnTasks
<1> HIDE DEF t
<1>5. t \notin Alive(pool)
  BY <1>2, <1>4
<1>6. /\ PoolInv(pool') /\ Alive(pool') = Alive(pool) \cup {t}
      /\ pool.active \subseteq pool'.active /\ Waiting(pool') \subseteq Waiting(pool) \cup {t}
      /\ \A x \in pool.active : x[2] # l => x \in pool'.active
      /\ \A x \in Waiting(pool') : x[2] # l => x \in Waiting(pool)
      /\ \A x \in pool'.active : x[2] # l => x \in Alive(pool)
  BY <1>1, <1>2, <1>5, StartFrame DEF IInv
<1>7. \A x \in Alive(pool') : x[2] = l => Needed(x)'
  <2> SUFFICES ASSUME NEW x \in Alive(pool'), x[2] = l PROVE Needed(x)'
    OBVIOUS
  <2>1. CASE x = t
    BY <1>2, <1>3, <2>1 DEF Needed
  <2>2. CASE x \in Alive(pool)
    BY <1>1, <1>3, <1>4, <2>2 DEF Needed, Running
  <2> QED
    BY <1>6, <2>1, <2>2
<1>8. HoldsThreads(l)'
  BY <1>1, <1>3, <1>6 DEF IInv, HoldsThreads, HasThread
<1>9. PhaseFits(l)'
  <2>1. <<"run", l>> \notin Waiting(pool)
    BY <1>1 DEF IInv, PhaseFits
  <2>2. <<"run", l>> \notin Waiting(pool')
    BY <1>2, <1>6, <2>1
  <2> QED
    BY <1>3, <2>2 DEF PhaseFits, Running
<1> QED
  BY <1>3, <1>6, <1>7, <1>8, <1>9, OneLogin

LEMMA PollKeeps ==
  ASSUME IInv, NEW l \in Logins, Poll(l)
  PROVE  IInv'
<1> DEFINE t == <<"poll", l>>
<1>1. /\ phase[l] = "polled" /\ step[l] = "token" /\ t \in pool.active
      /\ pool' = Finish(pool, t) /\ UNCHANGED << step, cacheValid >>
  BY DEF Poll, HasThread, IInv, PhaseFits
<1>2. t[1] = "poll" /\ t[2] = l
  OBVIOUS
<1>3. PICK hasToken \in BOOLEAN :
        /\ token' = [token EXCEPT ![l] = hasToken]
        /\ approved' = IF hasToken THEN approved \cup {l} ELSE approved
        /\ Goes(l, IF PollAgain(hasToken) THEN "requested" ELSE "ran")
  BY DEF Poll
<1>4. PICK ph \in {"requested", "ran"} : Goes(l, ph)
  BY <1>3
<1>5. token' \in [Logins -> BOOLEAN] /\ approved' \subseteq Logins
  BY <1>3 DEF IInv, OtherTypes
<1>6. /\ OtherTypes' /\ phase'[l] = ph /\ step'[l] = "token"
      /\ \A k \in Logins \ {l} : step'[k] = step[k] /\ phase'[k] = phase[k]
  BY <1>1, <1>4, <1>5, PhaseGoes DEF Phases
<1>7. \A x \in Alive(pool) : x[2] = l => Needed(x) /\ (x[1] = "poll" => x = t)
  BY OwnTasks
<1> HIDE DEF t
<1>8. /\ PoolInv(pool') /\ Alive(pool') = Alive(pool) \ {t}
      /\ pool.active \ {t} \subseteq pool'.active /\ Waiting(pool') \subseteq Waiting(pool)
      /\ \A x \in pool.active : x[2] # l => x \in pool'.active
      /\ \A x \in Waiting(pool') : x[2] # l => x \in Waiting(pool)
      /\ \A x \in pool'.active : x[2] # l => x \in Alive(pool)
  BY <1>1, <1>2, FinishFrame DEF IInv
<1>9. \A x \in Alive(pool') : x[2] = l => Needed(x)'
  <2> SUFFICES ASSUME NEW x \in Alive(pool'), x[2] = l PROVE Needed(x)'
    OBVIOUS
  <2>1. Needed(x) /\ x[1] # "poll"
    BY <1>7, <1>8
  <2> QED
    BY <1>1, <1>6, <2>1 DEF Needed, Running
<1>10. HoldsThreads(l)'
  <2>1. <<"watch", l>> # t /\ <<"token", l>> # t
    BY <1>2
  <2> QED
    BY <1>1, <1>6, <1>8, <2>1, KindTyped DEF IInv, HoldsThreads, HasThread
<1>11. PhaseFits(l)'
  BY <1>1, <1>6, <1>8 DEF IInv, PhaseFits, Running
<1> QED
  BY <1>6, <1>8, <1>9, <1>10, <1>11, OneLogin

LEMMA PageArrivesKeeps ==
  ASSUME IInv, NEW l \in Logins, PageArrives(l)
  PROVE  IInv'
<1>1. /\ phase[l] = "requested" /\ step[l] = "asserts" /\ Goes(l, "ran")
      /\ UNCHANGED << pool, step, token, approved, cacheValid >>
  BY DEF PageArrives, At
<1>2. /\ OtherTypes' /\ phase'[l] = "ran" /\ step'[l] = "asserts"
      /\ \A k \in Logins \ {l} : step'[k] = step[k] /\ phase'[k] = phase[k]
  BY <1>1, PhaseGoes DEF Phases, IInv, OtherTypes
<1>3. \A x \in Alive(pool) : x[2] = l => Needed(x)'
  <2> SUFFICES ASSUME NEW x \in Alive(pool), x[2] = l PROVE Needed(x)'
    OBVIOUS
  <2>1. Needed(x)
    BY OwnTasks
  <2> QED
    BY <1>1, <1>2, <2>1 DEF Needed, Running
<1>4. HoldsThreads(l)' /\ PhaseFits(l)'
  BY <1>1, <1>2 DEF IInv, HoldsThreads, PhaseFits, HasThread, Running
<1> QED
  BY <1>1, <1>2, <1>3, <1>4, SamePool

LEMMA RunEndsKeeps ==
  ASSUME IInv, NEW l \in Logins, RunEnds(l)
  PROVE  IInv'
<1> DEFINE t == <<"run", l>>
<1>1. /\ phase[l] = "ran" /\ step[l] \in {"token", "asserts"} /\ Goes(l, "finished")
      /\ UNCHANGED << step, token, approved, cacheValid >>
  BY DEF RunEnds, IInv, PhaseFits, Running
<1>2. t[1] = "run" /\ t[2] = l
  OBVIOUS
<1>3. /\ OtherTypes' /\ phase'[l] = "finished" /\ step'[l] = step[l]
      /\ \A k \in Logins \ {l} : step'[k] = step[k] /\ phase'[k] = phase[k]
  BY <1>1, PhaseGoes DEF Phases, IInv, OtherTypes
<1>4. \A x \in Alive(pool) : x[2] = l => /\ Needed(x) /\ x[1] # "poll"
                                         /\ x[1] = "run" => x = t
  BY <1>1, OwnTasks
<1>5. t \notin Waiting(pool)
  BY <1>1 DEF IInv, PhaseFits
<1> HIDE DEF t
<1>6. /\ PoolInv(pool') /\ Alive(pool') = Alive(pool) \ {t}
      /\ pool.active \ {t} \subseteq pool'.active /\ Waiting(pool') \subseteq Waiting(pool)
      /\ \A x \in pool.active : x[2] # l => x \in pool'.active
      /\ \A x \in Waiting(pool') : x[2] # l => x \in Waiting(pool)
      /\ \A x \in pool'.active : x[2] # l => x \in Alive(pool)
  <2>1. CASE t \in pool.active
    <3>1. pool' = Finish(pool, t)
      BY <2>1 DEF RunEnds, HasThread, t
    <3> QED
      BY <1>2, <2>1, <3>1, FinishFrame DEF IInv
  <2>2. CASE t \notin pool.active
    <3>1. pool' = pool
      BY <2>2 DEF RunEnds, HasThread, t
    <3> QED
      BY <1>5, <2>2, <3>1 DEF IInv, Alive
  <2> QED
    BY <2>1, <2>2
<1>7. \A x \in Alive(pool') : x[2] = l => Needed(x)'
  <2> SUFFICES ASSUME NEW x \in Alive(pool'), x[2] = l PROVE Needed(x)'
    OBVIOUS
  <2>1. Needed(x) /\ x[1] \notin {"poll", "run"}
    BY <1>4, <1>6
  <2> QED
    BY <1>3, <2>1 DEF Needed
<1>8. HoldsThreads(l)'
  <2>1. <<"watch", l>> # t /\ <<step[l], l>> # t
    BY <1>1, <1>2
  <2> QED
    BY <1>1, <1>3, <1>6, <2>1 DEF IInv, HoldsThreads, HasThread
<1>9. PhaseFits(l)'
  <2>1. <<"run", l>> \notin Waiting(pool')
    BY <1>5, <1>6 DEF t
  <2> QED
    BY <1>3, <2>1 DEF PhaseFits, Running
<1> QED
  BY <1>3, <1>6, <1>7, <1>8, <1>9, OneLogin

LEMMA SingleAnswerKeeps ==
  ASSUME IInv, NEW l \in Logins, SingleAnswer(l)
  PROVE  IInv'
<1>1. PICK s \in {"cookie", "assume"} : step[l] = s /\ phase[l] = "waiting" /\ HasThread(s, l)
  BY DEF SingleAnswer, At
<1>2. Goes(l, "finished") /\ UNCHANGED << pool, step, token, approved, cacheValid >>
  BY DEF SingleAnswer
<1>3. /\ OtherTypes' /\ phase'[l] = "finished" /\ step'[l] = s
      /\ \A k \in Logins \ {l} : step'[k] = step[k] /\ phase'[k] = phase[k]
  BY <1>1, <1>2, PhaseGoes DEF Phases, IInv, OtherTypes
<1>4. \A x \in Alive(pool) : x[2] = l => Needed(x)'
  <2> SUFFICES ASSUME NEW x \in Alive(pool), x[2] = l PROVE Needed(x)'
    OBVIOUS
  <2>1. Needed(x)
    BY OwnTasks
  <2> QED
    BY <1>1, <1>3, <2>1 DEF Needed, Running
<1>5. HoldsThreads(l)' /\ PhaseFits(l)'
  BY <1>1, <1>2, <1>3 DEF IInv, HoldsThreads, PhaseFits, HasThread, Running
<1> QED
  BY <1>2, <1>3, <1>4, <1>5, SamePool

LEMMA HandOverKeeps ==
  ASSUME IInv, NEW l \in Logins, NEW i \in 1 .. 3, HandOver(l, i)
  PROVE  IInv'
<1> DEFINE s == Chain[i]
           n == Chain[i + 1]
           t == <<s, l>>
           u == <<n, l>>
           p == Start(pool, u)
<1>1. /\ s \in {"token", "cookie", "asserts"} /\ n \in {"cookie", "asserts", "assume"} /\ s # n
  BY KindTyped
<1>2. /\ step[l] = s /\ phase[l] = "finished"
      /\ step' = [step EXCEPT ![l] = n] /\ Goes(l, "waiting")
      /\ pool' = Finish(p, t) /\ UNCHANGED << token, approved, cacheValid >>
  BY DEF HandOver, At
<1>3. t[1] = s /\ t[2] = l /\ u[1] = n /\ u[2] = l /\ t # u
  BY <1>1
<1> HIDE DEF s, n
<1>4. u \in Tasks
  BY <1>1, StepTyped DEF Tasks
<1>5. /\ step' \in [Logins -> Steps] /\ step'[l] = n
      /\ phase' \in [Logins -> Phases] /\ phase'[l] = "waiting"
      /\ \A k \in Logins \ {l} : step'[k] = step[k] /\ phase'[k] = phase[k]
  BY <1>1, <1>2, StepTyped DEF IInv, OtherTypes, Phases, Goes
<1>6. OtherTypes'
  BY <1>2, <1>5 DEF IInv, OtherTypes
<1>7. \A x \in Alive(pool) : x[2] = l => /\ Needed(x) /\ x[1] \in {"watch", s}
                                         /\ x[1] = s => x = t
  BY <1>2, OwnTasks
<1>8. u \notin Alive(pool)
  BY <1>1, <1>3, <1>7
<1>9. t \in pool.active
  BY <1>1, <1>2, KindTyped DEF IInv, HoldsThreads, HasThread
<1> HIDE DEF t, u
<1>10. /\ PoolInv(p) /\ Alive(p) = Alive(pool) \cup {u}
       /\ pool.active \subseteq p.active /\ Waiting(p) \subseteq Waiting(pool) \cup {u}
       /\ \A x \in pool.active : x[2] # l => x \in p.active
       /\ \A x \in Waiting(p) : x[2] # l => x \in Waiting(pool)
       /\ \A x \in p.active : x[2] # l => x \in Alive(pool)
  BY <1>3, <1>4, <1>8, StartFrame DEF IInv
<1> HIDE DEF p
<1>11. /\ PoolInv(pool') /\ Alive(pool') = Alive(p) \ {t}
       /\ p.active \ {t} \subseteq pool'.active /\ Waiting(pool') \subseteq Waiting(p)
       /\ \A x \in p.active : x[2] # l => x \in pool'.active
       /\ \A x \in Waiting(pool') : x[2] # l => x \in Waiting(p)
       /\ \A x \in pool'.active : x[2] # l => x \in Alive(p)
  <2>1. t \in p.active
    BY <1>9, <1>10
  <2> QED
    BY <1>2, <1>3, <1>10, <2>1, FinishFrame
<1>12. /\ \A x \in pool.active : x[2] # l => x \in pool'.active
       /\ \A x \in Waiting(pool') : x[2] # l => x \in Waiting(pool)
       /\ \A x \in pool'.active : x[2] # l => x \in Alive(pool)
  BY <1>3, <1>10, <1>11
<1>13. \A x \in Alive(pool') : x[2] = l => Needed(x)'
  <2> SUFFICES ASSUME NEW x \in Alive(pool'), x[2] = l PROVE Needed(x)'
    OBVIOUS
  <2>1. CASE x = u
    BY <1>1, <1>3, <1>5, <2>1, KindTyped DEF Needed
  <2>2. CASE x \in Alive(pool)
    <3>1. x[1] = "watch" /\ Needed(x)
      BY <1>7, <1>11, <2>2
    <3> QED
      BY <1>1, <1>5, <3>1, KindTyped DEF Needed
  <2> QED
    BY <1>10, <1>11, <2>1, <2>2
<1>14. HoldsThreads(l)'
  <2>1. l \in Watches => <<"watch", l>> \in pool.active
    BY <1>1, <1>2, KindTyped DEF IInv, HoldsThreads, HasThread
  <2>2. <<"watch", l>> # t
    BY <1>1, <1>3
  <2>3. l \in Watches => HasThread("watch", l)'
    BY <1>10, <1>11, <2>1, <2>2 DEF HasThread
  <2> QED
    BY <1>5, <2>3 DEF HoldsThreads
<1>15. PhaseFits(l)'
  <2>1. <<"run", l>> \notin Waiting(pool')
    <3>1. <<"run", l>> \notin Alive(pool) \cup {u}
      BY <1>1, <1>3, <1>7
    <3> QED
      BY <1>10, <1>11, <3>1 DEF Alive
  <2> QED
    BY <1>5, <2>1 DEF PhaseFits, Running
<1> QED
  BY <1>5, <1>6, <1>11, <1>12, <1>13, <1>14, <1>15, OneLogin

LEMMA ChainEndsKeeps ==
  ASSUME IInv, NEW l \in Logins, ChainEnds(l)
  PROVE  IInv'
<1> DEFINE t == <<"assume", l>>
<1>1. /\ step[l] = "assume" /\ phase[l] = "finished"
      /\ step' = [step EXCEPT ![l] = "returned"]
      /\ pool' = Finish(pool, t) /\ UNCHANGED << phase, token, approved, cacheValid >>
  BY DEF ChainEnds, At
<1>2. t[1] = "assume" /\ t[2] = l
  OBVIOUS
<1>3. /\ step' \in [Logins -> Steps] /\ step'[l] = "returned"
      /\ \A k \in Logins \ {l} : step'[k] = step[k]
  BY <1>1, StepTyped DEF IInv, OtherTypes
<1>4. OtherTypes'
  BY <1>1, <1>3 DEF IInv, OtherTypes
<1>5. \A x \in Alive(pool) : x[2] = l => /\ Needed(x) /\ x[1] \in {"watch", "assume"}
                                         /\ x[1] = "assume" => x = t
  BY <1>1, OwnTasks
<1>6. t \in pool.active
  BY <1>1, KindTyped DEF IInv, HoldsThreads, HasThread
<1> HIDE DEF t
<1>7. /\ PoolInv(pool') /\ Alive(pool') = Alive(pool) \ {t}
      /\ pool.active \ {t} \subseteq pool'.active /\ Waiting(pool') \subseteq Waiting(pool)
      /\ \A x \in pool.active : x[2] # l => x \in pool'.active
      /\ \A x \in Waiting(pool') : x[2] # l => x \in Waiting(pool)
      /\ \A x \in pool'.active : x[2] # l => x \in Alive(pool)
  BY <1>1, <1>2, <1>6, FinishFrame DEF IInv
<1>8. \A x \in Alive(pool') : x[2] = l => x[1] = "watch" /\ Needed(x)'
  <2> SUFFICES ASSUME NEW x \in Alive(pool'), x[2] = l PROVE x[1] = "watch" /\ Needed(x)'
    OBVIOUS
  <2>1. Needed(x) /\ x[1] = "watch"
    BY <1>5, <1>7
  <2> QED
    BY <1>3, <2>1, KindTyped DEF Needed
<1>9. HoldsThreads(l)'
  <2>1. l \in Watches => <<"watch", l>> \in pool.active
    BY <1>1, KindTyped DEF IInv, HoldsThreads, HasThread
  <2>2. <<"watch", l>> # t
    BY <1>2
  <2> QED
    BY <1>3, <1>7, <2>1, <2>2, KindTyped DEF HoldsThreads, HasThread
<1>10. PhaseFits(l)'
  <2>1. <<"run", l>> \notin Waiting(pool')
    BY <1>8 DEF Alive
  <2> QED
    BY <1>1, <2>1 DEF PhaseFits, Running
<1> QED
  BY <1>1, <1>3, <1>4, <1>7, <1>8, <1>9, <1>10, OneLogin

LEMMA OktaReturnsKeeps ==
  ASSUME IInv, NEW l \in Logins, OktaReturns(l)
  PROVE  IInv'
<1>1. /\ step[l] = "returned"
      /\ step' = [step EXCEPT ![l] = IF l = Gui THEN "none" ELSE "watching"]
      /\ cacheValid' \in BOOLEAN /\ UNCHANGED << pool, phase, token, approved >>
  BY DEF OktaReturns, IInv, OtherTypes
<1>2. /\ step' \in [Logins -> Steps] /\ step'[l] \in {"none", "watching"}
      /\ l # Gui => step'[l] = "watching"
      /\ \A k \in Logins \ {l} : step'[k] = step[k]
  BY <1>1, StepTyped DEF IInv, OtherTypes
<1>3. OtherTypes'
  BY <1>1, <1>2 DEF IInv, OtherTypes
<1>4. \A x \in Alive(pool) : x[2] = l => Needed(x)'
  <2> SUFFICES ASSUME NEW x \in Alive(pool), x[2] = l PROVE Needed(x)'
    OBVIOUS
  <2>1. x[1] = "watch" /\ l \in Watches
    BY <1>1, OwnTasks, KindTyped DEF Needed
  <2> QED
    BY <1>2, <2>1, GuiAssumption DEF Needed
<1>5. HoldsThreads(l)'
  BY <1>1, <1>2, KindTyped DEF IInv, HoldsThreads, HasThread
<1>6. PhaseFits(l)'
  BY <1>1 DEF IInv, PhaseFits, Running
<1> QED
  BY <1>1, <1>2, <1>3, <1>4, <1>5, <1>6, SamePool

-----------------------------------------------------------------------------
(***************************************************************************)
(* The invariant, and what follows from it.                                *)
(***************************************************************************)
LEMMA InitIInv == Init => IInv
<1> SUFFICES ASSUME Init PROVE IInv
  OBVIOUS
<1> USE DEF Init
<1>1. OtherTypes
  BY StepTyped DEF OtherTypes, Phases
<1>2. /\ pool.active = {} /\ pool.queue = << >>
      /\ pool \in [active : SUBSET Tasks, queue : Seq(Tasks)]
  OBVIOUS
<1>3. Waiting(pool) = {} /\ Alive(pool) = {}
  BY <1>2 DEF Waiting, Alive
<1>4. PoolInv(pool)
  BY <1>2, <1>3, FS_EmptySet, ThreadsAssumption DEF PoolInv
<1>5. \A l \in Logins : HoldsThreads(l) /\ PhaseFits(l)
  BY <1>3, KindTyped DEF HoldsThreads, PhaseFits, Running
<1> QED
  BY <1>1, <1>3, <1>4, <1>5 DEF IInv, NoTaskIsLeft

LEMMA StutterKeeps ==
  ASSUME IInv, CacheExpires \/ UNCHANGED vars
  PROVE  IInv'
<1>1. UNCHANGED << pool, step, phase, token, approved >> /\ cacheValid' \in BOOLEAN
  BY DEF CacheExpires, vars, IInv, OtherTypes
<1> QED
  BY <1>1 DEF IInv, OtherTypes, NoTaskIsLeft, Needed, Running, HoldsThreads, PhaseFits, HasThread

LEMMA NextIInv == IInv /\ [Next]_vars => IInv'
<1> SUFFICES ASSUME IInv, [Next]_vars PROVE IInv'
  OBVIOUS
<1>1. CASE GuiLogin
  BY <1>1, GuiLoginKeeps
<1>2. ASSUME NEW w \in Watches, WatchPods(w) \/ StopWatch(w) \/ WatchBegins(w) \/ WatchEnds(w)
      PROVE  IInv'
  BY <1>2, WatchPodsKeeps, StopWatchKeeps, WatchBeginsKeeps, WatchEndsKeeps
<1>3. ASSUME NEW l \in Logins, LoginStep(l) PROVE IInv'
  BY <1>3, PrimaryAnsweredKeeps, StartRunKeeps, RunBeginsKeeps, FactorAnsweredKeeps, PollKeeps,
     PageArrivesKeeps, RunEndsKeeps, SingleAnswerKeeps, HandOverKeeps, ChainEndsKeeps,
     OktaReturnsKeeps DEF LoginStep
<1>4. CASE CacheExpires \/ UNCHANGED vars
  BY <1>4, StutterKeeps
<1> QED
  BY <1>1, <1>2, <1>3, <1>4 DEF Next

\* The invariant holds of every session, however many threads there are.
THEOREM Invariance == Spec => []IInv
BY InitIInv, NextIInv, PTL DEF Spec

\* The pool never hands out more threads than it has.
THEOREM TypeCorrect == Spec => []TypeOK
<1>1. IInv => TypeOK
  BY DEF IInv, OtherTypes, PoolInv, TypeOK
<1> QED
  BY <1>1, Invariance, PTL

\* A login holds no thread but those of its current step, so a pool serves any
\* number of logins one after the other.
THEOREM ThreadsAreReleased == Spec => []LoginsReleaseThreads
<1>1. IInv => LoginsReleaseThreads
  <2> SUFFICES ASSUME IInv, NEW l \in Logins, NEW t \in pool.active, t[2] = l, t[1] # "watch"
               PROVE  /\ t[1] \in {step[l], "run", "poll"}
                      /\ t[1] = "run" => step[l] \in {"token", "asserts"}
                      /\ t[1] = "poll" => step[l] = "token"
    BY DEF LoginsReleaseThreads
  <2>1. Needed(t)
    BY ActivesLive, OwnTasks
  <2> QED
    BY <2>1, KindTyped DEF Needed
<1> QED
  BY <1>1, Invariance, PTL

\* A task that is needed and belongs to no watch is one of a login in progress.
LEMMA NeededByLogin ==
  ASSUME IInv, NEW t \in pool.active, t[1] # "watch"
  PROVE  t[2] \in Logins /\ LoggingIn(t[2])
<1>1. Needed(t) /\ t \in Tasks
  BY ActivesLive, OwnTasks
<1> QED
  BY <1>1, KindTyped DEF Needed, LoggingIn, Resting, Tasks

\* A login that waits for the thread of its next step holds none.
LEMMA WaitingHoldsNone ==
  ASSUME IInv, NEW l \in Logins, NeedsThread(l), ~Waits("poll", l),
         NEW t \in pool.active, t[2] = l
  PROVE  t[1] = "watch"
<1>1. PICK i \in DOMAIN Chain : step[l] = Chain[i] /\ phase[l] = "waiting" /\ Waits(Chain[i], l)
  BY DEF NeedsThread, At
<1>2. t \in Alive(pool) /\ t = <<t[1], l>> /\ t[1] \in {"watch", step[l]}
  BY <1>1, ActivesLive, OwnTasks
<1>3. <<step[l], l>> \in Waiting(pool)
  BY <1>1 DEF Waits, Queued, Waiting
<1>4. <<step[l], l>> \notin pool.active
  BY <1>3 DEF IInv, PoolInv
<1> QED
  BY <1>2, <1>4

\* Logins that wait for each other do so over a `poll', or watches hold every
\* thread of the pool.
THEOREM OnlyPollsCanFreeze == Spec => []OnlyPollsFreeze
<1>1. IInv => OnlyPollsFreeze
  <2> SUFFICES ASSUME IInv, Frozen, \A l \in Logins : ~Waits("poll", l),
                      NEW t \in pool.active, t[1] # "watch"
               PROVE  FALSE
    BY DEF OnlyPollsFreeze
  <2>1. t[2] \in Logins /\ LoggingIn(t[2])
    BY NeededByLogin
  <2>2. NeedsThread(t[2])
    BY <2>1 DEF Frozen
  <2> QED
    BY <2>1, <2>2, WaitingHoldsNone
<1> QED
  BY <1>1, Invariance, PTL

\* With three threads or more the GUI thread's login is never frozen while no
\* watch holds a thread.
THEOREM GuiAloneCannotFreeze ==
  ASSUME Threads >= 3
  PROVE  Spec => []GuiAloneNeverFreezes
<1>1. IInv => GuiAloneNeverFreezes
  <2> SUFFICES ASSUME IInv, Frozen, \A w \in Watches : ~HasThread("watch", w) PROVE FALSE
    BY DEF GuiAloneNeverFreezes
  <2>1. \A w \in Watches : ~LoggingIn(w)
    <3> SUFFICES ASSUME NEW w \in Watches, LoggingIn(w) PROVE FALSE
      OBVIOUS
    <3>1. w \in Logins /\ step[w] \in Steps /\ HoldsThreads(w)
      BY DEF Logins, IInv, OtherTypes
    <3> QED
      BY <3>1, StepTyped, KindTyped DEF LoggingIn, Resting, HoldsThreads
  <2>2. Gui \in Logins /\ NeedsThread(Gui)
    BY <2>1, StepTyped DEF Frozen
  <2>3. \A t \in pool.active : t[1] # "watch" /\ t[2] = Gui
    <3> SUFFICES ASSUME NEW t \in pool.active PROVE t[1] # "watch" /\ t[2] = Gui
      OBVIOUS
    <3>1. t \in Tasks /\ t = <<t[1], t[2]>> /\ Needed(t)
      BY ActivesLive, OwnTasks
    <3>2. t[1] # "watch"
      BY <3>1, KindTyped DEF Needed, HasThread
    <3>3. t[2] \in Logins /\ LoggingIn(t[2])
      BY <3>2, NeededByLogin
    <3> QED
      BY <2>1, <3>2, <3>3, StepTyped
  <2>4. pool.queue # << >>
    BY <2>2 DEF NeedsThread, Waits, Queued
  <2>5. Cardinality(pool.active) = Threads
    BY <2>4 DEF IInv, PoolInv
  <2>6. pool.active \subseteq {<<"token", Gui>>, <<"run", Gui>>}
    <3> SUFFICES ASSUME NEW t \in pool.active PROVE t \in {<<"token", Gui>>, <<"run", Gui>>}
      OBVIOUS
    <3>1. t = <<t[1], Gui>> /\ Needed(t) /\ t[1] # "watch"
      BY <2>3, ActivesLive, OwnTasks
    <3>2. Waits("poll", Gui)
      BY <2>2, <2>3, <3>1, WaitingHoldsNone
    <3>3. <<"poll", Gui>> \in Waiting(pool)
      BY <3>2 DEF Waits, Queued, Waiting
    <3>4. Needed(<<"poll", Gui>>) /\ <<"poll", Gui>> \notin pool.active
      BY <3>3, OwnTasks DEF Alive, IInv, PoolInv
    <3>5. step[Gui] = "token"
      BY <3>4, KindTyped DEF Needed
    <3> QED
      BY <2>3, <3>1, <3>4, <3>5 DEF Needed
  <2>7. /\ IsFiniteSet({<<"token", Gui>>, <<"run", Gui>>})
        /\ Cardinality({<<"token", Gui>>, <<"run", Gui>>}) = 2
    <3>1. /\ IsFiniteSet({<<"token", Gui>>}) /\ Cardinality({<<"token", Gui>>}) = 1
      BY FS_Singleton
    <3>2. <<"run", Gui>> \notin {<<"token", Gui>>}
      OBVIOUS
    <3>3. {<<"token", Gui>>, <<"run", Gui>>} = {<<"token", Gui>>} \cup {<<"run", Gui>>}
      OBVIOUS
    <3>4. /\ IsFiniteSet({<<"token", Gui>>} \cup {<<"run", Gui>>})
          /\ Cardinality({<<"token", Gui>>} \cup {<<"run", Gui>>}) = 1 + 1
      <4> DEFINE a == {<<"token", Gui>>}
                 x == <<"run", Gui>>
      <4>1. IsFiniteSet(a) /\ Cardinality(a) = 1 /\ x \notin a
        BY <3>1, <3>2
      <4> HIDE DEF a, x
      <4>2. IsFiniteSet(a \cup {x}) /\ Cardinality(a \cup {x}) = Cardinality(a) + 1
        BY <4>1, FS_AddElement
      <4> QED
        BY <4>1, <4>2 DEF a, x
    <3> QED
      BY <3>3, <3>4
  <2>8. Cardinality(pool.active) <= 2
    BY <2>6, <2>7, FS_Subset
  <2> QED
    BY <2>5, <2>8, ThreadsAssumption
<1> QED
  BY <1>1, Invariance, PTL
=============================================================================
