-------------------------- MODULE OktaSettings_proofs --------------------------
(***************************************************************************)
(* Proofs about OktaSettings, for any number of watches and of logins:     *)
(* wherever logins are interrupted, the cached credentials are those of    *)
(* one login unless two have overlapped, and so are those that oktaAuth    *)
(* returns.                                                                *)
(***************************************************************************)
EXTENDS OktaSettings, TLAPS

(***************************************************************************)
(* The inductive invariant.                                                *)
(***************************************************************************)
\* Whoever is active beside a login knows of it.
OverlapIsRecorded ==
  \A c \in Callers : \A d \in Beside(c) : Active(c) /\ LoggingIn(d) => c \in raced

\* A nested call runs while the GUI thread's login waits for Okta.
InnerIsNested == Active(Inner) => at[Outer] = "login"

\* What an undisturbed call has read is what the settings still hold.
ReadsAreCurrent ==
  \A c \in Callers \ raced : at[c] = "reading" =>
    \A k \in 1 .. 4 : k < field[c] => local[c][Order[k]] = settings[Order[k]]

\* A login writes the values of one answer of STS.
WritesOneAnswer == \A c \in Callers : at[c] = "writing" => Whole(local[c])

\* What an undisturbed login has written is what the settings hold.
WrittenSoFar ==
  \A c \in Callers \ raced : at[c] = "writing" =>
    \A k \in 1 .. 4 : k < field[c] => settings[Order[k]] = local[c][Order[k]]

\* During an undisturbed login nobody takes the settings for valid ...
NotValidMeanwhile ==
  \A c \in Callers \ raced : LoggingIn(c) => doubt \/ Passed(settings["expiration"])

\* ... and the rest of the time they are whole, or their expiration has passed.
WholeOrPassed == doubt \/ Whole(settings) \/ Passed(settings["expiration"])

IInv ==
  /\ TypeOK
  /\ OverlapIsRecorded
  /\ InnerIsNested
  /\ ReadsAreCurrent
  /\ WritesOneAnswer
  /\ WrittenSoFar
  /\ NotValidMeanwhile
  /\ WholeOrPassed

USE LoginsAssumption

\* Who may come between the steps of a call.
LEMMA BesideCallers ==
  /\ Outer \in Callers /\ Inner \in Callers /\ Outer # Inner
  /\ \A c \in Callers : Beside(c) \subseteq Callers \ {c}
  /\ \A c, d \in Callers : c # d => d \in Beside(c) \/ (c = Inner /\ d = Outer)
BY CallersAssumption DEF Callers, Beside

-----------------------------------------------------------------------------
\* The values are read and written in one order, the expiration last.
LEMMA OrderOfKeys ==
  /\ \A k \in 1 .. 4 : Order[k] \in Keys /\ (Order[k] = "expiration" <=> k = 4)
  /\ \A key \in Keys : \E k \in 1 .. 4 : Order[k] = key
  /\ \A j, k \in 1 .. 4 : Order[j] = Order[k] => j = k
BY DEF Order, Keys

\* The same number for every value is a whole set of values.
LEMMA AllOfIsWhole ==
  ASSUME NEW n \in 0 .. MaxLogins
  PROVE  AllOf(n) \in Values /\ Whole(AllOf(n))
BY DEF AllOf, Values, Whole, Keys

\* The settings are whole when the program starts and nobody is active.
LEMMA InitIInv == Init => IInv
<1> SUFFICES ASSUME Init PROVE IInv
  OBVIOUS
<1>1. logins \in 0 .. MaxLogins /\ AllOf(logins) \in Values /\ Whole(AllOf(logins))
  BY AllOfIsWhole DEF Init
<1>2. AllOf(0) \in Values
  BY AllOfIsWhole
<1>3. TypeOK
  <2>1. field \in [Callers -> 1 .. 4] /\ local \in [Callers -> Values]
    BY <1>2 DEF Init
  <2>2. at \in [Callers -> {"idle", "reading", "login", "writing"}]
    BY DEF Init
  <2>3. settings \in Values /\ logins \in 0 .. MaxLogins
    BY <1>1 DEF Init
  <2>4. passed \subseteq 1 .. MaxLogins /\ raced \subseteq Callers /\ doubt \in BOOLEAN
    BY DEF Init
  <2> QED
    BY <2>1, <2>2, <2>3, <2>4 DEF TypeOK
<1>4. \A c \in Callers : at[c] = "idle"
  BY DEF Init
<1>5. /\ OverlapIsRecorded /\ InnerIsNested /\ ReadsAreCurrent /\ WritesOneAnswer
      /\ WrittenSoFar /\ NotValidMeanwhile
  BY <1>4, BesideCallers DEF OverlapIsRecorded, InnerIsNested, ReadsAreCurrent, WritesOneAnswer, WrittenSoFar,
              NotValidMeanwhile, Active, LoggingIn
<1>6. WholeOrPassed
  BY <1>1 DEF Init, WholeOrPassed
<1> QED
  BY <1>3, <1>5, <1>6 DEF IInv

-----------------------------------------------------------------------------
(***************************************************************************)
(* Reading.                                                                *)
(***************************************************************************)
\* What a call has read when it reads its last value are the settings.
LEMMA ReadsTheSettings ==
  ASSUME IInv, NEW c \in Callers \ raced, at[c] = "reading", field[c] = 4
  PROVE  ValuesRead(c) = settings
<1>1. local[c] \in Values /\ settings \in Values
  BY DEF IInv, TypeOK
<1>2. \A key \in Keys : key # "expiration" => local[c][key] = settings[key]
  <2> SUFFICES ASSUME NEW key \in Keys, key # "expiration"
               PROVE  local[c][key] = settings[key]
    OBVIOUS
  <2>1. PICK k \in 1 .. 4 : Order[k] = key
    BY OrderOfKeys
  <2>2. k < field[c]
    BY <2>1, OrderOfKeys
  <2> QED
    BY <2>1, <2>2 DEF IInv, ReadsAreCurrent
<1>3. ValuesRead(c) = [local[c] EXCEPT !["expiration"] = settings["expiration"]]
  BY DEF ValuesRead, Order
<1>4. ValuesRead(c) \in Values /\ \A key \in Keys : ValuesRead(c)[key] = settings[key]
  BY <1>1, <1>2, <1>3 DEF Values, Keys
<1> QED
  BY <1>1, <1>4 DEF Values

\* The GUI thread's login goes on only when the nested call has returned.
LEMMA NestedStaysNested ==
  ASSUME IInv, NEW c \in Callers, Runs(c), Active(c) \/ CanCall(c),
         \A d \in Callers \ {c} : at'[d] = at[d]
  PROVE  InnerIsNested'
<1>1. CASE c = Outer
  BY <1>1, BesideCallers DEF Runs, Active, InnerIsNested
<1>2. CASE c = Inner
  BY <1>2, BesideCallers DEF IInv, InnerIsNested, CanCall
<1>3. CASE c \notin {Inner, Outer}
  BY <1>3, BesideCallers DEF IInv, InnerIsNested, Active
<1> QED
  BY <1>1, <1>2, <1>3

\* A call begins: it is marked if a login is in progress.
LEMMA OktaAuthIInv ==
  ASSUME IInv, NEW c \in Callers, OktaAuth(c)
  PROVE  IInv'
<1> USE DEF IInv, OktaAuth, CanCall
<1>a. at \in [Callers -> {"idle", "reading", "login", "writing"}] /\ field \in [Callers -> 1 .. 4]
  BY DEF TypeOK
<1>1. TypeOK'
  BY DEF TypeOK
<1>2. OverlapIsRecorded'
  <2> SUFFICES ASSUME NEW d \in Callers, NEW e \in Beside(d), Active(d)', LoggingIn(e)'
               PROVE  d \in raced'
    BY DEF OverlapIsRecorded, Beside, Callers
  <2>0. e \in Callers /\ d # e
    BY BesideCallers
  <2>1. e # c /\ LoggingIn(e)
    BY <1>a DEF LoggingIn
  <2>2. CASE d = c
    BY <2>1, <2>2 DEF OthersLoggingIn
  <2>3. CASE d # c
    BY <1>a, <2>1, <2>3 DEF OverlapIsRecorded, Active
  <2> QED
    BY <2>2, <2>3
<1>3. ReadsAreCurrent'
  BY <1>a DEF ReadsAreCurrent
<1>4. WritesOneAnswer' /\ WrittenSoFar'
  BY <1>a DEF WritesOneAnswer, WrittenSoFar
<1>5. NotValidMeanwhile' /\ WholeOrPassed'
  BY <1>a DEF NotValidMeanwhile, WholeOrPassed, LoggingIn, Passed
<1>g. InnerIsNested'
  BY <1>a, NestedStaysNested
<1> QED
  BY <1>g, <1>1, <1>2, <1>3, <1>4, <1>5

\* A value is read: it is the one the settings hold.
LEMMA ReadValueIInv ==
  ASSUME IInv, NEW c \in Callers, ReadValue(c)
  PROVE  IInv'
<1> USE DEF IInv, ReadValue, Reading
<1>a. /\ at \in [Callers -> {"idle", "reading", "login", "writing"}]
      /\ field \in [Callers -> 1 .. 4] /\ local \in [Callers -> Values]
      /\ settings \in Values /\ field[c] \in 1 .. 3
  BY DEF TypeOK
<1>b. ValuesRead(c) \in Values
  BY <1>a, OrderOfKeys DEF ValuesRead, Values
<1>c. field'[c] = field[c] + 1 /\ local'[c] = ValuesRead(c) /\ field' \in [Callers -> 1 .. 4]
  BY <1>a
<1>1. TypeOK'
  BY <1>a, <1>b, <1>c DEF TypeOK
<1>2. OverlapIsRecorded'
  BY DEF OverlapIsRecorded, Active, LoggingIn
<1>3. ReadsAreCurrent'
  <2> SUFFICES ASSUME NEW d \in Callers \ raced, at[d] = "reading",
                      NEW k \in 1 .. 4, k < field'[d]
               PROVE  local'[d][Order[k]] = settings[Order[k]]
    BY DEF ReadsAreCurrent
  <2>1. CASE d # c
    BY <1>a, <2>1 DEF ReadsAreCurrent
  <2>2. CASE d = c /\ k < field[c]
    <3>1. Order[k] # Order[field[c]] /\ Order[k] \in Keys
      BY <1>a, <2>2, OrderOfKeys
    <3>2. ValuesRead(c)[Order[k]] = local[c][Order[k]]
      BY <1>a, <3>1 DEF ValuesRead, Values
    <3> QED
      BY <1>c, <2>2, <3>2 DEF ReadsAreCurrent
  <2>3. CASE d = c /\ k = field[c]
    BY <1>a, <1>c, <2>3, OrderOfKeys DEF ValuesRead, Values
  <2> QED
    BY <1>a, <1>c, <2>1, <2>2, <2>3
<1>4. WritesOneAnswer' /\ WrittenSoFar'
  BY <1>a DEF WritesOneAnswer, WrittenSoFar, Whole
<1>5. NotValidMeanwhile' /\ WholeOrPassed'
  BY DEF NotValidMeanwhile, WholeOrPassed, LoggingIn, Passed
<1>g. InnerIsNested'
  BY <1>a, NestedStaysNested DEF Active
<1> QED
  BY <1>g, <1>1, <1>2, <1>3, <1>4, <1>5

\* The cached credentials are returned: the caller is active no more.
LEMMA ReturnCachedIInv ==
  ASSUME IInv, NEW c \in Callers, ReturnCached(c)
  PROVE  IInv'
<1> USE DEF IInv, ReturnCached, Return
<1>a. /\ at \in [Callers -> {"idle", "reading", "login", "writing"}]
      /\ local \in [Callers -> Values]
  BY DEF TypeOK
<1>1. TypeOK'
  BY <1>a, AllOfIsWhole DEF TypeOK
<1>2. OverlapIsRecorded'
  BY <1>a DEF OverlapIsRecorded, Active, LoggingIn
<1>3. ReadsAreCurrent'
  BY <1>a DEF ReadsAreCurrent
<1>4. WritesOneAnswer' /\ WrittenSoFar'
  BY <1>a DEF WritesOneAnswer, WrittenSoFar, Whole
<1>5. NotValidMeanwhile' /\ WholeOrPassed'
  BY <1>a DEF NotValidMeanwhile, WholeOrPassed, LoggingIn, Passed
<1>g. InnerIsNested'
  BY <1>a, NestedStaysNested DEF Active, Reading
<1> QED
  BY <1>g, <1>1, <1>2, <1>3, <1>4, <1>5

\* A login begins: if nothing overlaps it, the settings are what it has read,
\* and nobody takes them for valid.
LEMMA StartLoginIInv ==
  ASSUME IInv, NEW c \in Callers, StartLogin(c)
  PROVE  IInv'
<1> USE DEF IInv, StartLogin, Reading
<1>a. /\ at \in [Callers -> {"idle", "reading", "login", "writing"}]
      /\ local \in [Callers -> Values]
  BY DEF TypeOK
<1>1. TypeOK'
  BY <1>a, AllOfIsWhole DEF TypeOK
<1>2. OverlapIsRecorded'
  <2> SUFFICES ASSUME NEW d \in Callers, NEW e \in Beside(d), Active(d)', LoggingIn(e)'
               PROVE  d \in raced'
    BY DEF OverlapIsRecorded, Beside, Callers
  <2>0. e \in Callers /\ d # e
    BY BesideCallers
  <2>1. Active(d)
    BY <1>a DEF Active
  <2>2. CASE d # c
    BY <2>1, <2>2
  <2>3. CASE d = c
    BY <1>a, <2>0, <2>3 DEF OthersLoggingIn, LoggingIn
  <2> QED
    BY <2>2, <2>3
<1>3. ReadsAreCurrent'
  BY <1>a DEF ReadsAreCurrent
<1>4. WritesOneAnswer' /\ WrittenSoFar'
  BY <1>a DEF WritesOneAnswer, WrittenSoFar, Whole
<1>5. NotValidMeanwhile'
  <2> SUFFICES ASSUME NEW d \in Callers \ raced', LoggingIn(d)'
               PROVE  doubt \/ Passed(settings["expiration"])
    BY DEF NotValidMeanwhile, Passed
  <2>1. CASE d # c
    BY <1>a, <2>1 DEF NotValidMeanwhile, LoggingIn
  <2>2. CASE d = c
    <3>1. MustLogin(settings)
      BY <2>2, ReadsTheSettings
    <3>2. Whole(settings) => Passed(settings["expiration"])
      BY <3>1 DEF MustLogin, Whole, Passed
    <3> QED
      BY <3>2 DEF WholeOrPassed
  <2> QED
    BY <2>1, <2>2
<1>6. WholeOrPassed'
  BY DEF WholeOrPassed, Passed
<1>g. InnerIsNested'
  BY <1>a, NestedStaysNested DEF Active
<1> QED
  BY <1>g, <1>1, <1>2, <1>3, <1>4, <1>5, <1>6

-----------------------------------------------------------------------------
(***************************************************************************)
(* Writing.                                                                *)
(***************************************************************************)
\* STS has answered: the values to be written are those of one answer.
LEMMA LoginEndsIInv ==
  ASSUME IInv, NEW c \in Callers, LoginEnds(c)
  PROVE  IInv'
<1> USE DEF IInv, LoginEnds
<1>a. /\ at \in [Callers -> {"idle", "reading", "login", "writing"}]
      /\ field \in [Callers -> 1 .. 4] /\ local \in [Callers -> Values]
      /\ logins \in 0 .. MaxLogins
  BY DEF TypeOK
<1>b. PICK n \in 0 .. MaxLogins : local' = [local EXCEPT ![c] = AllOf(n)]
  BY <1>a
<1>c. AllOf(n) \in Values /\ Whole(AllOf(n)) /\ local'[c] = AllOf(n)
  BY <1>a, <1>b, AllOfIsWhole
<1>1. TypeOK'
  BY <1>a, <1>b, <1>c DEF TypeOK
<1>2. OverlapIsRecorded'
  BY <1>a DEF OverlapIsRecorded, Active, LoggingIn
<1>3. ReadsAreCurrent'
  BY <1>a, <1>b DEF ReadsAreCurrent
<1>4. WritesOneAnswer'
  <2> SUFFICES ASSUME NEW d \in Callers, at'[d] = "writing" PROVE Whole(local'[d])
    BY DEF WritesOneAnswer, Whole
  <2>1. CASE d = c
    BY <1>c, <2>1
  <2>2. CASE d # c
    BY <1>a, <1>b, <2>2 DEF WritesOneAnswer
  <2> QED
    BY <2>1, <2>2
<1>5. WrittenSoFar'
  BY <1>a, <1>b DEF WrittenSoFar
<1>6. NotValidMeanwhile' /\ WholeOrPassed'
  BY <1>a DEF NotValidMeanwhile, WholeOrPassed, LoggingIn, Passed
<1>g. InnerIsNested'
  BY <1>a, NestedStaysNested DEF Active
<1> QED
  BY <1>g, <1>1, <1>2, <1>3, <1>4, <1>5, <1>6

\* A value is written: everybody else who is active knows of it, and the last
\* value of an undisturbed login makes the settings whole.
LEMMA WriteValueIInv ==
  ASSUME IInv, NEW c \in Callers, WriteValue(c)
  PROVE  IInv'
<1> DEFINE key == Order[field[c]]
<1> USE DEF IInv, WriteValue
<1>a. /\ at \in [Callers -> {"idle", "reading", "login", "writing"}]
      /\ field \in [Callers -> 1 .. 4] /\ local \in [Callers -> Values]
      /\ settings \in Values /\ local[c] \in Values /\ field[c] \in 1 .. 4
  BY DEF TypeOK
<1>b. key \in Keys /\ (key = "expiration" <=> field[c] = 4)
  BY <1>a, OrderOfKeys
<1>s. settings' = [settings EXCEPT ![key] = local[c][key]] /\ settings' \in Values
  BY <1>a, <1>b DEF WriteOrder, Values
<1>o. \A d \in Callers : d # c /\ Active(d) => d \in raced
  BY BesideCallers DEF OverlapIsRecorded, LoggingIn, Runs
<1>i. \A d \in Callers \ {c} : at'[d] = at[d] /\ field'[d] = field[d] /\ local'[d] = local[d]
  BY <1>a DEF WriteNext, Return
<1>r. raced' \in {raced, raced \ {c}} /\ \A d \in Callers \ {c} : d \in raced' <=> d \in raced
  BY DEF WriteNext, Return
<1>d. \A d \in Callers \ raced' : at'[d] # "idle" => d = c /\ c \notin raced /\ field[c] < 4
  <2> SUFFICES ASSUME NEW d \in Callers \ raced', at'[d] # "idle"
               PROVE  d = c /\ c \notin raced /\ field[c] < 4
    OBVIOUS
  <2>1. d = c
    BY <1>i, <1>r, <1>o DEF Active
  <2>2. CASE WriteNext(c)
    BY <2>1, <2>2 DEF WriteNext
  <2>3. CASE Return(c)
    BY <2>1, <2>3, <1>a DEF Return
  <2> QED
    BY <2>2, <2>3, <2>1
<1>g. InnerIsNested'
  BY <1>i, NestedStaysNested DEF Active
<1>n. CASE field[c] < 4
  <2>0. WriteNext(c)
    BY <1>n, <1>a
  <2>f. field'[c] = field[c] + 1 /\ field' \in [Callers -> 1 .. 4]
    BY <1>a, <1>n, <2>0 DEF WriteNext
  <2>e. settings'["expiration"] = settings["expiration"]
    BY <1>a, <1>b, <1>s, <1>n DEF Values, Keys
  <2>1. TypeOK'
    BY <1>s, <2>0, <2>f DEF TypeOK, WriteNext
  <2>2. OverlapIsRecorded'
    BY <2>0 DEF OverlapIsRecorded, Active, LoggingIn, WriteNext
  <2>3. ReadsAreCurrent'
    BY <1>d, <2>0 DEF ReadsAreCurrent, WriteNext
  <2>4. WritesOneAnswer'
    BY <2>0 DEF WritesOneAnswer, WriteNext, Whole
  <2>5. WrittenSoFar'
    <3> SUFFICES ASSUME c \notin raced, NEW k \in 1 .. 4, k < field'[c]
                 PROVE  settings'[Order[k]] = local[c][Order[k]]
      BY <1>d, <2>0 DEF WrittenSoFar, WriteNext
    <3>1. CASE k < field[c]
      <4>1. Order[k] # key /\ Order[k] \in Keys
        BY <1>a, <3>1, OrderOfKeys
      <4>2. settings'[Order[k]] = settings[Order[k]]
        BY <1>a, <1>s, <4>1 DEF Values
      <4> QED
        BY <3>1, <4>2 DEF WrittenSoFar
    <3>2. CASE k = field[c]
      BY <1>a, <1>b, <1>s, <3>2 DEF Values
    <3> QED
      BY <1>a, <2>f, <3>1, <3>2
  <2>6. NotValidMeanwhile'
    <3> SUFFICES ASSUME c \notin raced PROVE doubt' \/ Passed(settings["expiration"])
      BY <1>d, <2>0, <2>e DEF NotValidMeanwhile, WriteNext, LoggingIn, Passed
    <3> QED
      BY <1>n DEF NotValidMeanwhile, LoggingIn
  <2>7. WholeOrPassed'
    <3>1. CASE c \in raced
      BY <3>1 DEF WholeOrPassed
    <3>2. CASE c \notin raced
      <4>1. doubt \/ Passed(settings["expiration"])
        BY <3>2 DEF NotValidMeanwhile, LoggingIn
      <4>2. CASE doubt
        BY <4>2, <1>n DEF WholeOrPassed
      <4>3. CASE Passed(settings["expiration"])
        BY <4>3, <2>e DEF WholeOrPassed, Passed
      <4> QED
        BY <4>1, <4>2, <4>3
    <3> QED
      BY <3>1, <3>2
  <2> QED
    BY <1>g, <2>1, <2>2, <2>3, <2>4, <2>5, <2>6, <2>7
<1>l. CASE field[c] = 4
  <2>0. Return(c) /\ UNCHANGED field
    BY <1>l DEF WriteNext
  <2>k. AllOf(0) \in Values
    BY AllOfIsWhole
  <2>1. TypeOK'
    BY <1>s, <2>0, <2>k DEF TypeOK, Return
  <2>n. \A d \in Callers \ raced' : at'[d] = "idle"
    BY <1>d, <1>l
  <2>2. OverlapIsRecorded'
    BY <1>a, <2>0 DEF OverlapIsRecorded, Active, LoggingIn, Return
  <2>3. ReadsAreCurrent' /\ WrittenSoFar' /\ NotValidMeanwhile'
    BY <2>n DEF ReadsAreCurrent, WrittenSoFar, NotValidMeanwhile, LoggingIn
  <2>4. WritesOneAnswer'
    BY <1>a, <2>0 DEF WritesOneAnswer, Return, Whole
  <2>5. WholeOrPassed'
    <3>1. CASE c \in raced
      BY <3>1 DEF WholeOrPassed
    <3>2. CASE c \notin raced
      <4>1. Whole(local[c])
        BY DEF WritesOneAnswer
      <4>2. \A x \in Keys : settings'[x] = local[c][x]
        <5> SUFFICES ASSUME NEW x \in Keys PROVE settings'[x] = local[c][x]
          OBVIOUS
        <5>1. PICK k \in 1 .. 4 : Order[k] = x
          BY OrderOfKeys
        <5>2. CASE k = 4
          BY <1>a, <1>b, <1>s, <1>l, <5>1, <5>2 DEF Values
        <5>3. CASE k < 4
          <6>1. settings[x] = local[c][x]
            BY <1>l, <3>2, <5>1, <5>3 DEF WrittenSoFar
          <6> QED
            BY <1>a, <1>b, <1>s, <6>1 DEF Values
        <5> QED
          BY <5>2, <5>3
      <4>3. "expiration" \in Keys
        BY DEF Keys
      <4>4. Whole(settings')
        BY <4>1, <4>2, <4>3 DEF Whole
      <4> QED
        BY <4>4 DEF WholeOrPassed
    <3> QED
      BY <3>1, <3>2
  <2> QED
    BY <1>g, <2>1, <2>2, <2>3, <2>4, <2>5
<1> QED
  BY <1>a, <1>n, <1>l

-----------------------------------------------------------------------------
\* A restart leaves nobody active and the settings as they are.
LEMMA RestartIInv == IInv /\ Restart => IInv'
<1> SUFFICES ASSUME IInv, Restart PROVE IInv'
  OBVIOUS
<1> USE DEF IInv, Restart
<1>1. TypeOK'
  BY AllOfIsWhole DEF TypeOK
<1>2. \A c \in Callers : at'[c] = "idle"
  OBVIOUS
<1>3. /\ OverlapIsRecorded' /\ InnerIsNested' /\ ReadsAreCurrent' /\ WritesOneAnswer'
      /\ WrittenSoFar' /\ NotValidMeanwhile'
  BY <1>2, BesideCallers DEF OverlapIsRecorded, InnerIsNested, Callers, Beside, ReadsAreCurrent, WritesOneAnswer, WrittenSoFar,
              NotValidMeanwhile, Active, LoggingIn
<1>4. WholeOrPassed'
  BY DEF WholeOrPassed, Whole, Passed
<1> QED
  BY <1>1, <1>3, <1>4

\* Time passes: what has passed stays so.
LEMMA ExpireIInv ==
  ASSUME IInv, NEW n \in 1 .. MaxLogins, Expire(n)
  PROVE  IInv'
<1> USE DEF IInv, Expire, callers
<1>1. TypeOK'
  BY DEF TypeOK
<1>2. OverlapIsRecorded' /\ ReadsAreCurrent' /\ WritesOneAnswer' /\ WrittenSoFar'
  BY DEF OverlapIsRecorded, ReadsAreCurrent, WritesOneAnswer, WrittenSoFar, Active,
         LoggingIn, Whole
<1>3. NotValidMeanwhile' /\ WholeOrPassed'
  BY DEF NotValidMeanwhile, WholeOrPassed, LoggingIn, Whole, Passed
<1>g. InnerIsNested'
  BY DEF InnerIsNested, Active
<1> QED
  BY <1>g, <1>1, <1>2, <1>3

\* Every step preserves the inductive invariant.
LEMMA NextIInv == IInv /\ [Next]_vars => IInv'
<1> SUFFICES ASSUME IInv, [Next]_vars PROVE IInv'
  OBVIOUS
<1>1. ASSUME NEW c \in Callers, OktaAuth(c) PROVE IInv'
  BY <1>1, OktaAuthIInv
<1>2. ASSUME NEW c \in Callers, ReadValue(c) PROVE IInv'
  BY <1>2, ReadValueIInv
<1>3. ASSUME NEW c \in Callers, ReturnCached(c) PROVE IInv'
  BY <1>3, ReturnCachedIInv
<1>4. ASSUME NEW c \in Callers, StartLogin(c) PROVE IInv'
  BY <1>4, StartLoginIInv
<1>5. ASSUME NEW c \in Callers, LoginEnds(c) PROVE IInv'
  BY <1>5, LoginEndsIInv
<1>6. ASSUME NEW c \in Callers, WriteValue(c) PROVE IInv'
  BY <1>6, WriteValueIInv
<1>7. CASE Restart
  BY <1>7, RestartIInv
<1>8. ASSUME NEW n \in 1 .. MaxLogins, Expire(n) PROVE IInv'
  BY <1>8, ExpireIInv
<1>9. CASE UNCHANGED vars
  BY <1>9 DEF vars, callers, IInv, TypeOK, OverlapIsRecorded, InnerIsNested, ReadsAreCurrent,
              WritesOneAnswer, WrittenSoFar, NotValidMeanwhile, WholeOrPassed, Active,
              LoggingIn, Whole, Passed
<1> QED
  BY <1>1, <1>2, <1>3, <1>4, <1>5, <1>6, <1>7, <1>8, <1>9 DEF Next

(***************************************************************************)
(* What the invariant implies.                                             *)
(***************************************************************************)
\* The invariant holds in every state of every session.
THEOREM Invariance == Spec => []IInv
BY InitIInv, NextIInv, PTL DEF Spec

\* The state keeps its shape, for any number of watches and logins.
THEOREM TypeCorrect == Spec => []TypeOK
<1>1. IInv => TypeOK
  BY DEF IInv
<1> QED
  BY <1>1, Invariance, PTL

\* Wherever a login is interrupted, credentials that a later call takes for
\* valid are those of one login, unless logins have overlapped.
THEOREM CachedCredentialsAreWhole == Spec => []CacheIsWhole
<1>1. IInv => CacheIsWhole
  BY DEF IInv, WholeOrPassed, CacheIsWhole, MustLogin
<1> QED
  BY <1>1, Invariance, PTL

\* oktaAuth returns the values of one login from the settings, unless somebody
\* else's login overlaps its reads or overlapping logins were the last.
THEOREM ReturnedCredentialsAreWhole == Spec => ReturnsWhole
<1>1. ASSUME IInv, NEW c \in Callers, ReturnCached(c)
      PROVE  c \in raced \/ doubt \/ Whole(ValuesRead(c))
  <2> SUFFICES ASSUME c \notin raced, ~doubt PROVE Whole(ValuesRead(c))
    OBVIOUS
  <2>1. ValuesRead(c) = settings
    BY <1>1, ReadsTheSettings DEF ReturnCached, Reading
  <2>2. ~MustLogin(settings)
    BY <1>1, <2>1 DEF ReturnCached
  <2> QED
    BY <1>1, <2>1, <2>2 DEF IInv, WholeOrPassed, MustLogin
<1>2. IInv /\ [Next]_vars =>
        [\A c \in Callers :
           ReturnCached(c) => c \in raced \/ doubt \/ Whole(ValuesRead(c))]_vars
  BY <1>1
<1> QED
  BY <1>2, Invariance, PTL DEF Spec, ReturnsWhole
=============================================================================
