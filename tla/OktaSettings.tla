----------------------------- MODULE OktaSettings -----------------------------
(***************************************************************************)
(* The credentials of an Okta login in the application settings            *)
(* (oktaAuth, standalone/source/authentication/Okta.cpp:215-276).          *)
(*                                                                         *)
(* The credentials are four values of QSettings, read one by one by every  *)
(* caller of oktaAuth and written one by one after a login.  Callers are   *)
(* the GUI thread, whose login runs an event loop in which another handler *)
(* may call oktaAuth again (Outer waits there, Inner runs), and one thread *)
(* for each pod watch.  QSettings guards each value, not the four of them, *)
(* and saves them all at once now and then.  A restarted program finds     *)
(* what was saved last, which is what a restart at the time of that save   *)
(* would have found: the model lets every value outlive a restart.         *)
(*                                                                         *)
(* A value is the number of the login that produced it, 0 standing for an  *)
(* empty string and for an expiration in 1970.  What the login does until  *)
(* STS has answered is OktaLogin's; STS and QSettings are external.        *)
(***************************************************************************)
EXTENDS Naturals

CONSTANTS
  Outer, Inner,   \* the GUI thread's call of oktaAuth, and one nested in it
  Watches,        \* the watch threads
  MaxLogins       \* bound on the logins that STS answers with credentials

ASSUME LoginsAssumption  == MaxLogins \in Nat
ASSUME CallersAssumption == Outer # Inner /\ {Outer, Inner} \cap Watches = {}

Callers == {Outer, Inner} \cup Watches

\* The order in which the values are read and written.
Order  == << "accessKeyId", "secretKey", "sessionToken", "expiration" >>
Keys   == {"accessKeyId", "secretKey", "sessionToken", "expiration"}
Values == [Keys -> 0 .. MaxLogins]

VARIABLES
  settings,  \* the four values
  at,        \* at[c]: what caller c is doing
  field,     \* field[c]: which value it reads or writes next
  local,     \* local[c]: accessKey, secretKey, sessionToken, tokenExpiry
  logins,    \* logins that STS has answered with credentials
  passed,    \* those whose expiration has passed
  raced,     \* history: callers whose call somebody else's login overlaps
  doubt      \* history: such a caller has written after the last undisturbed login

callers == << at, field, local >>
vars    == << settings, callers, logins, passed, raced, doubt >>

TypeOK ==
  /\ settings \in Values
  /\ at \in [Callers -> {"idle", "reading", "login", "writing"}]
  /\ field \in [Callers -> 1 .. 4]
  /\ local \in [Callers -> Values]
  /\ logins \in 0 .. MaxLogins
  /\ passed \subseteq 1 .. MaxLogins
  /\ raced \subseteq Callers
  /\ doubt \in BOOLEAN

AllOf(n)  == [k \in Keys |-> n]
Whole(v)  == \A k \in Keys : v[k] = v["expiration"]

\* The settings are empty, or hold the credentials of an earlier session.
Init ==
  /\ logins \in {n \in {0, 1} : n <= MaxLogins}
  /\ settings = AllOf(logins)
  /\ at = [c \in Callers |-> "idle"]
  /\ field = [c \in Callers |-> 1]
  /\ local = [c \in Callers |-> AllOf(0)]
  /\ passed = {}
  /\ raced = {}
  /\ doubt = FALSE

-----------------------------------------------------------------------------
LoggingIn(c) == at[c] \in {"login", "writing"}
Active(c)    == at[c] # "idle"

\* The GUI thread goes on with its outer call when the nested one has returned.
Runs(c) == c = Outer => ~Active(Inner)

CanCall(c) == ~Active(c) /\ (c = Inner => at[Outer] = "login")

\* Whose steps may come between those of c: a nested call ends before the login
\* it is nested in goes on.
Beside(c) == Callers \ (IF c = Inner THEN {Inner, Outer} ELSE {c})

OthersLoggingIn(c) == \E d \in Beside(c) : LoggingIn(d)

Passed(n) == n = 0 \/ n \in passed

\* Mutant: credentials are taken as long as there are any.
MustLoginIfEmpty(v) == \E k \in Keys \ {"expiration"} : v[k] = 0

MustLogin(v) ==
  \/ \E k \in Keys \ {"expiration"} : v[k] = 0
  \/ Passed(v["expiration"])

OktaAuth(c) ==
  /\ Runs(c)
  /\ CanCall(c)
  /\ at' = [at EXCEPT ![c] = "reading"]
  /\ field' = [field EXCEPT ![c] = 1]
  /\ raced' = raced \cup {d \in {c} : OthersLoggingIn(d)}
  /\ UNCHANGED << settings, local, logins, passed, doubt >>

Reading(c) == Runs(c) /\ at[c] = "reading"

ValuesRead(c) ==
  [local[c] EXCEPT ![Order[field[c]]] = settings[Order[field[c]]]]

ReadValue(c) ==
  /\ Reading(c)
  /\ field[c] < 4
  /\ local' = [local EXCEPT ![c] = ValuesRead(c)]
  /\ field' = [field EXCEPT ![c] = @ + 1]
  /\ UNCHANGED << settings, at, logins, passed, raced, doubt >>

Return(c) ==
  /\ at' = [at EXCEPT ![c] = "idle"]
  /\ local' = [local EXCEPT ![c] = AllOf(0)]
  /\ raced' = raced \ {c}

\* The last value is read: the cached credentials are returned ...
ReturnCached(c) ==
  /\ Reading(c)
  /\ field[c] = 4
  /\ ~MustLogin(ValuesRead(c))
  /\ Return(c)
  /\ UNCHANGED << settings, field, logins, passed, doubt >>

\* ... or a login begins, which overlaps every call in progress.
StartLogin(c) ==
  /\ Reading(c)
  /\ field[c] = 4
  /\ MustLogin(ValuesRead(c))
  /\ at' = [at EXCEPT ![c] = "login"]
  /\ local' = [local EXCEPT ![c] = AllOf(0)]
  /\ raced' = raced \cup {d \in Callers \ {c} : Active(d)}
                    \cup {d \in {c} : OthersLoggingIn(d)}
  /\ UNCHANGED << settings, field, logins, passed, doubt >>

\* The chain has ended: STS has returned credentials, or nothing and no error
\* that oktaAuth looks at.
LoginEnds(c) ==
  /\ Runs(c)
  /\ at[c] = "login"
  /\ \/ /\ logins < MaxLogins
        /\ logins' = logins + 1
        /\ local' = [local EXCEPT ![c] = AllOf(logins + 1)]
     \/ /\ UNCHANGED logins
        /\ local' = [local EXCEPT ![c] = AllOf(0)]
  /\ at' = [at EXCEPT ![c] = "writing"]
  /\ field' = [field EXCEPT ![c] = 1]
  /\ UNCHANGED << settings, passed, raced, doubt >>

\* Mutant: the expiration is written before the values it is about.
ExpirationFirst == << "expiration", "accessKeyId", "secretKey", "sessionToken" >>

WriteOrder == Order

\* Mutant: a fifth value is written.
WriteOn(c) ==
  /\ field' = [field EXCEPT ![c] = @ + 1]
  /\ UNCHANGED << at, local, raced >>

WriteNext(c) ==
  /\ field[c] < 4
  /\ field' = [field EXCEPT ![c] = @ + 1]
  /\ UNCHANGED << at, local, raced >>

WriteValue(c) ==
  /\ Runs(c)
  /\ at[c] = "writing"
  /\ settings' = [settings EXCEPT ![WriteOrder[field[c]]] = local[c][WriteOrder[field[c]]]]
  /\ \/ WriteNext(c)
     \/ field[c] = 4 /\ Return(c) /\ UNCHANGED field
  /\ doubt' = (c \in raced \/ (doubt /\ field[c] < 4))
  /\ UNCHANGED << logins, passed >>

-----------------------------------------------------------------------------
\* The program ends, wherever its threads are, and is started again.
Restart ==
  /\ at' = [c \in Callers |-> "idle"]
  /\ field' = [c \in Callers |-> 1]
  /\ local' = [c \in Callers |-> AllOf(0)]
  /\ raced' = {}
  /\ UNCHANGED << settings, logins, passed, doubt >>

Expire(n) ==
  /\ n <= logins
  /\ passed' = passed \cup {n}
  /\ UNCHANGED << settings, callers, logins, raced, doubt >>

Next ==
  \/ \E c \in Callers : \/ OktaAuth(c) \/ ReadValue(c) \/ ReturnCached(c)
                        \/ StartLogin(c) \/ LoginEnds(c) \/ WriteValue(c)
  \/ Restart
  \/ \E n \in 1 .. MaxLogins : Expire(n)

Spec == Init /\ [][Next]_vars

-----------------------------------------------------------------------------
\* Wherever a login was interrupted, values that a later call would take for
\* valid credentials (Okta.cpp:223) come from one login: the expiration is
\* written last (Okta.cpp:270).  Only logins that overlap may mix their values,
\* and only until the next one that runs undisturbed.
CacheIsWhole == MustLogin(settings) \/ doubt \/ Whole(settings)

\* Cached credentials that oktaAuth returns (Okta.cpp:274) are the values of one
\* login, unless its reads overlapped somebody else's login or overlapping logins
\* have left their values mixed.  (A call that is nested in a login of the GUI
\* thread is no such case: the login waits for it.)
ReturnsWhole ==
  [][\A c \in Callers :
       ReturnCached(c) => c \in raced \/ doubt \/ Whole(ValuesRead(c))]_vars
=============================================================================
