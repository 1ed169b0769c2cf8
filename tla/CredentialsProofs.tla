-------------------------- MODULE CredentialsProofs --------------------------
(***************************************************************************)
(* The login of the dashboard for any number of browsers, names, passwords *)
(* and keys, and any faults: what is called saved is saved, what was saved *)
(* is found again, and a change of credentials ends every session.         *)
(***************************************************************************)
EXTENDS Credentials, TLAPS

\* What was promised to survive is in the file, whole, until something else is.
PromiseKept == promised # None => disk = promised

\* No cookie that a change has ended carries the present key, and a process that
\* is not there has ended none.
EndedSessions ==
  \A b \in Browsers :
    cookie[b] # None /\ cookie[b].ended => up /\ cookie[b].key # data.key

CredentialsInv == TypeOK /\ ReportedAsSaved /\ PromiseKept /\ EndedSessions

Step == [Next]_vars

----------------------------------------------------------------------------
(* Types *)

\* A rotated key is held by no browser, and is neither the one in memory nor
\* the one in the file (secrets.token_hex).
LEMMA UnusedKeys ==
  ASSUME NEW key \in Unused
  PROVE  /\ key \in Keys
         /\ \A b \in Browsers : cookie[b] # None => cookie[b].key # key
BY DEF Unused

\* update_credentials makes credentials of credentials and a form.
LEMMA UpdateType ==
  ASSUME data \in Credential, NEW f \in Form, UpdateCredentials(f)
  PROVE  /\ data' \in Credential
         /\ \A b \in Browsers : cookie[b] # None => cookie[b].key # data'.key
<1>1. PICK key \in Unused :
        data' = [name     |-> IF f.name = None THEN data.name ELSE f.name,
                 password |-> IF f.new = None THEN data.password ELSE f.new,
                 key      |-> key]
  BY DEF UpdateCredentials
<1>2. /\ f.name = None \/ f.name \in Names
      /\ f.new = None \/ f.new \in Passwords
      /\ data.name \in Names /\ data.password \in Passwords
  BY DEF Form, Credential
<1>3. key \in Keys
  BY UnusedKeys
<1> QED
  BY <1>1, <1>2, <1>3, UnusedKeys DEF Credential

\* A process starts with the credentials in the file or with the default ones.
LEMMA StartType ==
  ASSUME TypeOK, NEW found, StartFrom(found)
  PROVE  /\ data' \in Credential
         /\ TypeOK'
<1>1. data' \in Credential
  <2>1. CASE found \in Credential
    BY <2>1 DEF StartFrom
  <2>2. CASE found \notin Credential
    <3>1. PICK key \in Unused :
            data' = [name |-> DefaultName, password |-> DefaultPassword, key |-> key]
      BY <2>2 DEF StartFrom
    <3> QED
      BY <3>1, UnusedKeys, CredentialsAssumption DEF Credential
  <2> QED
    BY <2>1, <2>2
<1>2. /\ up' = TRUE /\ persistent' \in BOOLEAN
      /\ saving' \in {"no", "writing"}
      /\ promised' \in Credential \union {None}
      /\ UNCHANGED <<disk, pc, form, cookie>>
  BY DEF StartFrom, TypeOK
<1> QED
  BY <1>1, <1>2 DEF TypeOK

LEMMA RequestType ==
  ASSUME TypeOK, NEW b \in Browsers, Request(b)
  PROVE  TypeOK'
<1> USE DEF TypeOK, Free, store
<1>1. CASE Login(b)
  <2>1. data.name \in Names
    BY <1>1 DEF Login, Credential
  <2>2. [user |-> data.name, name |-> None, new |-> None] \in Form
    BY <2>1 DEF Form
  <2> QED
    BY <1>1, <2>2 DEF Login
<1>2. CASE Submit(b)
  <2>1. PICK name \in Names \union {None}, new \in Passwords \union {None} :
          form' = [form EXCEPT ![b] = [user |-> data.name, name |-> name, new |-> new]]
    BY <1>2 DEF Submit
  <2>2. data.name \in Names
    BY <1>2 DEF Submit, Credential
  <2>3. [user |-> data.name, name |-> name, new |-> new] \in Form
    BY <2>2 DEF Form
  <2> QED
    BY <1>2, <2>1, <2>3 DEF Submit
<1>3. CASE Update(b)
  <2>1. form[b] \in Form /\ data \in Credential /\ up
    BY <1>3 DEF Update
  <2>2. data' \in Credential
    BY <1>3, <2>1, UpdateType DEF Update
  <2>3. cookie' \in [Browsers -> Cookie \union {None}]
    BY <1>3 DEF Update, Cookie
  <2>4. pc' \in [Browsers -> {"idle", "login", "change", "renew"}]
    BY <1>3 DEF Update
  <2>5. \A c \in Browsers : form[c] \in IF pc'[c] = "idle" THEN {None} ELSE Form
    BY <1>3, <2>1 DEF Update
  <2> QED
    BY <1>3, <2>1, <2>2, <2>3, <2>4, <2>5 DEF Update
<1>4. CASE Issue(b)
  <2>1. form[b] \in Form /\ data \in Credential
    BY <1>4 DEF Issue
  <2>2. FinalUser(form[b]) \in Names /\ data.key \in Keys
    BY <2>1 DEF FinalUser, Form, Credential
  <2>3. [user |-> FinalUser(form[b]), key |-> data.key, ended |-> FALSE] \in Cookie
    BY <2>2 DEF Cookie
  <2>4. cookie' \in [Browsers -> Cookie \union {None}]
    BY <1>4, <2>3 DEF Issue
  <2> QED
    BY <1>4, <2>4 DEF Issue
<1>5. CASE Logout(b)
  BY <1>5 DEF Logout
<1> QED
  BY <1>1, <1>2, <1>3, <1>4, <1>5 DEF Request

LEMMA CrashType ==
  ASSUME TypeOK, Crash
  PROVE  TypeOK'
<1>1. cookie' \in [Browsers -> Cookie \union {None}]
  BY DEF TypeOK, Crash, Cookie
<1> QED
  BY <1>1 DEF TypeOK, Crash

LEMMA SaveType ==
  ASSUME TypeOK, WriteTmp \/ Replace \/ SaveFails
  PROVE  TypeOK'
<1> USE DEF TypeOK
<1>1. CASE WriteTmp
  BY <1>1 DEF WriteTmp
<1>2. CASE Replace
  BY <1>2 DEF Replace
<1>3. CASE SaveFails
  BY <1>3 DEF SaveFails
<1> QED
  BY <1>1, <1>2, <1>3

LEMMA StepType ==
  ASSUME TypeOK, Step
  PROVE  TypeOK'
<1>1. CASE UNCHANGED vars
  BY <1>1 DEF TypeOK, vars
<1> QED
  BY <1>1, StartType, RequestType, CrashType, SaveType DEF Step, Next, Start, StartBlind

----------------------------------------------------------------------------
(* The file *)

\* Only a save that has come to its end changes the file, and then what is in
\* memory, what is in the file and what was promised are one.
LEMMA StepSaved ==
  ASSUME TypeOK, ReportedAsSaved, PromiseKept, Step
  PROVE  ReportedAsSaved' /\ PromiseKept'
<1> USE CredentialsAssumption DEF TypeOK, ReportedAsSaved, PromiseKept, Free
<1>1. CASE Start
  <2>1. CASE disk \in Credential
    BY <1>1, <2>1 DEF Start, StartFrom
  <2>2. CASE disk \notin Credential
    BY <1>1, <2>2 DEF Start, StartFrom
  <2> QED
    BY <2>1, <2>2
<1>2. CASE StartBlind
  BY <1>2 DEF StartBlind, StartFrom
<1>3. CASE Crash
  BY <1>3 DEF Crash
<1>4. CASE WriteTmp
  BY <1>4 DEF WriteTmp
<1>5. CASE Replace
  BY <1>5 DEF Replace
<1>6. CASE SaveFails
  BY <1>6 DEF SaveFails
<1>7. ASSUME NEW b \in Browsers, Request(b) PROVE ReportedAsSaved' /\ PromiseKept'
  BY <1>7 DEF Request, Login, Submit, Update, Issue, Logout, store
<1>8. CASE UNCHANGED vars
  BY <1>8 DEF vars
<1> QED
  BY <1>1, <1>2, <1>3, <1>4, <1>5, <1>6, <1>7, <1>8 DEF Step, Next

----------------------------------------------------------------------------
(* The sessions *)

\* The key is rotated in the step that ends the cookies, to one that none of
\* them carries; in a process it never returns to an earlier value.
LEMMA StepEnded ==
  ASSUME TypeOK, EndedSessions, Step
  PROVE  EndedSessions'
<1> USE DEF EndedSessions
<1>1. ASSUME NEW found, StartFrom(found) PROVE EndedSessions'
  BY <1>1 DEF StartFrom
<1>2. CASE Crash
  <2>1. \A b \in Browsers : cookie'[b] # None => cookie'[b].ended = FALSE
    BY <1>2 DEF Crash, TypeOK, Cookie
  <2> QED
    BY <2>1
<1>3. CASE WriteTmp \/ Replace \/ SaveFails
  BY <1>3 DEF WriteTmp, Replace, SaveFails
<1>4. ASSUME NEW b \in Browsers, Login(b) \/ Submit(b) \/ Logout(b) PROVE EndedSessions'
  BY <1>4 DEF Login, Submit, Logout, store, TypeOK
<1>5. ASSUME NEW b \in Browsers, Update(b) PROVE EndedSessions'
  <2>1. form[b] \in Form /\ data \in Credential /\ up /\ up'
    BY <1>5 DEF Update, Free, TypeOK
  <2>2. \A c \in Browsers : cookie[c] # None => cookie[c].key # data'.key
    BY <1>5, <2>1, UpdateType DEF Update
  <2>3. ASSUME NEW c \in Browsers, cookie'[c] # None
        PROVE  cookie[c] # None /\ cookie'[c].key = cookie[c].key
    BY <1>5, <2>3 DEF Update, TypeOK, Cookie
  <2> QED
    BY <2>1, <2>2, <2>3
<1>6. ASSUME NEW b \in Browsers, Issue(b) PROVE EndedSessions'
  <2>1. UNCHANGED <<up, data>>
    BY <1>6 DEF Issue, store
  <2>2. cookie'[b].ended = FALSE
    BY <1>6 DEF Issue, TypeOK
  <2>3. \A c \in Browsers \ {b} : cookie'[c] = cookie[c]
    BY <1>6 DEF Issue, TypeOK
  <2> QED
    BY <2>1, <2>2, <2>3
<1>7. CASE UNCHANGED vars
  BY <1>7 DEF vars
<1> QED
  BY <1>1, <1>2, <1>3, <1>4, <1>5, <1>6, <1>7 DEF Step, Next, Start, StartBlind, Request

----------------------------------------------------------------------------
(* The theorems *)

\* The store, the file and the cookies are what the properties below take them
\* to be, through failing saves and restarts (auth.py CredentialStore).
THEOREM Invariance == Spec => []CredentialsInv
<1>1. Init => CredentialsInv
  BY DEF Init, CredentialsInv, TypeOK, ReportedAsSaved, PromiseKept, EndedSessions, Free
<1>2. CredentialsInv /\ [Next]_vars => CredentialsInv'
  BY StepType, StepSaved, StepEnded DEF CredentialsInv, Step
<1> QED
  BY <1>1, <1>2, PTL DEF Spec

\* Whole credentials while the process runs, none while it does not; a file that
\* is whole; a form for each request under way (auth.py, app.py).
THEOREM TypeCorrect == Spec => []TypeOK
<1>1. CredentialsInv => TypeOK
  BY DEF CredentialsInv
<1> QED
  BY <1>1, Invariance, PTL

\* When the settings page calls the last change saved, the file holds just what
\* the store works with (persistent, _try_save).
THEOREM SavedAsReported == Spec => []ReportedAsSaved
<1>1. CredentialsInv => ReportedAsSaved
  BY DEF CredentialsInv
<1> QED
  BY <1>1, Invariance, PTL

\* Every restart that can read the file finds the credentials that were last
\* called saved, in whatever step the process died (os.replace in _try_save).
THEOREM RestartFindsSaved == Spec => SavedSurvive
<1>1. CredentialsInv /\ [Next]_vars =>
        [Start /\ promised # None => data' = promised]_vars
  BY CredentialsAssumption DEF CredentialsInv, TypeOK, PromiseKept, Start, StartFrom
<1> QED
  BY <1>1, Invariance, PTL DEF Spec, SavedSurvive

\* A session that a change of credentials has ended is not accepted again in the
\* life of the process, whatever names are changed to (session_secret rotation
\* in update_credentials, verification in auth.py).
THEOREM ChangeIsFinal == Spec => []ChangeEndsSessions
<1>1. CredentialsInv => ChangeEndsSessions
  BY DEF CredentialsInv, EndedSessions, ChangeEndsSessions, Accepted
<1> QED
  BY <1>1, Invariance, PTL
=============================================================================
