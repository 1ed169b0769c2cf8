---------------------------- MODULE Credentials ----------------------------
(***************************************************************************)
(* dashboard/auth.py CredentialStore with the login and settings handlers  *)
(* of dashboard/app.py: one login in memory and in a file, the key that    *)
(* signs the session cookies, requests of several browsers in a thread     *)
(* pool, saves that fail, and restarts at any point.                       *)
(*                                                                         *)
(* A password stands for its salted hash, a cookie for its signed payload. *)
(* A logout and the end of a cookie's 12 hours are one action.             *)
(***************************************************************************)
EXTENDS Naturals, FiniteSets

CONSTANTS
  Browsers,     \* each sends one request at a time and keeps one cookie
  Names, Passwords,
  DefaultName, DefaultPassword,   \* DASHBOARD_USERNAME, DASHBOARD_PASSWORD
  Keys,         \* session secrets; enough of them that one is always unused
  Faults,       \* "save": saving fails; "read": so does reading
  Torn,         \* a file that was written in part
  None          \* missing

Credential == [name : Names, password : Passwords, key : Keys]
Cookie     == [user : Names, key : Keys, ended : BOOLEAN]
Form       == [user : Names, name : Names \union {None}, new : Passwords \union {None}]

ASSUME CredentialsAssumption ==
  /\ DefaultName \in Names
  /\ DefaultPassword \in Passwords
  /\ None \notin Names \union Passwords \union Keys
  /\ {None, Torn} \intersect Credential = {} /\ None # Torn
  /\ Faults \subseteq {"save", "read"}

VARIABLES
  up,          \* the dashboard runs and has its store
  data,        \* _data
  persistent,  \* _persistent
  saving,      \* how far _try_save is; the store's lock is held meanwhile
  disk,        \* the file at DASHBOARD_CREDENTIALS_PATH
  pc, form,    \* per browser: where its request is, and what it sent
  cookie,      \* per browser: the cookie, and whether a change has ended it (auxiliary)
  promised     \* auxiliary: the credentials last reported to survive a restart

store == <<up, data, persistent, saving, disk, promised>>
vars  == <<up, data, persistent, saving, disk, promised, pc, form, cookie>>

----------------------------------------------------------------------------
(* CredentialStore *)

\* secrets.token_hex: a key nobody holds.
Unused ==
  Keys \ ({cookie[b].key : b \in {c \in Browsers : cookie[c] # None}}
          \union {c.key : c \in {data, disk} \ {None, Torn}})

Free == up /\ saving = "no"

Accepted(c) == c # None /\ c.key = data.key /\ c.user = data.name

\* The first get_store of a process.
StartFrom(found) ==
  /\ ~up
  /\ up' = TRUE
  /\ IF found \in Credential
     THEN /\ data' = found
          /\ persistent' = TRUE
          /\ promised' = found
          /\ saving' = "no"
     ELSE /\ \E key \in Unused :
               data' = [name |-> DefaultName, password |-> DefaultPassword, key |-> key]
          /\ persistent' = FALSE
          /\ saving' = "writing"
          /\ UNCHANGED promised
  /\ UNCHANGED <<disk, pc, form, cookie>>

Start == StartFrom(disk)

\* A file that is there cannot be opened: the same as none.
StartBlind == "read" \in Faults /\ disk # None /\ StartFrom(None)

\* Mutant of WriteTmp: the file itself is opened for writing.
WriteInPlace ==
  /\ saving = "writing"
  /\ saving' = "written"
  /\ disk' = Torn
  /\ UNCHANGED <<up, data, persistent, promised, pc, form, cookie>>

WriteTmp ==
  /\ saving = "writing"
  /\ saving' = "written"
  /\ UNCHANGED <<up, data, persistent, disk, promised, pc, form, cookie>>

Replace ==
  /\ saving = "written"
  /\ saving' = "no"
  /\ disk' = data
  /\ persistent' = TRUE
  /\ promised' = data
  /\ UNCHANGED <<up, data, pc, form, cookie>>

\* Mutant of SaveFails: the flag keeps the value the store was loaded with.
SaveFailsUnnoticed ==
  /\ "save" \in Faults
  /\ saving # "no"
  /\ saving' = "no"
  /\ UNCHANGED <<up, data, persistent, disk, promised, pc, form, cookie>>

\* No path, a file system that is read-only or full.
SaveFails ==
  /\ "save" \in Faults
  /\ saving # "no"
  /\ saving' = "no"
  /\ persistent' = FALSE
  /\ UNCHANGED <<up, data, disk, promised, pc, form, cookie>>

\* Mutant of UpdateCredentials: a new key only with a new password.
UpdateKeepsKey(f) ==
  \E key \in IF f.new = None THEN {data.key} ELSE Unused :
    data' = [name     |-> IF f.name = None THEN data.name ELSE f.name,
             password |-> IF f.new = None THEN data.password ELSE f.new,
             key      |-> key]

\* Mutant of UpdateCredentials: a name left blank is taken as it is.
UpdateVerbatim(f) ==
  \E key \in Unused :
    data' = [name     |-> f.name,
             password |-> IF f.new = None THEN data.password ELSE f.new,
             key      |-> key]

UpdateCredentials(f) ==
  \E key \in Unused :
    data' = [name     |-> IF f.name = None THEN data.name ELSE f.name,
             password |-> IF f.new = None THEN data.password ELSE f.new,
             key      |-> key]

----------------------------------------------------------------------------
(* The handlers of dashboard/app.py *)

\* login_submit with the right password; with a wrong one nothing changes.
Login(b) ==
  /\ Free /\ pc[b] = "idle"
  /\ pc' = [pc EXCEPT ![b] = "login"]
  /\ form' = [form EXCEPT ![b] = [user |-> data.name, name |-> None, new |-> None]]
  /\ UNCHANGED <<store, cookie>>

\* settings_submit up to its last check, by cookie or by Basic; both need the
\* right password.  The name in the form is the present one unless its user
\* changes or clears it.
Submit(b) ==
  /\ Free /\ pc[b] = "idle"
  /\ \E name \in Names \union {None}, new \in Passwords \union {None} :
       /\ name \notin {data.name, None} \/ new # None
       /\ form' = [form EXCEPT ![b] = [user |-> data.name, name |-> name, new |-> new]]
  /\ pc' = [pc EXCEPT ![b] = "change"]
  /\ UNCHANGED <<store, cookie>>

\* update_credentials: the key is rotated, then the file is saved.
Update(b) ==
  /\ Free /\ pc[b] = "change"
  /\ UpdateCredentials(form[b])
  /\ saving' = "writing"
  /\ pc' = [pc EXCEPT ![b] = "renew"]
  /\ cookie' = [c \in Browsers |->
                  IF cookie[c] = None THEN None ELSE [cookie[c] EXCEPT !.ended = TRUE]]
  /\ UNCHANGED <<up, persistent, disk, promised, form>>

FinalUser(f) == IF f.name = None THEN f.user ELSE f.name

\* issue_session, and the answer.
Issue(b) ==
  /\ Free /\ pc[b] \in {"login", "renew"}
  /\ cookie' = [cookie EXCEPT ![b] =
                  [user |-> FinalUser(form[b]), key |-> data.key, ended |-> FALSE]]
  /\ pc' = [pc EXCEPT ![b] = "idle"]
  /\ form' = [form EXCEPT ![b] = None]
  /\ UNCHANGED store

Logout(b) ==
  /\ pc[b] = "idle" /\ cookie[b] # None
  /\ cookie' = [cookie EXCEPT ![b] = None]
  /\ UNCHANGED <<store, pc, form>>

----------------------------------------------------------------------------
Init ==
  /\ up = FALSE /\ data = None /\ persistent = FALSE /\ saving = "no"
  /\ disk = None /\ promised = None
  /\ pc = [b \in Browsers |-> "idle"]
  /\ form = [b \in Browsers |-> None]
  /\ cookie = [b \in Browsers |-> None]

\* What has ended a cookie in this process is forgotten with it.
Crash ==
  /\ up
  /\ up' = FALSE /\ data' = None /\ persistent' = FALSE /\ saving' = "no"
  /\ pc' = [b \in Browsers |-> "idle"]
  /\ form' = [b \in Browsers |-> None]
  /\ cookie' = [c \in Browsers |->
                  IF cookie[c] = None THEN None ELSE [cookie[c] EXCEPT !.ended = FALSE]]
  /\ UNCHANGED <<disk, promised>>

Request(b) == Login(b) \/ Submit(b) \/ Update(b) \/ Issue(b) \/ Logout(b)

Next ==
  \/ Start \/ StartBlind \/ Crash
  \/ WriteTmp \/ Replace \/ SaveFails
  \/ \E b \in Browsers : Request(b)

Spec == Init /\ [][Next]_vars

----------------------------------------------------------------------------
(* Properties *)

\* Types, and whose request may be where.
TypeOK ==
  /\ up \in BOOLEAN
  /\ data \in IF up THEN Credential ELSE {None}
  /\ persistent \in BOOLEAN
  /\ saving \in IF up THEN {"no", "writing", "written"} ELSE {"no"}
  /\ disk \in Credential \union {None, Torn}
  /\ promised \in Credential \union {None}
  /\ pc \in [Browsers -> {"idle", "login", "change", "renew"}]
  /\ form \in [Browsers -> Form \union {None}]
  /\ \A b \in Browsers : form[b] \in IF pc[b] = "idle" THEN {None} ELSE Form
  /\ cookie \in [Browsers -> Cookie \union {None}]

\* What the settings page says of the last change is so: when it is called
\* saved, the file holds just what the store works with (persistent).
ReportedAsSaved == Free /\ persistent => disk = data

\* Credentials that were called saved are what every restart finds that can
\* read the file, until others are saved: no restart in the middle of a save
\* and no failing save loses them (_load, _try_save with os.replace).
SavedSurvive == [][Start /\ promised # None => data' = promised]_vars

\* A change ends every session there was, and while the process lives names
\* changed to and fro bring none back (session_secret is rotated each time).
ChangeEndsSessions ==
  up => \A b \in Browsers : cookie[b] # None /\ cookie[b].ended => ~Accepted(cookie[b])
============================================================================
