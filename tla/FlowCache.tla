----------------------------- MODULE FlowCache -----------------------------
(***************************************************************************)
(* dashboard/hubble_flows.py: _fetch_flows_cached, by which the request    *)
(* threads of the dashboard share one short-lived list of flows, so that   *)
(* the hubble CLI, a process of its own each time, is not started once per *)
(* viewer.  A list of flows is known by the time its fetch began.          *)
(***************************************************************************)
EXTENDS Integers

CONSTANTS
  Requests,      \* threads of the dashboard, one request at a time each
  TTL,           \* HUBBLE_CACHE_TTL_S
  Timeout,       \* HUBBLE_TIMEOUT_S: the CLI is killed after it
  Horizon,       \* bound of the model: the clock stops here
  Nobody,        \* the lock is free
  Empty          \* _flows_cache holds no flows

ASSUME FlowCacheAssumption ==
  /\ TTL \in Nat
  /\ Timeout \in Nat
  /\ Horizon \in Nat
  /\ Nobody \notin Requests
  /\ Empty \notin [ts : Nat, flows : Nat]

VARIABLES
  clock,      \* time.monotonic()
  lock,       \* holder of _flows_lock
  cache,      \* _flows_cache
  pc,         \* where each request is
  now,        \* the time each request read before it asked for the lock
  began,      \* when the running fetch began
  served,     \* what each request got: flows, or Empty for HubbleUnavailableError
  fetched     \* auxiliary: lists fetched since the dashboard started

vars == <<clock, lock, cache, pc, now, began, served, fetched>>

Init ==
  /\ clock = 0
  /\ lock = Nobody
  /\ cache = Empty
  /\ pc = [r \in Requests |-> "away"]
  /\ now = [r \in Requests |-> 0]
  /\ began = 0
  /\ served = [r \in Requests |-> Empty]
  /\ fetched = 0

\* The time is read before the lock is asked for, and not again.
Arrive(r) ==
  /\ pc[r] = "away"
  /\ pc' = [pc EXCEPT ![r] = "waiting"]
  /\ now' = [now EXCEPT ![r] = clock]
  /\ UNCHANGED <<clock, lock, cache, began, served, fetched>>

Valid(r) == cache # Empty /\ now[r] - cache.ts < TTL

\* The lock is taken, the cache is found valid, the lock is given back.
Hit(r) ==
  /\ pc[r] = "waiting"
  /\ lock = Nobody
  /\ Valid(r)
  /\ served' = [served EXCEPT ![r] = cache.flows]
  /\ pc' = [pc EXCEPT ![r] = "served"]
  /\ UNCHANGED <<clock, lock, cache, now, began, fetched>>

\* Mutant of Miss: the CLI is started after the lock was given back.
MissUnlocked(r) ==
  /\ pc[r] = "waiting"
  /\ lock = Nobody
  /\ ~Valid(r)
  /\ lock' = Nobody
  /\ began' = clock
  /\ pc' = [pc EXCEPT ![r] = "fetching"]
  /\ UNCHANGED <<clock, cache, now, served, fetched>>

\* Mutant of Miss: whoever waited for the lock starts the CLI unconditionally.
MissUnchecked(r) ==
  /\ pc[r] = "waiting"
  /\ lock = Nobody
  /\ lock' = r
  /\ began' = clock
  /\ pc' = [pc EXCEPT ![r] = "fetching"]
  /\ UNCHANGED <<clock, cache, now, served, fetched>>

\* The lock is taken and kept while the CLI runs.
Miss(r) ==
  /\ pc[r] = "waiting"
  /\ lock = Nobody
  /\ ~Valid(r)
  /\ lock' = r
  /\ began' = clock
  /\ pc' = [pc EXCEPT ![r] = "fetching"]
  /\ UNCHANGED <<clock, cache, now, served, fetched>>

\* Mutant of FetchSucceeds: stored under the time the fetch ended.
FetchStampedLate(r) ==
  /\ pc[r] = "fetching"
  /\ cache' = [ts |-> clock, flows |-> began]
  /\ served' = [served EXCEPT ![r] = began]
  /\ fetched' = fetched + 1
  /\ lock' = Nobody
  /\ pc' = [pc EXCEPT ![r] = "served"]
  /\ UNCHANGED <<clock, now, began>>

\* The flows are stored under the time that was read before the wait.
FetchSucceeds(r) ==
  /\ pc[r] = "fetching"
  /\ cache' = [ts |-> now[r], flows |-> began]
  /\ served' = [served EXCEPT ![r] = began]
  /\ fetched' = fetched + 1
  /\ lock' = Nobody
  /\ pc' = [pc EXCEPT ![r] = "served"]
  /\ UNCHANGED <<clock, now, began>>

\* Mutant of FetchFails: a failure is cached like a result.
FetchFailsCached(r) ==
  /\ pc[r] = "fetching"
  /\ cache' = [ts |-> now[r], flows |-> Empty]
  /\ served' = [served EXCEPT ![r] = Empty]
  /\ lock' = Nobody
  /\ pc' = [pc EXCEPT ![r] = "served"]
  /\ UNCHANGED <<clock, now, began, fetched>>

\* Mutant of FetchFails: the lock is not given back.
FetchFailsLocked(r) ==
  /\ pc[r] = "fetching"
  /\ served' = [served EXCEPT ![r] = Empty]
  /\ pc' = [pc EXCEPT ![r] = "served"]
  /\ UNCHANGED <<clock, lock, cache, now, began, fetched>>

\* HubbleUnavailableError: nothing is cached, the lock is given back.
FetchFails(r) ==
  /\ pc[r] = "fetching"
  /\ served' = [served EXCEPT ![r] = Empty]
  /\ lock' = Nobody
  /\ pc' = [pc EXCEPT ![r] = "served"]
  /\ UNCHANGED <<clock, cache, now, began, fetched>>

\* The request is answered and its locals are gone; the thread takes another.
Leave(r) ==
  /\ pc[r] = "served"
  /\ pc' = [pc EXCEPT ![r] = "away"]
  /\ now' = [now EXCEPT ![r] = 0]
  /\ served' = [served EXCEPT ![r] = Empty]
  /\ UNCHANGED <<clock, lock, cache, began, fetched>>

\* Time passes, but no CLI outlives its timeout.
Tick ==
  /\ clock < Horizon
  /\ lock # Nobody => clock - began < Timeout
  /\ clock' = clock + 1
  /\ UNCHANGED <<lock, cache, pc, now, began, served, fetched>>

Next ==
  \/ Tick
  \/ \E r \in Requests :
       \/ Arrive(r) \/ Hit(r) \/ Miss(r)
       \/ FetchSucceeds(r) \/ FetchFails(r) \/ Leave(r)

Spec == Init /\ [][Next]_vars

\* The timeout ends a fetch, and one who waits for the lock is woken when it is
\* free.  Python's lock promises nothing about who is next.
Fairness ==
  /\ WF_vars(\E r \in Requests : FetchSucceeds(r) \/ FetchFails(r))
  /\ WF_vars(\E r \in Requests : Hit(r) \/ Miss(r))

FairSpec == Spec /\ Fairness

----------------------------------------------------------------------------
(* Properties *)

TypeOK ==
  /\ clock \in Nat
  /\ lock \in Requests \union {Nobody}
  /\ cache \in {Empty} \union [ts : Nat, flows : Nat]
  /\ pc \in [Requests -> {"away", "waiting", "fetching", "served"}]
  /\ now \in [Requests -> Nat]
  /\ began \in Nat
  /\ served \in [Requests -> Nat \union {Empty}]
  /\ fetched \in Nat

\* Only one CLI runs at a time, and it is the one of the thread that holds the
\* lock (_fetch_flows_cached, single-flight).
SingleFlight == \A r \in Requests : pc[r] = "fetching" <=> lock = r

\* Whoever gets flows gets a list whose fetch began less than TTL before the
\* request arrived, however long it then waited for the lock.
Fresh ==
  \A r \in Requests :
    pc[r] = "served" /\ served[r] # Empty => now[r] - served[r] < TTL

\* However many viewers there are, in the long run the CLI succeeds at most once
\* per TTL: since the dashboard started there was at most one list more than TTLs
\* have gone by (_fetch_flows_cached).  Two of them may follow each other at once
\* all the same.  A list is stored under the time its request arrived, so one who
\* arrived TTL or more after that and waited fetches again when the lock is free;
\* the docstring says that all who waited reuse the list.
RateLimited == fetched > 0 => (fetched - 1) * TTL <= clock

Answers(r) == Hit(r) \/ FetchSucceeds(r) \/ FetchFails(r)

\* As long as requests wait, answers go on to be given: a CLI that hangs or
\* fails blocks the lock for its timeout only.  Which request is next is up to
\* the lock.
Progress ==
  <>[](\E r \in Requests : pc[r] = "waiting") => []<><<\E r \in Requests : Answers(r)>>_vars
============================================================================
