--------------------------- MODULE FlowCacheProofs ---------------------------
(***************************************************************************)
(* The shared list of flows for any number of request threads, any TTL and *)
(* any timeout: one CLI at a time, nobody is served stale flows, the rate  *)
(* of the fetches that succeed is limited.  The lock alone gives the first;*)
(* the other two need what Ordered says of the times a request carries.    *)
(***************************************************************************)
EXTENDS FlowCache, TLAPS

\* Times that were read lie in the past; a fetch began after its request read
\* the time, and while it runs the cache is still of no use to that request;
\* the cached flows are no older than the time they are stored under.
Ordered ==
  /\ began <= clock
  /\ \A r \in Requests :
       /\ now[r] <= clock
       /\ pc[r] = "fetching" => now[r] <= began /\ ~Valid(r)
  /\ cache # Empty => cache.ts <= cache.flows

FlowCacheInv == TypeOK /\ SingleFlight /\ Ordered

\* A cache that holds something is a record of two times.
LEMMA CacheType ==
  ASSUME TypeOK, cache # Empty
  PROVE  cache.ts \in Nat /\ cache.flows \in Nat
BY DEF TypeOK

----------------------------------------------------------------------------
(* The inductive invariant *)

LEMMA InitInv == Init => FlowCacheInv
BY FlowCacheAssumption DEF Init, FlowCacheInv, TypeOK, SingleFlight, Ordered, Valid

LEMMA StepType ==
  ASSUME TypeOK, [Next]_vars
  PROVE  TypeOK'
<1> USE FlowCacheAssumption DEF TypeOK
<1>1. CASE Tick
  BY <1>1 DEF Tick
<1>2. ASSUME NEW r \in Requests, Arrive(r) PROVE TypeOK'
  BY <1>2 DEF Arrive
<1>3. ASSUME NEW r \in Requests, Hit(r) PROVE TypeOK'
  BY <1>3, CacheType DEF Hit, Valid
<1>4. ASSUME NEW r \in Requests, Miss(r) PROVE TypeOK'
  BY <1>4 DEF Miss
<1>5. ASSUME NEW r \in Requests, FetchSucceeds(r) PROVE TypeOK'
  BY <1>5 DEF FetchSucceeds
<1>6. ASSUME NEW r \in Requests, FetchFails(r) PROVE TypeOK'
  BY <1>6 DEF FetchFails
<1>7. ASSUME NEW r \in Requests, Leave(r) PROVE TypeOK'
  BY <1>7 DEF Leave
<1>8. CASE UNCHANGED vars
  BY <1>8 DEF vars
<1> QED
  BY <1>1, <1>2, <1>3, <1>4, <1>5, <1>6, <1>7, <1>8 DEF Next

\* Only the thread that holds the lock fetches, and it gives the lock back in
\* the step that ends the fetch, with flows or without.
LEMMA StepSingleFlight ==
  ASSUME TypeOK, SingleFlight, [Next]_vars
  PROVE  SingleFlight'
<1> USE FlowCacheAssumption DEF TypeOK, SingleFlight
<1>1. CASE Tick
  BY <1>1 DEF Tick
<1>2. ASSUME NEW r \in Requests, Arrive(r) PROVE SingleFlight'
  BY <1>2 DEF Arrive
<1>3. ASSUME NEW r \in Requests, Hit(r) PROVE SingleFlight'
  BY <1>3 DEF Hit
<1>4. ASSUME NEW r \in Requests, Miss(r) PROVE SingleFlight'
  BY <1>4 DEF Miss
<1>5. ASSUME NEW r \in Requests, FetchSucceeds(r) PROVE SingleFlight'
  BY <1>5 DEF FetchSucceeds
<1>6. ASSUME NEW r \in Requests, FetchFails(r) PROVE SingleFlight'
  BY <1>6 DEF FetchFails
<1>7. ASSUME NEW r \in Requests, Leave(r) PROVE SingleFlight'
  BY <1>7 DEF Leave
<1>8. CASE UNCHANGED vars
  BY <1>8 DEF vars
<1> QED
  BY <1>1, <1>2, <1>3, <1>4, <1>5, <1>6, <1>7, <1>8 DEF Next

\* Single flight is what keeps the cache as a fetching request found it.
LEMMA StepOrdered ==
  ASSUME FlowCacheInv, [Next]_vars
  PROVE  Ordered'
<1> USE FlowCacheAssumption DEF FlowCacheInv, TypeOK, SingleFlight, Ordered, Valid
<1>1. CASE Tick
  BY <1>1 DEF Tick
<1>2. ASSUME NEW r \in Requests, Arrive(r) PROVE Ordered'
  BY <1>2 DEF Arrive
<1>3. ASSUME NEW r \in Requests, Hit(r) PROVE Ordered'
  BY <1>3 DEF Hit
<1>4. ASSUME NEW r \in Requests, Miss(r) PROVE Ordered'
  BY <1>4 DEF Miss
<1>5. ASSUME NEW r \in Requests, FetchSucceeds(r) PROVE Ordered'
  <2>1. \A q \in Requests : pc'[q] # "fetching"
    BY <1>5 DEF FetchSucceeds
  <2>2. cache' # Empty => cache'.ts <= cache'.flows
    BY <1>5 DEF FetchSucceeds
  <2> QED
    BY <1>5, <2>1, <2>2 DEF FetchSucceeds
<1>6. ASSUME NEW r \in Requests, FetchFails(r) PROVE Ordered'
  BY <1>6 DEF FetchFails
<1>7. ASSUME NEW r \in Requests, Leave(r) PROVE Ordered'
  BY <1>7 DEF Leave
<1>8. CASE UNCHANGED vars
  BY <1>8 DEF vars
<1> QED
  BY <1>1, <1>2, <1>3, <1>4, <1>5, <1>6, <1>7, <1>8 DEF Next

\* The lock, the cache and the times every request carries stay in their types,
\* at most one CLI runs and it is the lock holder's, and the times stay ordered
\* (_fetch_flows_cached).
THEOREM Invariance == Spec => []FlowCacheInv
<1>1. FlowCacheInv /\ [Next]_vars => FlowCacheInv'
  BY StepType, StepSingleFlight, StepOrdered DEF FlowCacheInv
<1> QED
  BY InitInv, <1>1, PTL DEF Spec

\* The cache holds flows or nothing, whatever fails (_fetch_flows_cached).
THEOREM TypeCorrect == Spec => []TypeOK
<1>1. FlowCacheInv => TypeOK
  BY DEF FlowCacheInv
<1> QED
  BY <1>1, Invariance, PTL

\* However many threads ask at once, one CLI runs, started by the thread that
\* holds _flows_lock, and a fetch that fails gives the lock back.
THEOREM OneFetchAtATime == Spec => []SingleFlight
<1>1. FlowCacheInv => SingleFlight
  BY DEF FlowCacheInv
<1> QED
  BY <1>1, Invariance, PTL

----------------------------------------------------------------------------
(* Freshness *)

\* Flows are handed out from the cache, if they were valid, or from a fetch that
\* began after the request had read its time.
LEMMA StepFresh ==
  ASSUME TTL > 0, FlowCacheInv, FlowCacheInv', Fresh, [Next]_vars
  PROVE  Fresh'
<1> USE FlowCacheAssumption DEF FlowCacheInv, TypeOK, Fresh
<1>1. CASE Tick
  BY <1>1 DEF Tick
<1>2. ASSUME NEW r \in Requests, Arrive(r) PROVE Fresh'
  BY <1>2 DEF Arrive
<1>3. ASSUME NEW r \in Requests, Hit(r) PROVE Fresh'
  <2>1. now[r] - cache.flows < TTL
    BY <1>3, CacheType DEF Hit, Valid, Ordered
  <2> QED
    BY <1>3, <2>1 DEF Hit
<1>4. ASSUME NEW r \in Requests, Miss(r) PROVE Fresh'
  BY <1>4 DEF Miss
<1>5. ASSUME NEW r \in Requests, FetchSucceeds(r) PROVE Fresh'
  <2>1. now[r] - began < TTL
    BY <1>5 DEF FetchSucceeds, Ordered
  <2> QED
    BY <1>5, <2>1 DEF FetchSucceeds
<1>6. ASSUME NEW r \in Requests, FetchFails(r) PROVE Fresh'
  BY <1>6 DEF FetchFails
<1>7. ASSUME NEW r \in Requests, Leave(r) PROVE Fresh'
  BY <1>7 DEF Leave
<1>8. CASE UNCHANGED vars
  BY <1>8 DEF vars
<1> QED
  BY <1>1, <1>2, <1>3, <1>4, <1>5, <1>6, <1>7, <1>8 DEF Next

\* With a TTL above zero nobody is served flows whose fetch began TTL or more
\* before the request arrived, whoever fetched them and however long the lock
\* was waited for.  A TTL of zero turns the cache off: a list is then as old as
\* its own request, and "less than TTL" says too much.
THEOREM ServedFresh == ASSUME TTL > 0 PROVE Spec => []Fresh
<1>1. Init => Fresh
  BY DEF Init, Fresh
<1>2. FlowCacheInv /\ FlowCacheInv' /\ Fresh /\ [Next]_vars => Fresh'
  BY StepFresh
<1> QED
  BY <1>1, <1>2, Invariance, PTL DEF Spec

----------------------------------------------------------------------------
(* The rate of the fetches *)

\* The time the cache is stored under moves on by TTL with every list but the
\* first, since what a request that fetches found in the cache is still there
\* when it stores its own.
Spaced ==
  /\ fetched = 0 <=> cache = Empty
  /\ cache # Empty => (fetched - 1) * TTL <= cache.ts /\ cache.ts <= clock

LEMMA OneMore ==
  ASSUME NEW n \in Nat, NEW step \in Nat, NEW low \in Nat, NEW high \in Nat,
         (n - 1) * step <= low, low + step <= high
  PROVE  n * step <= high
<1>1. n * step = (n - 1) * step + step
  OBVIOUS
<1>2. (n - 1) * step \in Int /\ n * step \in Int
  OBVIOUS
<1> QED
  BY <1>1, <1>2

LEMMA StepSpaced ==
  ASSUME FlowCacheInv, Spaced, [Next]_vars
  PROVE  Spaced'
<1> USE FlowCacheAssumption DEF FlowCacheInv, TypeOK
<1>1. ASSUME NEW r \in Requests, FetchSucceeds(r) PROVE Spaced'
  <2>1. /\ cache' = [ts |-> now[r], flows |-> began] /\ cache' # Empty
        /\ fetched' = fetched + 1 /\ clock' = clock
        /\ now[r] \in Nat /\ now[r] <= clock
    BY <1>1 DEF FetchSucceeds, Ordered
  <2>2. fetched * TTL <= now[r]
    <3>1. CASE cache = Empty
      BY <3>1 DEF Spaced
    <3>2. CASE cache # Empty
      <4>1. /\ cache.ts \in Nat /\ cache.ts + TTL <= now[r]
            /\ (fetched - 1) * TTL <= cache.ts
        BY <1>1, <3>2, CacheType DEF FetchSucceeds, Ordered, Valid, Spaced
      <4> QED
        BY <4>1, OneMore
    <3> QED
      BY <3>1, <3>2
  <2>3. (fetched' - 1) * TTL <= cache'.ts /\ cache'.ts <= clock' /\ fetched' # 0
    BY <2>1, <2>2
  <2> QED
    BY <2>1, <2>3 DEF Spaced
<1>2. CASE Tick
  <2>1. clock' = clock + 1 /\ UNCHANGED <<cache, fetched>>
    BY <1>2 DEF Tick
  <2> QED
    BY <2>1, CacheType DEF Spaced
<1>3. CASE UNCHANGED <<clock, cache, fetched>>
  BY <1>3 DEF Spaced
<1>4. \/ Tick \/ \E r \in Requests : FetchSucceeds(r)
      \/ UNCHANGED <<clock, cache, fetched>>
  BY DEF Next, Arrive, Hit, Miss, FetchFails, Leave, vars
<1> QED
  BY <1>1, <1>2, <1>3, <1>4

\* At any time at most one list more was fetched than TTLs have gone by since the
\* dashboard started, for any number of viewers and however long they wait for
\* _flows_lock (_fetch_flows_cached, single-flight and cache together).
THEOREM RateIsLimited == Spec => []RateLimited
<1>1. Init => Spaced
  BY DEF Init, Spaced
<1>2. FlowCacheInv /\ Spaced /\ [Next]_vars => Spaced'
  BY StepSpaced
<1>3. FlowCacheInv /\ Spaced => RateLimited
  <2> SUFFICES ASSUME FlowCacheInv, Spaced, fetched > 0 PROVE (fetched - 1) * TTL <= clock
    BY DEF RateLimited
  <2>1. cache # Empty /\ fetched - 1 \in Nat /\ clock \in Nat
    BY DEF Spaced, FlowCacheInv, TypeOK
  <2>2. /\ cache.ts \in Nat /\ (fetched - 1) * TTL \in Int
        /\ (fetched - 1) * TTL <= cache.ts /\ cache.ts <= clock
    BY <2>1, CacheType, FlowCacheAssumption DEF Spaced, FlowCacheInv
  <2> QED
    BY <2>1, <2>2
<1> QED
  BY <1>1, <1>2, <1>3, Invariance, PTL DEF Spec
=============================================================================
