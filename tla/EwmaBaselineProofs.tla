------------------------- MODULE EwmaBaselineProofs -------------------------
(***************************************************************************)
(* The EWMA baseline of EwmaBaseline for every pair of thresholds, every   *)
(* set of values and any number of samples: its mean stays among what was  *)
(* learnt, and what was learnt last is never a breach.                     *)
(***************************************************************************)
EXTENDS EwmaBaseline, TLAPS

(* Arithmetic on whole numbers *)

LEMMA SquareIsNat ==
  ASSUME NEW d \in Int
  PROVE  d * d \in Nat
<1>1. d * d \in Int /\ d * d >= 0
  BY SMTT(30)
<1> QED
  BY <1>1

LEMMA ProductMonotonic ==
  ASSUME NEW a \in Nat, NEW b \in Nat, NEW u \in Nat, a <= b
  PROVE  a * u <= b * u /\ a * u \in Nat /\ b * u \in Nat
<1>1. PICK c \in Nat : b = a + c
  <2>1. b - a \in Nat /\ b = a + (b - a)
    OBVIOUS
  <2> QED
    BY <2>1
<1>2. b * u = a * u + c * u
  BY <1>1
<1>3. a * u \in Nat /\ c * u \in Nat
  BY SMTT(30)
<1> QED
  BY <1>2, <1>3

----------------------------------------------------------------------------
(* One update *)

LEMMA DeviationType ==
  ASSUME NEW stat \in Stat, NEW x \in Nat
  PROVE  Deviation(stat, x) \in Int
BY DEF Deviation, Stat

LEMMA UpdateType ==
  ASSUME NEW stat \in Stat, NEW x \in Nat
  PROVE  Update(stat, x) \in Stat /\ Update(stat, x).count > 0
<1> DEFINE d == Deviation(stat, x)
<1>1. CASE stat.count = 0
  BY <1>1 DEF Update, FirstSample, Stat
<1>2. CASE stat.count # 0
  <2>1. d \in Int /\ d * d \in Nat
    BY DeviationType, SquareIsNat
  <2>2. stat.mean \in Nat /\ stat.var \in Nat /\ stat.unit \in Nat \ {0} /\ stat.count \in Nat
    BY DEF Stat
  <2>3. x * stat.unit \in Nat
    BY <2>2, SMTT(30)
  <2>4. 5 * stat.mean + d \in Nat
    BY <2>2, <2>3 DEF Deviation
  <2>5. 20 * stat.var + 4 * (d * d) \in Nat
    BY <2>1, <2>2
  <2>6. 4 * d * d = 4 * (d * d)
    BY <2>1
  <2> HIDE DEF d
  <2>7. Update(stat, x) = [mean |-> 5 * stat.mean + d, var |-> 20 * stat.var + 4 * d * d,
                           unit |-> 5 * stat.unit, count |-> stat.count + 1]
    BY <1>2 DEF Update, d
  <2> QED
    BY <2>2, <2>4, <2>5, <2>6, <2>7 DEF Stat
<1> QED
  BY <1>1, <1>2

\* The heart of the matter: having learnt x, the band lies above x.
LEMMA UpdateAbsorbs ==
  ASSUME NEW stat \in Stat, NEW x \in Nat
  PROVE  ~UpperBreach(Update(stat, x), x)
<1> DEFINE d    == Deviation(stat, x)
           next == Update(stat, x)
<1>1. stat.mean \in Nat /\ stat.var \in Nat /\ stat.unit \in Nat \ {0}
  BY DEF Stat
<1>2. CASE stat.count = 0
  <2>1. next.mean = x /\ next.var = 0 /\ next.unit = 1
    BY <1>2 DEF Update, FirstSample
  <2> HIDE DEF next
  <2>2. ~UpperBreach(next, x)
    BY <2>1 DEF UpperBreach
  <2> QED
    BY <2>2 DEF next
<1>3. CASE stat.count # 0
  <2>1. d \in Int /\ d * d \in Nat
    BY DeviationType, SquareIsNat
  <2>2. /\ next.mean = 5 * stat.mean + d
        /\ next.var = 20 * stat.var + 4 * d * d
        /\ next.unit = 5 * stat.unit
    BY <1>3 DEF Update
  <2>3. d = x * stat.unit - stat.mean /\ x * stat.unit \in Int
    BY <1>1 DEF Deviation
  <2>4. x * (5 * stat.unit) = 5 * (x * stat.unit)
    BY <1>1
  <2> HIDE DEF d, next
  <2>5. Deviation(next, x) = 4 * d
    BY <1>1, <2>1, <2>2, <2>3, <2>4 DEF Deviation
  <2>6. (4 * d) * (4 * d) = 16 * (d * d) /\ 4 * d * d = 4 * (d * d)
    BY <2>1
  <2>7. CASE next.var = 0
    <3>1. d * d = 0
      BY <1>1, <2>1, <2>2, <2>6, <2>7
    <3>2. d = 0
      BY <2>1, <3>1, SMTT(30)
    <3>3. next.mean = 5 * stat.mean /\ x * next.unit = 5 * stat.mean
      BY <1>1, <2>2, <2>3, <2>4, <3>2
    <3>4. 2 * x * next.unit = 2 * (x * next.unit)
      BY <1>1, <2>2
    <3>5. ~(2 * x * next.unit > 3 * next.mean) \/ ~(next.mean > 0)
      BY <1>1, <3>3, <3>4
    <3> QED
      BY <2>7, <3>5 DEF UpperBreach, next
  <2>8. CASE next.var # 0
    <3>1. ~(16 * (d * d) > 9 * next.var)
      BY <1>1, <2>1, <2>2, <2>6
    <3> QED
      BY <2>5, <2>6, <2>8, <3>1 DEF UpperBreach, next
  <2> QED
    BY <2>7, <2>8
<1> QED
  BY <1>2, <1>3

\* A mean between two bounds stays between them when they make room for x.
LEMMA UpdateBetween ==
  ASSUME NEW stat \in Stat, NEW x \in Nat, NEW low \in Nat, NEW high \in Nat,
         stat.count # 0,
         low * stat.unit <= stat.mean, stat.mean <= high * stat.unit
  PROVE  /\ Smaller(low, x) * Update(stat, x).unit <= Update(stat, x).mean
         /\ Update(stat, x).mean <= Larger(high, x) * Update(stat, x).unit
<1> DEFINE u == stat.unit
           m == stat.mean
           lo == Smaller(low, x)
           hi == Larger(high, x)
<1>1. u \in Nat /\ m \in Nat /\ lo \in Nat /\ hi \in Nat
  BY DEF Stat, Smaller, Larger
<1>2. lo <= low /\ lo <= x /\ high <= hi /\ x <= hi
  BY DEF Smaller, Larger
<1>3. Update(stat, x).unit = 5 * u /\ Update(stat, x).mean = 5 * m + (x * u - m)
  BY DEF Update, Deviation
<1> HIDE DEF u, m, lo, hi
<1>4. lo * u <= low * u /\ lo * u <= x * u /\ high * u <= hi * u /\ x * u <= hi * u
  BY <1>1, <1>2, ProductMonotonic
<1>5. lo * (5 * u) = 5 * (lo * u) /\ hi * (5 * u) = 5 * (hi * u)
  BY <1>1
<1>6. /\ lo * u \in Nat /\ hi * u \in Nat /\ x * u \in Nat
      /\ low * u \in Nat /\ high * u \in Nat
  BY <1>1, SMTT(30)
<1>7. low * u <= m /\ m <= high * u
  BY DEF u, m
<1>8. /\ 5 * (lo * u) <= 5 * m + (x * u - m)
      /\ 5 * m + (x * u - m) <= 5 * (hi * u)
  BY <1>1, <1>4, <1>6, <1>7
<1>9. /\ lo * Update(stat, x).unit <= Update(stat, x).mean
      /\ Update(stat, x).mean <= hi * Update(stat, x).unit
  BY <1>3, <1>5, <1>8
<1> QED
  BY <1>9 DEF lo, hi

----------------------------------------------------------------------------
(* The inductive invariant *)

\* One metric's numbers and the history they summarise.
Tracks(stat, seen) ==
  /\ stat \in Stat
  /\ seen \in Extremes
  /\ (stat.count = 0) = (seen.last = None)
  /\ seen.last # None => seen.low \in Nat /\ seen.high \in Nat
  /\ MeanBetween(stat, seen)
  /\ seen.last # None => ~UpperBreach(stat, seen.last)

\* A critical assessment stands on a baseline that has not moved since.
Standing ==
  severity = "critical" =>
    /\ sample.error \in Nat
    /\ Severity(Thresholds, Snap(sample.error, sample.p99), Counted) = "critical"

Inv ==
  /\ learnt \in [error : Extremes, p99 : Extremes]
  /\ Tracks(error, learnt.error)
  /\ Tracks(p99, learnt.p99)
  /\ sample \in [error : OptionalNat, p99 : OptionalNat]
  /\ severity \in {"none", "warning", "critical"}
  /\ Standing

LEMMA TracksNothing == Tracks(NoStat, Unlearnt)
BY DEF Tracks, NoStat, Unlearnt, Stat, Extremes, OptionalNat, MeanBetween

LEMMA TracksUpdate ==
  ASSUME NEW stat, NEW seen, Tracks(stat, seen), NEW x \in Nat
  PROVE  Tracks(Update(stat, x), Widen(seen, x))
<1> DEFINE next == Update(stat, x)
           wide == Widen(seen, x)
<1>1. stat \in Stat /\ next \in Stat /\ next.count > 0 /\ next.count \in Nat
  BY UpdateType DEF Tracks, Stat
<1>2. wide.last = x /\ x # None
  BY NoneAssumption DEF Widen
<1>3. ~UpperBreach(next, x)
  BY <1>1, UpdateAbsorbs
<1>4. /\ wide \in Extremes /\ wide.low \in Nat /\ wide.high \in Nat
      /\ wide.low * next.unit <= next.mean
      /\ next.mean <= wide.high * next.unit
  <2>1. CASE seen.last = None
    <3>1. stat.count = 0
      BY <2>1 DEF Tracks
    <3>2. next.mean = x /\ next.unit = 1
      BY <3>1 DEF Update, FirstSample
    <3>3. wide = [low |-> x, high |-> x, last |-> x]
      BY <2>1 DEF Widen
    <3> HIDE DEF next, wide
    <3> QED
      BY <3>2, <3>3 DEF Extremes, OptionalNat
  <2>2. CASE seen.last # None
    <3>1. /\ seen.low \in Nat /\ seen.high \in Nat /\ stat.count # 0
          /\ seen.low * stat.unit <= stat.mean /\ stat.mean <= seen.high * stat.unit
      BY <2>2 DEF Tracks, MeanBetween
    <3>2. wide = [low |-> Smaller(seen.low, x), high |-> Larger(seen.high, x), last |-> x]
      BY <2>2 DEF Widen
    <3>3. /\ Smaller(seen.low, x) * next.unit <= next.mean
          /\ next.mean <= Larger(seen.high, x) * next.unit
      BY <1>1, <3>1, UpdateBetween
    <3>4. Smaller(seen.low, x) \in Nat /\ Larger(seen.high, x) \in Nat
      BY <3>1 DEF Smaller, Larger
    <3> HIDE DEF next, wide
    <3> QED
      BY <3>2, <3>3, <3>4 DEF Extremes, OptionalNat
  <2> QED
    BY <2>1, <2>2
<1> HIDE DEF next, wide
<1>5. Tracks(next, wide)
  BY <1>1, <1>2, <1>3, <1>4 DEF Tracks, MeanBetween
<1> QED
  BY <1>5 DEF next, wide

LEMMA SeverityType ==
  ASSUME NEW cr, NEW snap, NEW base
  PROVE  Severity(cr, snap, base) \in {"none", "warning", "critical"}
BY DEF Severity

LEMMA InvInit == Init => Inv
<1> SUFFICES ASSUME Init PROVE Inv
  OBVIOUS
<1>1. Unlearnt \in Extremes /\ None \in OptionalNat
  BY DEF Unlearnt, Extremes, OptionalNat
<1> QED
  BY <1>1, TracksNothing DEF Init, Inv, Standing

LEMMA InvRestart == Inv /\ Restart => Inv'
<1> SUFFICES ASSUME Inv, Restart PROVE Inv'
  OBVIOUS
<1>1. Unlearnt \in Extremes /\ None \in OptionalNat
  BY DEF Unlearnt, Extremes, OptionalNat
<1> QED
  BY <1>1, TracksNothing DEF Restart, Inv, Standing

LEMMA InvCycle ==
  ASSUME Inv, NEW x \in ErrorRates, NEW y \in Latencies, Cycle(x, y)
  PROVE  Inv'
<1>1. x \in Nat /\ y \in OptionalNat
  BY EwmaAssumption
<1>2. sample' = [error |-> x, p99 |-> y] /\ sample' \in [error : OptionalNat, p99 : OptionalNat]
  BY <1>1 DEF Cycle, OptionalNat
<1>3. severity' = Severity(Thresholds, Snap(x, y), Counted)
  BY DEF Cycle
<1>4. severity' \in {"none", "warning", "critical"}
  BY <1>3, SeverityType
<1>5. CASE severity' = "critical"
  <2>1. UNCHANGED <<error, p99, learnt>>
    BY <1>5 DEF Cycle
  <2>2. /\ sample'.error = x /\ sample'.p99 = y
        /\ Snap(x, y)' = Snap(x, y) /\ Counted' = Counted
    BY <1>2, <2>1 DEF Snap, Counted
  <2>3. Standing'
    BY <1>1, <1>2, <1>3, <2>1, <2>2 DEF Standing, Snap, Counted
  <2> QED
    BY <1>2, <1>4, <2>1, <2>3 DEF Inv
<1>6. CASE severity' # "critical"
  <2>1. Observed(x, y)
    BY <1>6 DEF Cycle
  <2>2. Tracks(error', learnt'.error)
    BY <1>1, <2>1, TracksUpdate DEF Inv, Observed
  <2>3. Tracks(p99', learnt'.p99)
    <3>1. CASE y = None
      BY <2>1, <3>1 DEF Inv, Observed
    <3>2. CASE y # None
      BY <1>1, <2>1, <3>2, TracksUpdate DEF Inv, Observed, OptionalNat
    <3> QED
      BY <3>1, <3>2
  <2>4. learnt' \in [error : Extremes, p99 : Extremes]
    BY <2>1, <2>2, <2>3 DEF Observed, Tracks
  <2>5. Standing'
    BY <1>6 DEF Standing
  <2> QED
    BY <1>2, <1>4, <2>2, <2>3, <2>4, <2>5 DEF Inv
<1> QED
  BY <1>5, <1>6

LEMMA InvStep == Inv /\ [Next]_vars => Inv'
<1> SUFFICES ASSUME Inv, [Next]_vars PROVE Inv'
  OBVIOUS
<1>1. CASE UNCHANGED vars
  <2>1. UNCHANGED <<error, p99, sample, severity, learnt>>
    BY <1>1 DEF vars
  <2> QED
    BY <2>1 DEF Inv, Standing, Snap, Counted, MeanBetween, Tracks
<1> QED
  BY <1>1, InvRestart, InvCycle DEF Next

THEOREM BaselineInvariant == Spec => []Inv
BY InvInit, InvStep, PTL DEF Spec

----------------------------------------------------------------------------
(* What follows *)

\* Every variable keeps its type.
THEOREM BaselineTypeCorrect == Spec => []TypeOK
<1>1. Inv => TypeOK
  BY DEF Inv, Tracks, TypeOK
<1> QED
  BY <1>1, BaselineInvariant, PTL

\* The mean stays within the smallest and the largest sample that was learnt,
\* after any number of them.
THEOREM MeanStaysWithin == Spec => []MeanWithinLearnt
<1>1. Inv => MeanWithinLearnt
  BY DEF Inv, Tracks, MeanWithinLearnt
<1> QED
  BY <1>1, BaselineInvariant, PTL

\* What was learnt last is no breach, for every history: an anomaly that the
\* baseline alone sees is reported for one cycle, however long it lasts.
THEOREM LearntIsAbsorbed == Spec => []Absorbed
<1>1. Inv => Absorbed
  BY DEF Inv, Tracks, Absorbed
<1> QED
  BY <1>1, BaselineInvariant, PTL

\* A source without latency never sees a critical anomaly.
THEOREM BlindStaysBelowCritical == Spec => []BlindNeverCritical
<1>1. Inv => BlindNeverCritical
  <2> SUFFICES ASSUME Inv, severity = "critical" PROVE learnt.p99.last # None
    BY DEF BlindNeverCritical
  <2>1. Warm(Counted)
    BY DEF Inv, Standing, Severity, EwmaBreach
  <2>2. p99.count \in Nat
    BY DEF Inv, Tracks, Stat
  <2>3. p99.count # 0
    BY <2>1, <2>2, MinSamplesAssumption DEF Warm, Counted, Smaller
  <2> QED
    BY <2>3 DEF Inv, Tracks
<1> QED
  BY <1>1, BaselineInvariant, PTL

----------------------------------------------------------------------------
(* A critical state of affairs lasts *)

\* A larger value breaches whatever a smaller one does.
LEMMA BreachMonotonic ==
  ASSUME NEW stat \in Stat, NEW x \in Nat, NEW z \in Nat, x <= z, UpperBreach(stat, x)
  PROVE  UpperBreach(stat, z)
<1> DEFINE u == stat.unit
           d == Deviation(stat, x)
           e == Deviation(stat, z)
<1>1. u \in Nat /\ stat.mean \in Nat /\ stat.var \in Nat
  BY DEF Stat
<1>2. x * u <= z * u /\ x * u \in Nat /\ z * u \in Nat
  BY <1>1, ProductMonotonic
<1>3. d = x * u - stat.mean /\ e = z * u - stat.mean
  BY DEF Deviation
<1>4. 2 * x * u = 2 * (x * u) /\ 2 * z * u = 2 * (z * u)
  BY <1>1
<1>5. CASE stat.var = 0
  <2>1. stat.mean > 0 /\ 2 * (x * u) > 3 * stat.mean
    BY <1>4, <1>5 DEF UpperBreach
  <2>2. 2 * (z * u) > 3 * stat.mean
    BY <1>1, <1>2, <2>1
  <2> QED
    BY <1>4, <1>5, <2>1, <2>2 DEF UpperBreach
<1>6. CASE stat.var # 0
  <2>1. d > 0 /\ d * d > 9 * stat.var
    BY <1>6 DEF UpperBreach
  <2> HIDE DEF d, e, u
  <2>2. d \in Nat /\ e \in Nat /\ d <= e
    BY <1>1, <1>2, <1>3, <2>1
  <2>3. d * d <= e * d /\ d * e <= e * e /\ e * d = d * e
    BY <2>2, ProductMonotonic
  <2>4. d * d \in Nat /\ e * e \in Nat /\ d * e \in Nat
    BY <2>2, SMTT(30)
  <2>5. e > 0 /\ e * e > 9 * stat.var
    BY <1>1, <2>1, <2>2, <2>3, <2>4
  <2> QED
    BY <1>6, <2>5 DEF UpperBreach, e
<1> QED
  BY <1>5, <1>6

LEMMA LevelMonotonic ==
  ASSUME NEW stat \in Stat, NEW x \in Nat, NEW z \in Nat, x <= z,
         NEW limit \in OptionalNat, Level(stat, x, limit) = "spike"
  PROVE  Level(stat, z, limit) = "spike"
<1>1. UpperBreach(stat, x) /\ limit # None /\ x > limit
  BY DEF Level
<1>2. UpperBreach(stat, z) /\ z > limit
  BY <1>1, BreachMonotonic DEF OptionalNat
<1> QED
  BY <1>1, <1>2 DEF Level

\* Critical is one metric at "spike" under a warm baseline.
LEMMA CriticalIsSpike ==
  ASSUME NEW x, NEW y
  PROVE  (Severity(Thresholds, Snap(x, y), Counted) = "critical") <=>
           /\ Warm(Counted)
           /\ \/ ErrorLimit # None /\ Level(error, x, ErrorLimit) = "spike"
              \/ LatencyLimit # None /\ y # None /\ Level(p99, y, LatencyLimit) = "spike"
<1> DEFINE snap == Snap(x, y)
<1>1. /\ snap.error = Level(error, x, ErrorLimit)
      /\ snap.p99 = IF y = None THEN None ELSE Level(p99, y, LatencyLimit)
      /\ Thresholds.errorThreshold = (ErrorLimit # None)
      /\ Thresholds.latencyThreshold = (LatencyLimit # None)
  BY DEF Snap, Thresholds
<1> HIDE DEF snap
<1>2. None # "spike" /\ None # "over" /\ None # "drift"
  BY EwmaAssumption DEF Levels
<1>3. (Severity(Thresholds, snap, Counted) = "critical") <=>
        /\ Warm(Counted)
        /\ \/ Thresholds.errorThreshold /\ snap.error = "spike"
           \/ Thresholds.latencyThreshold /\ snap.p99 = "spike"
  <2>1. ASSUME NEW level, NEW isSet \in BOOLEAN
        PROVE  (StaticBreach(level, isSet) /\ EwmaBreach(level, isSet, Counted))
                 <=> (isSet /\ level = "spike" /\ Warm(Counted))
    BY DEF StaticBreach, EwmaBreach
  <2>2. Thresholds.errorThreshold \in BOOLEAN /\ Thresholds.latencyThreshold \in BOOLEAN
    BY DEF Thresholds
  <2> QED
    BY <2>1, <2>2 DEF Severity
<1>4. snap.p99 = "spike" <=> (y # None /\ Level(p99, y, LatencyLimit) = "spike")
  BY <1>1, <1>2
<1> QED
  BY <1>1, <1>3, <1>4 DEF snap

\* As long as nothing gets better, what was critical stays critical, for every
\* history and however long it lasts: the baseline does not get used to it.
THEOREM CriticalLasts == Spec => CriticalPersists
<1>1. ASSUME Inv, NEW x \in ErrorRates, NEW y \in Latencies, Cycle(x, y),
             severity = "critical", AtLeast(sample', sample)
      PROVE  severity' = "critical"
  <2>1. x \in Nat /\ y \in OptionalNat /\ sample.error \in Nat /\ sample.p99 \in OptionalNat
    BY <1>1, EwmaAssumption DEF Inv, Standing
  <2>2. /\ x >= sample.error
        /\ sample.p99 # None => y # None /\ y >= sample.p99
    BY <1>1 DEF Cycle, AtLeast
  <2>3. error \in Stat /\ p99 \in Stat
    BY <1>1 DEF Inv, Tracks
  <2>4. /\ Warm(Counted)
        /\ \/ ErrorLimit # None /\ Level(error, sample.error, ErrorLimit) = "spike"
           \/ /\ LatencyLimit # None /\ sample.p99 # None
              /\ Level(p99, sample.p99, LatencyLimit) = "spike"
    BY <1>1, CriticalIsSpike DEF Inv, Standing
  <2>5. Level(error, sample.error, ErrorLimit) = "spike" => Level(error, x, ErrorLimit) = "spike"
    BY <2>1, <2>2, <2>3, LevelMonotonic, EwmaAssumption
  <2>6. sample.p99 # None /\ Level(p99, sample.p99, LatencyLimit) = "spike"
          => Level(p99, y, LatencyLimit) = "spike"
    BY <2>1, <2>2, <2>3, LevelMonotonic, EwmaAssumption DEF OptionalNat
  <2>7. severity' = Severity(Thresholds, Snap(x, y), Counted)
    BY <1>1 DEF Cycle
  <2> QED
    BY <2>2, <2>4, <2>5, <2>6, <2>7, CriticalIsSpike
<1>2. Inv /\ [Next]_vars =>
        [\A x \in ErrorRates, y \in Latencies :
           Cycle(x, y) /\ severity = "critical" /\ AtLeast(sample', sample)
             => severity' = "critical"]_vars
  BY <1>1
<1> QED
  BY <1>2, BaselineInvariant, PTL DEF Spec, CriticalPersists

----------------------------------------------------------------------------
(* The counters of Policy *)

\* Counting up to MinSamples, as Policy does, loses nothing: what it learns from
\* the level of a value is what the numbers learn from the value.
THEOREM CountingIsEnough == Spec => CountsAsPolicy
<1>1. ASSUME Inv, NEW x \in ErrorRates, NEW y \in Latencies, Cycle(x, y)
      PROVE  Counted' = Learn(Thresholds, Snap(x, y), Counted)
  <2>1. severity' = Severity(Thresholds, Snap(x, y), Counted)
    BY <1>1 DEF Cycle
  <2>2. Snap(x, y).status = "ok"
    BY DEF Snap
  <2>3. CASE severity' = "critical"
    BY <1>1, <2>1, <2>3 DEF Cycle, Counted, Learn
  <2>4. CASE severity' # "critical"
    <3>1. Observed(x, y)
      BY <1>1, <2>4 DEF Cycle
    <3>2. ASSUME NEW stat \in Stat, NEW z
          PROVE  Smaller(Update(stat, z).count, MinSamples)
                   = Smaller(Smaller(stat.count, MinSamples) + 1, MinSamples)
      BY MinSamplesAssumption DEF Update, FirstSample, Stat, Smaller
    <3>3. error \in Stat /\ p99 \in Stat
      BY <1>1 DEF Inv, Tracks
    <3>4. (Snap(x, y).p99 = None) <=> (y = None)
      BY EwmaAssumption DEF Snap, Level, Levels
    <3>5. Learn(Thresholds, Snap(x, y), Counted) = Observe(Counted, Snap(x, y))
      BY <2>1, <2>2, <2>4 DEF Learn
    <3>6. Observe(Counted, Snap(x, y)) =
            [error |-> Smaller(Smaller(error.count, MinSamples) + 1, MinSamples),
             p99   |-> IF y = None THEN Smaller(p99.count, MinSamples)
                       ELSE Smaller(Smaller(p99.count, MinSamples) + 1, MinSamples)]
      BY <3>4 DEF Observe, Counted
    <3>7. /\ Smaller(error'.count, MinSamples)
               = Smaller(Smaller(error.count, MinSamples) + 1, MinSamples)
          /\ Smaller(p99'.count, MinSamples)
               = IF y = None THEN Smaller(p99.count, MinSamples)
                 ELSE Smaller(Smaller(p99.count, MinSamples) + 1, MinSamples)
      BY <3>1, <3>2, <3>3 DEF Observed
    <3> QED
      BY <3>5, <3>6, <3>7 DEF Counted
  <2> QED
    BY <2>3, <2>4
<1>2. Inv /\ [Next]_vars =>
        [\A x \in ErrorRates, y \in Latencies :
           Cycle(x, y) => Counted' = Learn(Thresholds, Snap(x, y), Counted)]_vars
  BY <1>1
<1> QED
  BY <1>2, BaselineInvariant, PTL DEF Spec, CountsAsPolicy
============================================================================
