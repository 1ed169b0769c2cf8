---------------------------- MODULE EwmaBaseline ----------------------------
(***************************************************************************)
(* The numbers behind the baseline that module Policy only counts:         *)
(* policy/baseline.py's exponentially weighted mean and variance of the    *)
(* error rate and of p99, the breach of their upper band, and the cycles   *)
(* of policy/engine.py that assess a snapshot and then learn from it.      *)
(*                                                                         *)
(* With _ALPHA = 1/5 every quantity is a fraction with a power of 5 below  *)
(* the line: the mean is mean / unit and the variance var / unit^2.  A     *)
(* metric is a whole number of some small step (0.1% of errors, 1 ms).     *)
(***************************************************************************)
EXTENDS Policy

CONSTANTS
  ErrorRates,      \* error rates a snapshot may show
  Latencies,       \* its p99, or None
  ErrorLimit,      \* thresholds.scaleUpErrorRate, or None
  LatencyLimit,    \* thresholds.maxP99LatencyMs, or None
  MaxSamples       \* bound on what is learnt between two restarts

ASSUME EwmaAssumption ==
  /\ ErrorRates \subseteq Nat
  /\ Latencies \subseteq OptionalNat
  /\ ErrorLimit \in OptionalNat
  /\ LatencyLimit \in OptionalNat
  /\ MaxSamples \in Nat
  /\ None \notin Levels

VARIABLES
  error,      \* _Stat of the error rate
  p99,        \* _Stat of the latency
  sample,     \* what the last cycle saw
  severity,   \* and how it was assessed
  learnt      \* auxiliary: per metric, the extremes and the last of what was learnt

vars == <<error, p99, sample, severity, learnt>>

NoStat   == [mean |-> 0, var |-> 0, unit |-> 1, count |-> 0]
Unlearnt == [low |-> None, high |-> None, last |-> None]
----------------------------------------------------------------------------
(* _Stat *)

\* x - mean, in units of the old mean.
Deviation(stat, x) == x * stat.unit - stat.mean

FirstSample(x) == [mean |-> x, var |-> 0, unit |-> 1, count |-> 1]

\* Mutant of Update: the deviation does not enter the variance.
UpdateOnlyAges(stat, x) ==
  LET d == Deviation(stat, x)
  IN  IF stat.count = 0 THEN FirstSample(x)
      ELSE [mean |-> 5 * stat.mean + d, var |-> 20 * stat.var,
            unit |-> 5 * stat.unit, count |-> stat.count + 1]

\* Mutant of Update: the deviation is not squared.
UpdateUnsquared(stat, x) ==
  LET d == Deviation(stat, x)
  IN  IF stat.count = 0 THEN FirstSample(x)
      ELSE [mean |-> 5 * stat.mean + d, var |-> 20 * stat.var + 4 * d * stat.unit,
            unit |-> 5 * stat.unit, count |-> stat.count + 1]

\* Mutant of Update: the first sample is weighed like the others, against 0.
UpdateFromZero(stat, x) ==
  LET d == Deviation(stat, x)
  IN  [mean |-> 5 * stat.mean + d, var |-> 20 * stat.var + 4 * d * d,
       unit |-> 5 * stat.unit, count |-> stat.count + 1]

\* _Stat.update: mean += diff/5, var = 4/5 (var + diff^2/5).
Update(stat, x) ==
  LET d == Deviation(stat, x)
  IN  IF stat.count = 0 THEN FirstSample(x)
      ELSE [mean |-> 5 * stat.mean + d, var |-> 20 * stat.var + 4 * d * d,
            unit |-> 5 * stat.unit, count |-> stat.count + 1]

\* _Stat.is_upper_breach: above mean + 3 stddev, or, with a flat history, above
\* one and a half times the mean; never with a history of zeros.
UpperBreach(stat, x) ==
  LET d == Deviation(stat, x)
  IN  IF stat.var = 0
      THEN stat.mean > 0 /\ 2 * x * stat.unit > 3 * stat.mean
      ELSE d > 0 /\ d * d > 9 * stat.var

----------------------------------------------------------------------------
(* assess_anomaly and Baseline.observe on numbers *)

\* The level of Policy a measured value has.
Level(stat, x, limit) ==
  LET over == limit # None /\ x > limit
  IN  IF UpperBreach(stat, x) THEN (IF over THEN "spike" ELSE "drift")
                              ELSE (IF over THEN "over" ELSE "normal")

Thresholds == [errorThreshold |-> ErrorLimit # None, latencyThreshold |-> LatencyLimit # None]

Snap(x, y) ==
  [status |-> "ok", error |-> Level(error, x, ErrorLimit),
   p99 |-> IF y = None THEN None ELSE Level(p99, y, LatencyLimit)]

\* What Policy keeps of the baseline.
Counted == [error |-> Smaller(error.count, MinSamples), p99 |-> Smaller(p99.count, MinSamples)]

Widen(seen, x) ==
  IF seen.last = None THEN [low |-> x, high |-> x, last |-> x]
  ELSE [low |-> Smaller(seen.low, x), high |-> Larger(seen.high, x), last |-> x]

\* Mutant of Observed: a latency that is missing is learnt as 0.
ObservedAsZero(x, y) ==
  LET z == IF y = None THEN 0 ELSE y
  IN  /\ error'  = Update(error, x)
      /\ p99'    = Update(p99, z)
      /\ learnt' = [error |-> Widen(learnt.error, x), p99 |-> Widen(learnt.p99, z)]

\* Baseline.observe
Observed(x, y) ==
  /\ error'  = Update(error, x)
  /\ p99'    = IF y = None THEN p99 ELSE Update(p99, y)
  /\ learnt' = [error |-> Widen(learnt.error, x),
                p99   |-> IF y = None THEN learnt.p99 ELSE Widen(learnt.p99, y)]

Init ==
  /\ error = NoStat
  /\ p99 = NoStat
  /\ sample = [error |-> None, p99 |-> None]
  /\ severity = "none"
  /\ learnt = [error |-> Unlearnt, p99 |-> Unlearnt]

\* Mutant of Cycle: a critical snapshot is learnt, too.
CycleLearnsAll(x, y) ==
  /\ error.count < MaxSamples
  /\ sample' = [error |-> x, p99 |-> y]
  /\ severity' = Severity(Thresholds, Snap(x, y), Counted)
  /\ Observed(x, y)

\* evaluate (B): assess first, then learn, unless it is critical.
Cycle(x, y) ==
  /\ error.count < MaxSamples
  /\ sample' = [error |-> x, p99 |-> y]
  /\ severity' = Severity(Thresholds, Snap(x, y), Counted)
  /\ IF severity' = "critical" THEN UNCHANGED <<error, p99, learnt>> ELSE Observed(x, y)

\* The process restarts with empty _BASELINES.
Restart ==
  /\ error' = NoStat
  /\ p99' = NoStat
  /\ sample' = [error |-> None, p99 |-> None]
  /\ severity' = "none"
  /\ learnt' = [error |-> Unlearnt, p99 |-> Unlearnt]

Next == Restart \/ \E x \in ErrorRates, y \in Latencies : Cycle(x, y)

Spec == Init /\ [][Next]_vars
----------------------------------------------------------------------------
(* Properties *)

Stat == [mean : Nat, var : Nat, unit : Nat \ {0}, count : Nat]

Extremes == [low : OptionalNat, high : OptionalNat, last : OptionalNat]

\* Types; a history knows its extremes exactly when it has samples.
TypeOK ==
  /\ error \in Stat
  /\ p99 \in Stat
  /\ sample \in [error : OptionalNat, p99 : OptionalNat]
  /\ severity \in {"none", "warning", "critical"}
  /\ learnt \in [error : Extremes, p99 : Extremes]
  /\ (error.count = 0) = (learnt.error.last = None)
  /\ (p99.count = 0) = (learnt.p99.last = None)

MeanBetween(stat, seen) ==
  seen.last # None =>
    seen.low * stat.unit <= stat.mean /\ stat.mean <= seen.high * stat.unit

\* The mean never leaves the range of what was learnt, whatever the order of
\* the samples and however many are left out as critical (_Stat.update).
MeanWithinLearnt == MeanBetween(error, learnt.error) /\ MeanBetween(p99, learnt.p99)

\* What was learnt last is no breach of the band any more: a plateau below the
\* static limit is reported for one cycle only, and an outage that was learnt
\* as a warning does not become critical by going on (_Stat.update with
\* _Stat.is_upper_breach, evaluate (B)).
Absorbed ==
  /\ learnt.error.last # None => ~UpperBreach(error, learnt.error.last)
  /\ learnt.p99.last # None => ~UpperBreach(p99, learnt.p99.last)

AtLeast(new, old) ==
  /\ new.error >= old.error
  /\ old.p99 # None => new.p99 # None /\ new.p99 >= old.p99

\* A critical state of affairs that does not get better stays critical: the
\* cycles of it leave the baseline alone (evaluate (B), "contamination").
CriticalPersists ==
  [][\A x \in ErrorRates, y \in Latencies :
       Cycle(x, y) /\ severity = "critical" /\ AtLeast(sample', sample)
         => severity' = "critical"]_vars

\* Without a p99 there is no critical anomaly, whatever the error rate: the
\* warmup waits for both metrics (Baseline.warm), and a collector without
\* latency (metrics/hubble_collector.py) never provides the second.
BlindNeverCritical == severity = "critical" => learnt.p99.last # None

\* The counters of Policy follow the numbers: every cycle learns in Policy
\* exactly what it learns here (Baseline.observe against Policy!Observe).
CountsAsPolicy ==
  [][\A x \in ErrorRates, y \in Latencies :
       Cycle(x, y) => Counted' = Learn(Thresholds, Snap(x, y), Counted)]_vars
============================================================================
