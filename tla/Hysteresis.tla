----------------------------- MODULE Hysteresis -----------------------------
(***************************************************************************)
(* The per-pair hysteresis tracker (code/pkg/analysis/hysteresis.go) as    *)
(* operators on a tracker value: a record with the map of tracked pairs    *)
(* and the two thresholds.                                                 *)
(*                                                                         *)
(* The code's counters are ints that are only ever reset or compared with  *)
(* a threshold by >=, so here they stop at CounterCap.  For a CounterCap   *)
(* no smaller than the thresholds that makes no difference to any status;  *)
(* TrackerProofs proves it.                                                *)
(***************************************************************************)
EXTENDS Contract

CONSTANT CounterCap

ASSUME CounterCapAssumption == CounterCap \in Nat

PairHealthy == "PairHealthy"
PairDegraded == "PairDegraded"

PairState == [ConsecutiveFailures  : 0..CounterCap,
              ConsecutiveSuccesses : 0..CounterCap,
              Status               : {PairHealthy, PairDegraded}]

\* A pair that enters the tracker is healthy and has no history.
FreshPair == [ConsecutiveFailures  |-> 0,
              ConsecutiveSuccesses |-> 0,
              Status               |-> PairHealthy]

\* Config of pkg/analysis: the two thresholds; the loss threshold and the
\* confidence floor are constants of the classifier.
Config(ft, st) == [FailureThreshold |-> ft, SuccessThreshold |-> st]

DefaultConfig == Config(3, 2)

\* A threshold that is unset, zero or negative takes its default.
EffectiveFailureThreshold(ft) == IF ft <= 0 THEN DefaultConfig.FailureThreshold ELSE ft
EffectiveSuccessThreshold(st) == IF st <= 0 THEN DefaultConfig.SuccessThreshold ELSE st

\* Mutant of NewTracker: unset thresholds are taken as they are.
NewTrackerWithoutDefaults(cfg) ==
    [pairs            |-> [p \in {} |-> FreshPair],
     failureThreshold |-> cfg.FailureThreshold,
     successThreshold |-> cfg.SuccessThreshold]

NewTracker(cfg) ==
    [pairs            |-> [p \in {} |-> FreshPair],
     failureThreshold |-> EffectiveFailureThreshold(cfg.FailureThreshold),
     successThreshold |-> EffectiveSuccessThreshold(cfg.SuccessThreshold)]

\* GetState(p) /= nil
Tracked(t, p) == p \in DOMAIN t.pairs

StateOf(t, p) == IF Tracked(t, p) THEN t.pairs[p] ELSE FreshPair

Bump(n) == IF n < CounterCap THEN n + 1 ELSE n

\* Mutant of NextStatus: the thresholds are crossed one round early.
NextStatusEarly(t, status, failures, successes) ==
    CASE status = PairHealthy /\ failures + 1 >= t.failureThreshold -> PairDegraded
      [] status = PairDegraded /\ successes + 1 >= t.successThreshold -> PairHealthy
      [] OTHER -> status

\* Mutant of NextStatus: a threshold must be exceeded.
NextStatusLate(t, status, failures, successes) ==
    CASE status = PairHealthy /\ failures > t.failureThreshold -> PairDegraded
      [] status = PairDegraded /\ successes > t.successThreshold -> PairHealthy
      [] OTHER -> status

NextStatus(t, status, failures, successes) ==
    CASE status = PairHealthy /\ failures >= t.failureThreshold -> PairDegraded
      [] status = PairDegraded /\ successes >= t.successThreshold -> PairHealthy
      [] OTHER -> status

\* Mutant of UpdatedPair: a failure does not start the success count again.
UpdatedPairKeepingSuccesses(t, state, success) ==
    LET failures  == IF success THEN 0 ELSE Bump(state.ConsecutiveFailures)
        successes == IF success THEN Bump(state.ConsecutiveSuccesses)
                                ELSE state.ConsecutiveSuccesses
    IN  [ConsecutiveFailures  |-> failures,
         ConsecutiveSuccesses |-> successes,
         Status               |-> NextStatus(t, state.Status, failures, successes)]

\* One result for one pair: one counter advances, the other starts again, and
\* the status follows the counters of this same round.
UpdatedPair(t, state, success) ==
    LET failures  == IF success THEN 0 ELSE Bump(state.ConsecutiveFailures)
        successes == IF success THEN Bump(state.ConsecutiveSuccesses) ELSE 0
    IN  [ConsecutiveFailures  |-> failures,
         ConsecutiveSuccesses |-> successes,
         Status               |-> NextStatus(t, state.Status, failures, successes)]

\* Mutant of Update: pairs that are not tracked yet are passed over.
UpdateKnown(t, m) ==
    [t EXCEPT !.pairs =
        [p \in DOMAIN t.pairs |->
            IF p \in DOMAIN m THEN UpdatedPair(t, StateOf(t, p), m[p].success)
                              ELSE t.pairs[p]]]

\* A round touches only the pairs it measured; a pair that is not in the
\* matrix keeps the state it had.
Update(t, m) ==
    [t EXCEPT !.pairs =
        [p \in DOMAIN t.pairs \cup DOMAIN m |->
            IF p \in DOMAIN m THEN UpdatedPair(t, StateOf(t, p), m[p].success)
                              ELSE t.pairs[p]]]

\* What the filter reports for a result of a pair whose status is known: a
\* failure of a healthy pair is suppressed, a success of a degraded pair is
\* held back.  The AgentError flag is never touched.
Held(status, result) ==
    CASE status = PairHealthy /\ ~result.success ->
            [result EXCEPT !.success = TRUE, !.loss = 0, !.error = "suppressed"]
      [] status = PairDegraded /\ result.success ->
            [result EXCEPT !.success = FALSE, !.loss = 100, !.error = "pending"]
      [] OTHER -> result

\* Mutant of Stabilize: agent errors are filtered like any other result.
StabilizeEverything(t, m) ==
    [p \in DOMAIN m |-> IF Tracked(t, p) THEN Held(t.pairs[p].Status, m[p]) ELSE m[p]]

\* The library's filter: agent errors and untracked pairs pass through.
Stabilize(t, m) ==
    [p \in DOMAIN m |->
        IF ~Tracked(t, p) \/ m[p].agentError THEN m[p]
                                             ELSE Held(t.pairs[p].Status, m[p])]

DegradedPairs(t) == {p \in DOMAIN t.pairs : t.pairs[p].Status = PairDegraded}

Reset(t) == [t EXCEPT !.pairs = [p \in {} |-> FreshPair]]
=============================================================================
