----------------------------- MODULE MeshStatus -----------------------------
(***************************************************************************)
(* What is published about a round: the status of a NetworkHealthCheck     *)
(* (code/internal/controller/status.go) and the metrics of the manager     *)
(* (metrics.go).  The two caps of the code, 500 entries and 50 degraded    *)
(* pairs, are constants so that small meshes reach them; KeyRank stands    *)
(* for the order of the pair keys.                                         *)
(***************************************************************************)
EXTENDS Classifier

CONSTANTS
    MaxStatusEntries,   \* cap of status.reachability
    MaxDegradedPairs,   \* cap of status.degradedPairs
    KeyRank             \* position of each pair key in sorted order

ASSUME MeshStatusAssumption ==
    /\ MaxStatusEntries \in Nat /\ MaxDegradedPairs \in Nat
    /\ KeyRank \in [DOMAIN KeyRank -> Nat]
    /\ \A p, q \in DOMAIN KeyRank : KeyRank[p] = KeyRank[q] => p = q

\* The classifier's default, taken whatever the classifier is configured with.
StatusLossThreshold == 5

pairState(result) ==
    CASE ~result.success -> "failed"
      [] result.success /\ result.loss >= StatusLossThreshold -> "degraded"
      [] OTHER -> "healthy"

PairsIn(m, state) == {p \in DOMAIN m : pairState(m[p]) = state}

\* The first n keys of S in sorted order.
FirstKeys(S, n) == {p \in S : Cardinality({q \in S : KeyRank[q] < KeyRank[p]}) < n}

\* Mutant of Summary: the counts describe only the entries that are kept.
SummaryOfKept(m) ==
    [state \in {"healthy", "degraded", "failed"} |->
        Cardinality(PairsIn(m, state) \cap FirstKeys(DOMAIN m, MaxStatusEntries))]

\* status.reachabilitySummary counts the full matrix.
Summary(m) == [state \in {"healthy", "degraded", "failed"} |-> Cardinality(PairsIn(m, state))]

\* The Healthy condition of an object without a status.
NoCondition == [reason |-> "none", since |-> 0]

\* Mutant of TransitionTime: every round counts as a transition.
TransitionTimeNow(previous, reason) == 1 - previous.since

\* A condition whose reason stays keeps its time, any other takes the time of
\* the round.  Of times only this is told apart: the previous one or another.
TransitionTime(previous, reason) ==
    IF previous.reason = reason THEN previous.since ELSE 1 - previous.since

\* gen and previous, the generation and the condition, are those of the object
\* that was read before the round.
BuildStatus(gen, previous, verdict, m) ==
    [observedGeneration    |-> gen,
     verdict               |-> verdict,
     reachability          |-> [p \in FirstKeys(DOMAIN m, MaxStatusEntries) |-> m[p]],
     reachabilityTotal     |-> Cardinality(DOMAIN m),
     reachabilityTruncated |-> Cardinality(DOMAIN m) > MaxStatusEntries,
     reachabilitySummary   |-> Summary(m),
     degradedPairs         |-> FirstKeys(PairsIn(m, "degraded"), MaxDegradedPairs),
     conditionHealthy      |-> verdict.class = "Healthy",
     condition             |-> [reason |-> verdict.class,
                                since  |-> TransitionTime(previous, verdict.class)]]
\* WriteMetrics: the gauges of the recorded round.  It counts for itself.
Metrics(m, verdict) ==
    [pairReachable     |-> [p \in DOMAIN m |-> IF m[p].success THEN 1 ELSE 0],
     pairLossRate      |-> [p \in DOMAIN m |-> m[p].loss],
     meshHealth        |-> IF verdict.class = "Healthy" THEN 1 ELSE 0,
     classification    |-> [class |-> verdict.class, confidence |-> verdict.confidence],
     reachabilityPairs |-> [state \in {"healthy", "degraded", "failed", "nodata"} |->
                                IF state = "nodata" THEN IF DOMAIN m = {} THEN 1 ELSE 0
                                                    ELSE Cardinality(PairsIn(m, state))]]
=============================================================================
