----------------------------- MODULE MeshRounds -----------------------------
(***************************************************************************)
(* A manager's probe rounds, one after the other: measurement, hysteresis, *)
(* classification and status together.  Each round measures any of the     *)
(* given matrices for any of the given checks; the manager may restart.    *)
(* The variable recent is not part of the code: it remembers what the last *)
(* Depth rounds measured and reported since the manager started, so that   *)
(* properties can relate a report to the rounds it came from.              *)
(***************************************************************************)
EXTENDS Reconciler, MeshStatus, Sequences

CONSTANTS
    Matrices,   \* the matrices a round may measure
    Configs,    \* thresholds of the NetworkHealthChecks
    Depth       \* rounds remembered for the properties

Ft(cfg) == EffectiveFailureThreshold(cfg.FailureThreshold)
St(cfg) == EffectiveSuccessThreshold(cfg.SuccessThreshold)

ASSUME MeshRoundsAssumption ==
    /\ \A m \in Matrices : IsFiniteSet(DOMAIN m) /\ m \in [DOMAIN m -> ProbeResult]
    /\ \A m \in Matrices : DOMAIN m \subseteq DOMAIN KeyRank
    /\ \A cfg \in Configs : cfg.FailureThreshold \in Int /\ cfg.SuccessThreshold \in Int
    /\ Depth \in Nat \ {0}

\* The counters stop where no threshold can tell.
ASSUME CapAssumption == \A cfg \in Configs : Ft(cfg) <= CounterCap /\ St(cfg) <= CounterCap

\* The controller classifies with DefaultConfig, whose loss threshold is the
\* status's own; and the status has room for a degraded pair.
ASSUME DefaultsAssumption == LossThreshold = StatusLossThreshold /\ MaxDegradedPairs > 0

VARIABLE recent

vars == <<tracker, lastMatrix, lastVerdict, recent>>

TypeOK ==
    /\ tracker.pairs \in [DOMAIN tracker.pairs -> PairState]
    /\ lastMatrix \in [DOMAIN lastMatrix -> ProbeResult]
    /\ lastVerdict.class \in Classes \cup {"none"}
    /\ DOMAIN lastMatrix \subseteq DOMAIN tracker.pairs
    /\ \A i \in DOMAIN recent : recent[i].matrix \in Matrices /\ recent[i].cfg \in Configs

Init == ReconcilerInit /\ recent = <<>>

Remember(r) ==
    recent' = IF Len(recent) < Depth THEN Append(recent, r) ELSE Append(Tail(recent), r)

ProbeRound(cfg, m) ==
    /\ Reconcile(cfg, m)
    /\ Remember([cfg |-> cfg, matrix |-> m, class |-> lastVerdict'.class])

Restart ==
    /\ ReconcilerRestart
    /\ recent' = <<>>

Next ==
    \/ \E cfg \in Configs, m \in Matrices : ProbeRound(cfg, m)
    \/ Restart

Spec == Init /\ [][Next]_vars

-----------------------------------------------------------------------------
Latest == recent[Len(recent)]

\* The last n rounds are remembered and all satisfy P(round).
LastRounds(n, P(_)) ==
    n <= Len(recent) /\ \A i \in (Len(recent) - n + 1)..Len(recent) : P(recent[i])

\* A pair that failed in each of the last Ft rounds, all run with the same
\* thresholds, is reported failed; one that succeeded in each of the last St
\* is reported as it was measured.
PersistentOutcomeIsReported ==
    recent # <<>> => \A p \in DOMAIN Latest.matrix :
        LET cfg == Latest.cfg
            measured(r, b) == r.cfg = cfg /\ p \in DOMAIN r.matrix /\ r.matrix[p].success = b
        IN  /\ LastRounds(Ft(cfg), LAMBDA r : measured(r, FALSE)) => ~lastMatrix[p].success
            /\ LastRounds(St(cfg), LAMBDA r : measured(r, TRUE)) => lastMatrix[p] = Latest.matrix[p]

\* Hysteresis is invisible in a steady state: once the same pairs have failed
\* for as many rounds as either threshold asks, the report is the measured
\* matrix itself and the verdict is the classifier's on that matrix.
SteadyStateIsTransparent ==
    recent # <<>> =>
        LET m == Latest.matrix
            same(r) == /\ r.cfg = Latest.cfg
                       /\ DOMAIN r.matrix = DOMAIN m
                       /\ Failed(r.matrix) = Failed(m)
        IN  LastRounds(Ft(Latest.cfg), same) /\ LastRounds(St(Latest.cfg), same) =>
                lastMatrix = m /\ lastVerdict \in Verdicts(m)

\* A round in which any agent could not be asked gets no data-plane verdict,
\* although the filter in front of the classifier rewrites its results.
AgentErrorsReachTheGuardrail ==
    recent # <<>> /\ AgentErrors(Latest.matrix) # {} =>
        lastVerdict.class = "Unknown" /\ lastVerdict.confidence = NoConfidence

\* Status, metrics and verdict of a round tell the same story, each from its
\* own count: the status over the full matrix however few entries it keeps,
\* the metrics when they are scraped, the classifier with its own threshold.
StatusAgreesWithVerdict ==
    recent # <<>> /\ AgentErrors(Latest.matrix) = {} =>
        LET status  == BuildStatus(1, NoCondition, lastVerdict, lastMatrix)
            metrics == Metrics(lastMatrix, lastVerdict)
            counts  == status.reachabilitySummary
            class   == status.verdict.class
        IN  /\ \A state \in DOMAIN counts : metrics.reachabilityPairs[state] = counts[state]
            /\ metrics.reachabilityPairs["nodata"] = 1 <=> class = "NoData"
            /\ metrics.meshHealth = 1 <=> status.conditionHealthy
            /\ metrics.meshHealth = 1 => \A p \in DOMAIN lastMatrix : metrics.pairReachable[p] = 1
            /\ class = "NoData" <=> status.reachabilityTotal = 0
            /\ class \in HardFailureClasses \cup {"Unknown"} <=> counts["failed"] > 0
            /\ class = "Degraded" <=> counts["failed"] = 0 /\ counts["degraded"] > 0
            /\ class = "Healthy" <=> /\ counts["healthy"] > 0
                                     /\ counts["healthy"] = status.reachabilityTotal
            /\ class = "Degraded" => status.degradedPairs # {}

-----------------------------------------------------------------------------
(* Statements of the documentation that the code does not meet.            *)

\* README: "It never reports Healthy without evidence".  Some probe must have
\* succeeded in the rounds a Healthy verdict looks back on.
HealthyHasEvidence ==
    lastVerdict.class = "Healthy" =>
        \E i \in DOMAIN recent : \E p \in DOMAIN recent[i].matrix : recent[i].matrix[p].success

\* README: the operator "separates hard failure from partial degradation and
\* missing data".  While all rounds since the start are remembered, a hard
\* failure is reported only of pairs whose data plane was measured to fail.
HardFailureWasMeasured ==
    Len(recent) < Depth /\ lastVerdict.class \in HardFailureClasses =>
        \A p \in Failed(lastMatrix) : \E i \in DOMAIN recent :
            /\ p \in DOMAIN recent[i].matrix
            /\ ~recent[i].matrix[p].success
            /\ ~recent[i].matrix[p].agentError
=============================================================================
