----------------------------- MODULE Reconciler -----------------------------
(***************************************************************************)
(* The evaluation half of the Reconciler (code/internal/controller/        *)
(* controller.go): what becomes of the matrix of one probe round.  All     *)
(* NetworkHealthChecks of a manager share one Reconciler, hence one        *)
(* tracker and one record of the latest round for the metrics endpoint.    *)
(***************************************************************************)
EXTENDS Hysteresis, Classifier

VARIABLES
    tracker,        \* r.tracker together with r.trackerConfig
    lastMatrix,     \* r.lastMatrix: the matrix the metrics are written from
    lastVerdict     \* r.lastVerdict

reconcilerVars == <<tracker, lastMatrix, lastVerdict>>

\* r.tracker = nil, which no effective configuration matches.
NoTracker == [pairs |-> [p \in {} |-> FreshPair], failureThreshold |-> 0, successThreshold |-> 0]

\* The zero Verdict, before any round.
NoVerdict == [class |-> "none", confidence |-> NoConfidence, suspects |-> {}]

ReconcilerInit ==
    /\ tracker = NoTracker
    /\ lastMatrix = NoMatrix
    /\ lastVerdict = NoVerdict

\* Mutant of TrackerFor: the tracker in use is kept whatever the thresholds.
TrackerKept(cfg) == IF tracker.failureThreshold = 0 THEN NewTracker(cfg) ELSE tracker

\* Mutant of TrackerFor: every round starts with a new tracker.
TrackerNew(cfg) == NewTracker(cfg)

\* A tracker built for other thresholds is thrown away with all it knows.
TrackerFor(cfg) ==
    LET new == NewTracker(cfg)
    IN  IF /\ tracker.failureThreshold = new.failureThreshold
           /\ tracker.successThreshold = new.successThreshold
        THEN tracker
        ELSE new

\* Mutant of stabilizeMatrix: rewritten results lose their AgentError flag.
StabilizeDroppingFlag(t, m) ==
    [p \in DOMAIN m |-> IF Tracked(t, p) THEN [Held(t.pairs[p].Status, m[p]) EXCEPT !.agentError = FALSE]
                                         ELSE m[p]]

\* The controller's own filter.  Unlike the library's Stabilize it rewrites
\* agent errors too; only their flag survives.
stabilizeMatrix(t, m) ==
    [p \in DOMAIN m |-> IF Tracked(t, p) THEN Held(t.pairs[p].Status, m[p]) ELSE m[p]]

\* From the measured matrix to the recorded verdict, in one step: nothing
\* else reads or writes this state before recordMetrics returns.
Reconcile(cfg, m) ==
    LET updated == Update(TrackerFor(cfg), m)
        stable  == stabilizeMatrix(updated, m)
    IN  /\ tracker' = updated
        /\ lastMatrix' = stable
        /\ lastVerdict' \in Verdicts(stable)

\* A restarted manager starts from nothing.
ReconcilerRestart ==
    /\ tracker' = NoTracker
    /\ lastMatrix' = NoMatrix
    /\ lastVerdict' = NoVerdict
=============================================================================
