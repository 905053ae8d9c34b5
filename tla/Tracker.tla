------------------------------ MODULE Tracker -------------------------------
(***************************************************************************)
(* One hysteresis tracker fed with probe rounds.  A round may measure any  *)
(* subset of the pairs (agents come and go), each with any result, and the *)
(* tracker may be reset.  The variable history is not part of the code: it *)
(* records, for every pair, the outcomes fed to the tracker since the last *)
(* reset, and the properties say that the tracker's small state, two       *)
(* counters and a flag, is an exact summary of that record.                *)
(***************************************************************************)
EXTENDS Hysteresis, Sequences

CONSTANTS
    Pairs,             \* directed pairs <<src, dst>>
    Results,           \* the probe results a round may contain
    FailureThreshold,  \* thresholds as configured; zero or less means unset
    SuccessThreshold,
    MaxRounds          \* bound on the outcomes recorded for one pair

Ft == EffectiveFailureThreshold(FailureThreshold)
St == EffectiveSuccessThreshold(SuccessThreshold)

ASSUME ResultsAssumption == Results \subseteq ProbeResult
ASSUME ThresholdAssumption == FailureThreshold \in Int /\ SuccessThreshold \in Int
ASSUME CapAssumption == Ft <= CounterCap /\ St <= CounterCap
ASSUME MaxRoundsAssumption == MaxRounds \in Nat

VARIABLES
    tracker,    \* Tracker
    measured,   \* the matrix given to the latest Update
    history     \* for checking only: outcomes per pair, oldest first

vars == <<tracker, measured, history>>

TypeOK ==
    /\ DOMAIN tracker.pairs \subseteq Pairs
    /\ tracker = [pairs            |-> tracker.pairs,
                  failureThreshold |-> Ft,
                  successThreshold |-> St]
    /\ tracker.pairs \in [DOMAIN tracker.pairs -> PairState]
    /\ DOMAIN measured \subseteq Pairs
    /\ measured \in [DOMAIN measured -> Results]
    /\ history \in [Pairs -> Seq(BOOLEAN)]

Init ==
    /\ tracker = NewTracker(Config(FailureThreshold, SuccessThreshold))
    /\ measured = NoMatrix
    /\ history = [p \in Pairs |-> <<>>]

\* One probe round: Update is called with the whole matrix.
Round(m) ==
    /\ \A p \in DOMAIN m : Len(history[p]) < MaxRounds
    /\ tracker' = Update(tracker, m)
    /\ measured' = m
    /\ history' = [p \in Pairs |-> IF p \in DOMAIN m THEN Append(history[p], m[p].success)
                                                     ELSE history[p]]

ResetAll ==
    /\ tracker' = Reset(tracker)
    /\ measured' = NoMatrix
    /\ history' = [p \in Pairs |-> <<>>]

Next ==
    \/ \E S \in SUBSET Pairs : \E m \in [S -> Results] : Round(m)
    \/ ResetAll

Spec == Init /\ [][Next]_vars

-----------------------------------------------------------------------------
(***************************************************************************)
(* The reference definition, over the whole record of a pair.              *)
(***************************************************************************)

\* The n outcomes of h that end at position i are all equal to b.
Window(h, i, n, b) == n <= i /\ \A k \in (i - n + 1)..i : h[k] = b

\* The last n outcomes of h are all equal to b.
LastAll(h, n, b) == Window(h, Len(h), n, b)

\* Ft failures in a row, and since then never St successes in a row.
FailedByHistory(h) ==
    \E i \in Ft..Len(h) :
        /\ Window(h, i, Ft, FALSE)
        /\ \A j \in (i + St)..Len(h) : ~Window(h, j, St, TRUE)

\* The tracker's status of every pair, tracked or not, is the one the whole
\* record of the pair's outcomes calls for: the two counters and the flag of
\* hysteresis.go lose nothing, in any order of partial rounds and resets.
StatusMatchesHistory ==
    \A p \in Pairs :
        p \in DegradedPairs(tracker) <=> FailedByHistory(history[p])

\* What Stabilize reports for the latest round is decided by the record: a
\* pair is reported failed exactly when its record calls for it, and an agent
\* error is reported as it is, whatever the state of the pair.
ReportFollowsHistory ==
    \A p \in DOMAIN measured :
        LET reported == Stabilize(tracker, measured)[p] IN
        IF measured[p].agentError
        THEN reported = measured[p]
        ELSE reported.success <=> ~FailedByHistory(history[p])

\* A pair's status turns to failed only on a round that completes Ft failures
\* in a row and turns back only on one that completes St successes in a row;
\* a pair that a round did not measure keeps its status.
FlipsAreEarned ==
    [][\A p \in Pairs :
         LET before == StateOf(tracker, p).Status
             after  == StateOf(tracker', p).Status
         IN  (before # after /\ ~ResetAll) =>
                IF after = PairDegraded THEN LastAll(history'[p], Ft, FALSE)
                                        ELSE LastAll(history'[p], St, TRUE)]_vars
=============================================================================
