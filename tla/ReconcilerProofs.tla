-------------------------- MODULE ReconcilerProofs --------------------------
(***************************************************************************)
(* What one evaluation does to the tracker and to the matrix, whatever the *)
(* round measured.  Manager and MeshRounds both build on Reconciler, and   *)
(* their proofs on these facts.                                            *)
(***************************************************************************)
EXTENDS Reconciler, VerdictProofs

TrackerInv == "pairs" \in DOMAIN tracker /\ tracker.pairs \in [DOMAIN tracker.pairs -> PairState]

\* Update keeps the pairs of the tracker typed.
LEMMA UpdateTyped ==
    ASSUME NEW t, "pairs" \in DOMAIN t, t.pairs \in [DOMAIN t.pairs -> PairState], NEW m
    PROVE  /\ "pairs" \in DOMAIN Update(t, m)
           /\ Update(t, m).pairs \in [DOMAIN t.pairs \cup DOMAIN m -> PairState]
<1>1. FreshPair \in PairState
  BY CounterCapAssumption DEF FreshPair, PairState
<1>2. ASSUME NEW state \in PairState, NEW success
      PROVE  UpdatedPair(t, state, success) \in PairState
  <2>1. \A n \in 0..CounterCap : Bump(n) \in 0..CounterCap
    BY CounterCapAssumption DEF Bump
  <2>2. \A f, g : NextStatus(t, state.Status, f, g) \in {PairHealthy, PairDegraded}
    BY DEF NextStatus, PairState
  <2> QED
    BY <2>1, <2>2, CounterCapAssumption DEF UpdatedPair, PairState
<1>3. \A p : StateOf(t, p) \in PairState
  BY <1>1 DEF StateOf, Tracked
<1> QED
  BY <1>2, <1>3 DEF Update

\* Update touches neither threshold; a pair in the matrix gets its outcome, any
\* other keeps its state.
LEMMA UpdateFields ==
    ASSUME NEW t, DOMAIN t = {"pairs", "failureThreshold", "successThreshold"}, NEW m
    PROVE  /\ DOMAIN Update(t, m) = DOMAIN t
           /\ Update(t, m).failureThreshold = t.failureThreshold
           /\ Update(t, m).successThreshold = t.successThreshold
           /\ DOMAIN Update(t, m).pairs = DOMAIN t.pairs \cup DOMAIN m
           /\ \A p \in DOMAIN m : Update(t, m).pairs[p] = UpdatedPair(t, StateOf(t, p), m[p].success)
           /\ \A p \in DOMAIN t.pairs \ DOMAIN m : Update(t, m).pairs[p] = t.pairs[p]
BY DEF Update

\* The filter answers for exactly the measured pairs, with well-formed results,
\* and never touches the AgentError flag.
LEMMA StabilizeTyped ==
    ASSUME NEW t, NEW m, m \in [DOMAIN m -> ProbeResult]
    PROVE  /\ stabilizeMatrix(t, m) \in [DOMAIN m -> ProbeResult]
           /\ \A p \in DOMAIN m : stabilizeMatrix(t, m)[p].agentError = m[p].agentError
<1>1. ASSUME NEW status, NEW r \in ProbeResult
      PROVE  Held(status, r) \in ProbeResult /\ Held(status, r).agentError = r.agentError
  <2>1. CASE status = PairHealthy /\ ~r.success
    <3>1. PICK a : a = [r EXCEPT !.success = TRUE]
      OBVIOUS
    <3>2. PICK b : b = [a EXCEPT !.loss = 0]
      OBVIOUS
    <3>3. PICK c : c = [b EXCEPT !.error = "suppressed"]
      OBVIOUS
    <3>4. a \in ProbeResult /\ a.agentError = r.agentError
      BY <3>1 DEF ProbeResult
    <3>5. b \in ProbeResult /\ b.agentError = r.agentError
      BY <3>2, <3>4 DEF ProbeResult
    <3>6. c \in ProbeResult /\ c.agentError = r.agentError
      BY <3>3, <3>5 DEF ProbeResult, Errors
    <3>7. Held(status, r) = c
      BY <2>1, <3>1, <3>2, <3>3 DEF Held
    <3> QED
      BY <3>6, <3>7
  <2>2. CASE status = PairDegraded /\ r.success
    <3>1. PICK a : a = [r EXCEPT !.success = FALSE]
      OBVIOUS
    <3>2. PICK b : b = [a EXCEPT !.loss = 100]
      OBVIOUS
    <3>3. PICK c : c = [b EXCEPT !.error = "pending"]
      OBVIOUS
    <3>4. a \in ProbeResult /\ a.agentError = r.agentError
      BY <3>1 DEF ProbeResult
    <3>5. b \in ProbeResult /\ b.agentError = r.agentError
      BY <3>2, <3>4 DEF ProbeResult
    <3>6. c \in ProbeResult /\ c.agentError = r.agentError
      BY <3>3, <3>5 DEF ProbeResult, Errors
    <3>7. Held(status, r) = c
      BY <2>2, <3>1, <3>2, <3>3 DEF Held, PairHealthy, PairDegraded
    <3> QED
      BY <3>6, <3>7
  <2>3. CASE ~(status = PairHealthy /\ ~r.success) /\ ~(status = PairDegraded /\ r.success)
    BY <2>3 DEF Held
  <2> QED
    BY <2>1, <2>2, <2>3
<1> QED
  BY <1>1 DEF stabilizeMatrix

\* One evaluation keeps the tracker typed and records the classifier's verdict
\* on the filtered matrix.
LEMMA Evaluation ==
    ASSUME TrackerInv, NEW cfg, NEW m, IsFiniteSet(DOMAIN m), Reconcile(cfg, m)
    PROVE  /\ TrackerInv'
           /\ lastMatrix' = stabilizeMatrix(tracker', m)
           /\ DOMAIN lastMatrix' = DOMAIN m
           /\ lastVerdict' \in Verdicts(lastMatrix')
           /\ lastVerdict'.class \in Classes
           /\ lastVerdict'.confidence \in Confidence
<1> DEFINE t == TrackerFor(cfg)
<1>1. "pairs" \in DOMAIN t /\ t.pairs \in [DOMAIN t.pairs -> PairState]
  BY DEF TrackerInv, TrackerFor, NewTracker
<1>2. TrackerInv'
  BY <1>1, UpdateTyped DEF TrackerInv, Reconcile
<1>3. lastMatrix' = stabilizeMatrix(tracker', m) /\ lastVerdict' \in Verdicts(lastMatrix')
  BY DEF Reconcile
<1>4. DOMAIN lastMatrix' = DOMAIN m
  BY <1>3 DEF stabilizeMatrix
<1>5. lastVerdict'.class \in Classes
  BY <1>3, VerdictClass
<1>6. lastVerdict'.confidence \in Confidence
  BY <1>3, <1>4, VerdictTyped DEF Verdict
<1> QED
  BY <1>2, <1>3, <1>4, <1>5, <1>6
=============================================================================
