--------------------------- MODULE MeshRoundsProofs ---------------------------
(***************************************************************************)
(* What a report says of the rounds behind it, for any meshes, thresholds  *)
(* and length of memory.  The properties look back over several rounds,    *)
(* the tracker keeps two counters and a flag of each pair; the inductive   *)
(* invariant says that the counters are no smaller than the runs of equal  *)
(* outcomes that end with the latest round, and that the flag follows the  *)
(* counters.  The last part is about ReconcileRound: rounds with their     *)
(* goroutines are such rounds, so all of this holds of them.               *)
(***************************************************************************)
EXTENDS ReconcileRound, ReconcilerProofs, SequenceTheorems, WellFoundedInduction

Rounds == [cfg : Configs, matrix : Matrices, class : Classes]

\* Round r ran with the thresholds cfg and measured outcome b of pair p.
Measured(r, cfg, p, b) == r.cfg = cfg /\ p \in DOMAIN r.matrix /\ r.matrix[p].success = b

\* So did each of the last n rounds, with the thresholds of the latest.
Run(n, p, b) ==
    \A i \in (Len(recent) - n + 1)..Len(recent) : Measured(recent[i], Latest.cfg, p, b)

RecentInv == recent \in Seq(Rounds) /\ Len(recent) <= Depth

\* Nothing is known before the first round.
StartInv == recent = <<>> => tracker = NoTracker /\ lastMatrix = NoMatrix /\ lastVerdict = NoVerdict

\* The tracker works with the thresholds of the latest round, and what was
\* recorded is the filtered matrix of that round and a verdict on it.
LatestInv ==
    recent # <<>> =>
        /\ DOMAIN tracker = {"pairs", "failureThreshold", "successThreshold"}
        /\ tracker.failureThreshold = Ft(Latest.cfg)
        /\ tracker.successThreshold = St(Latest.cfg)
        /\ DOMAIN Latest.matrix \subseteq DOMAIN tracker.pairs
        /\ lastMatrix = stabilizeMatrix(tracker, Latest.matrix)
        /\ lastVerdict \in Verdicts(lastMatrix)

\* A pair's flag follows its counters.
Follows(t, state) ==
    /\ state.ConsecutiveFailures >= t.failureThreshold => state.Status = PairDegraded
    /\ state.ConsecutiveSuccesses >= t.successThreshold => state.Status = PairHealthy

StatusInv == \A p \in DOMAIN tracker.pairs : Follows(tracker, tracker.pairs[p])

\* The counters lose no round of a run, unless they are at their cap.
Reaches(count, n) == count >= n \/ count = CounterCap

CountInv ==
    recent # <<>> => \A n \in 1..Len(recent) : \A p \in DOMAIN Latest.matrix :
        /\ Run(n, p, FALSE) => Reaches(tracker.pairs[p].ConsecutiveFailures, n)
        /\ Run(n, p, TRUE) => Reaches(tracker.pairs[p].ConsecutiveSuccesses, n)

IInv == TrackerInv /\ RecentInv /\ StartInv /\ LatestInv /\ StatusInv /\ CountInv

\* Thresholds in force are positive and within the counters' reach.
LEMMA ThresholdsPositive ==
    ASSUME NEW cfg \in Configs
    PROVE  Ft(cfg) \in 1..CounterCap /\ St(cfg) \in 1..CounterCap /\ CounterCap \in Nat
BY MeshRoundsAssumption, CapAssumption, CounterCapAssumption
   DEF Ft, St, EffectiveFailureThreshold, EffectiveSuccessThreshold, DefaultConfig, Config

\* What memory holds after a round: that round last, and before it the rounds
\* it held, perhaps without the first.
LEMMA Remembered ==
    ASSUME RecentInv, NEW r \in Rounds, Remember(r)
    PROVE  /\ RecentInv' /\ recent' # <<>>
           /\ Len(recent') \in Nat \ {0} /\ Len(recent) \in Nat
           /\ recent'[Len(recent')] = r
           /\ \E d \in {0, 1} : /\ Len(recent') = Len(recent) + 1 - d
                                /\ \A i \in 1..(Len(recent') - 1) : recent'[i] = recent[i + d]
<1>1. CASE Len(recent) < Depth
  <2>1. recent' = Append(recent, r)
    BY <1>1 DEF Remember
  <2> QED
    BY <1>1, <2>1, MeshRoundsAssumption DEF RecentInv
<1>2. CASE ~(Len(recent) < Depth)
  <2>1. recent' = Append(Tail(recent), r)
    BY <1>2 DEF Remember
  <2>2. Len(recent) = Depth /\ Depth \in Nat \ {0} /\ recent # <<>>
    BY <1>2, MeshRoundsAssumption DEF RecentInv
  <2>3. /\ Tail(recent) \in Seq(Rounds) /\ Len(Tail(recent)) = Len(recent) - 1
        /\ \A i \in 1..(Len(recent) - 1) : Tail(recent)[i] = recent[i + 1]
    BY <2>2 DEF RecentInv
  <2> QED
    BY <2>1, <2>2, <2>3 DEF RecentInv
<1> QED
  BY <1>1, <1>2

\* One outcome of one pair: the counter of that outcome goes on, and the flag
\* follows.
LEMMA PairStep ==
    ASSUME NEW t, t.failureThreshold \in 1..CounterCap, t.successThreshold \in 1..CounterCap,
           NEW s \in PairState, Follows(t, s), NEW success \in BOOLEAN
    PROVE  LET u == UpdatedPair(t, s, success)
           IN  /\ Follows(t, u)
               /\ u.ConsecutiveFailures = IF success THEN 0 ELSE Bump(s.ConsecutiveFailures)
               /\ u.ConsecutiveSuccesses = IF success THEN Bump(s.ConsecutiveSuccesses) ELSE 0
<1> DEFINE f == IF success THEN 0 ELSE Bump(s.ConsecutiveFailures)
           c == IF success THEN Bump(s.ConsecutiveSuccesses) ELSE 0
           u == UpdatedPair(t, s, success)
<1>1. f \in 0..CounterCap /\ c \in 0..CounterCap /\ (f = 0 \/ c = 0)
  BY CounterCapAssumption DEF Bump, PairState
<1>2. u.ConsecutiveFailures = f /\ u.ConsecutiveSuccesses = c /\ u.Status = NextStatus(t, s.Status, f, c)
  BY DEF UpdatedPair
<1>3. s.Status \in {PairHealthy, PairDegraded} /\ PairHealthy # PairDegraded
  BY DEF PairState, PairHealthy, PairDegraded
<1>4. NextStatus(t, s.Status, f, c) =
        IF s.Status = PairHealthy /\ f >= t.failureThreshold THEN PairDegraded
        ELSE IF s.Status = PairDegraded /\ c >= t.successThreshold THEN PairHealthy
        ELSE s.Status
  BY <1>3 DEF NextStatus
<1> HIDE DEF f, c, u
<1>5. Follows(t, u)
  BY <1>1, <1>2, <1>3, <1>4, CounterCapAssumption DEF Follows
<1> QED
  BY <1>2, <1>5 DEF f, c, u

\* The tracker that a round updates has the thresholds of its check, and is
\* the one in use if that had them already.
LEMMA TrackerInUse ==
    ASSUME IInv, NEW cfg \in Configs
    PROVE  LET t == TrackerFor(cfg)
           IN  /\ DOMAIN t = {"pairs", "failureThreshold", "successThreshold"}
               /\ t.failureThreshold = Ft(cfg) /\ t.successThreshold = St(cfg)
               /\ t.pairs \in [DOMAIN t.pairs -> PairState]
               /\ \A p \in DOMAIN t.pairs : Follows(t, t.pairs[p])
               /\ recent # <<>> /\ Latest.cfg = cfg => t = tracker
<1> DEFINE new == NewTracker(cfg)
<1>1. /\ DOMAIN new = {"pairs", "failureThreshold", "successThreshold"}
      /\ new.failureThreshold = Ft(cfg) /\ new.successThreshold = St(cfg)
      /\ DOMAIN new.pairs = {} /\ new.pairs = [p \in {} |-> FreshPair]
  BY DEF NewTracker, Ft, St
<1>2. TrackerFor(cfg) = IF tracker.failureThreshold = Ft(cfg) /\ tracker.successThreshold = St(cfg)
                        THEN tracker ELSE new
  BY <1>1 DEF TrackerFor
<1>3. DOMAIN tracker = {"pairs", "failureThreshold", "successThreshold"}
  BY DEF IInv, StartInv, LatestInv, NoTracker
<1> HIDE DEF new
<1>4. CASE tracker.failureThreshold = Ft(cfg) /\ tracker.successThreshold = St(cfg)
  BY <1>2, <1>3, <1>4 DEF IInv, TrackerInv, StatusInv
<1>5. CASE ~(tracker.failureThreshold = Ft(cfg) /\ tracker.successThreshold = St(cfg))
  <2>1. ~(recent # <<>> /\ Latest.cfg = cfg)
    BY <1>5 DEF IInv, LatestInv
  <2>2. new.pairs \in [DOMAIN new.pairs -> PairState]
    BY <1>1
  <2> QED
    BY <1>1, <1>2, <1>5, <2>1, <2>2
<1> QED
  BY <1>4, <1>5

\* A run of outcomes in the memory after a round is that round, and a run one
\* shorter in the memory before it.
LEMMA RunBefore ==
    ASSUME RecentInv, NEW r \in Rounds, Remember(r), NEW n \in 1..Len(recent'), NEW p, NEW b \in BOOLEAN,
           Run(n, p, b)'
    PROVE  /\ Measured(r, r.cfg, p, b)
           /\ n > 1 => /\ recent # <<>> /\ n - 1 \in 1..Len(recent)
                       /\ Latest.cfg = r.cfg /\ p \in DOMAIN Latest.matrix
                       /\ Run(n - 1, p, b)
<1>0. /\ Len(recent') \in Nat \ {0} /\ Len(recent) \in Nat
      /\ recent'[Len(recent')] = r
  BY Remembered
<1>1. PICK d \in {0, 1} : /\ Len(recent') = Len(recent) + 1 - d
                          /\ \A i \in 1..(Len(recent') - 1) : recent'[i] = recent[i + d]
  BY Remembered
<1>2. \A i \in (Len(recent') - n + 1)..Len(recent') : Measured(recent'[i], r.cfg, p, b)
  BY <1>0 DEF Run, Latest
<1>3. Measured(r, r.cfg, p, b)
  BY <1>0, <1>2
<1>4. ASSUME n > 1
      PROVE  /\ recent # <<>> /\ n - 1 \in 1..Len(recent)
             /\ Latest.cfg = r.cfg /\ p \in DOMAIN Latest.matrix
             /\ Run(n - 1, p, b)
  <2>1. n - 1 \in 1..Len(recent) /\ Len(recent) >= 1
    BY <1>0, <1>1, <1>4
  <2>2. ASSUME NEW i \in (Len(recent) - (n - 1) + 1)..Len(recent)
        PROVE  Measured(recent[i], r.cfg, p, b)
    <3>1. /\ i - d \in 1..(Len(recent') - 1)
          /\ i - d \in (Len(recent') - n + 1)..Len(recent')
          /\ (i - d) + d = i
      BY <1>0, <1>1, <2>1
    <3>2. recent'[i - d] = recent[i]
      BY <1>1, <3>1
    <3> QED
      BY <1>2, <3>1, <3>2
  <2>3. Measured(Latest, r.cfg, p, b)
    BY <1>0, <2>1, <2>2 DEF Latest
  <2> QED
    BY <1>0, <2>1, <2>2, <2>3 DEF Run, Measured, RecentInv
<1> QED
  BY <1>3, <1>4

\* A round keeps the invariant.
LEMMA RoundStep ==
    ASSUME IInv, NEW cfg \in Configs, NEW m \in Matrices, ProbeRound(cfg, m)
    PROVE  IInv'
<1> DEFINE t == TrackerFor(cfg)
           r == [cfg |-> cfg, matrix |-> m, class |-> lastVerdict'.class]
<1>1. /\ TrackerInv' /\ lastMatrix' = stabilizeMatrix(tracker', m)
      /\ lastVerdict' \in Verdicts(lastMatrix') /\ lastVerdict'.class \in Classes
  BY MeshRoundsAssumption, Evaluation DEF IInv, ProbeRound
<1>2. tracker' = Update(t, m) /\ Remember(r)
  BY DEF ProbeRound, Reconcile
<1>3. r \in Rounds /\ r.cfg = cfg /\ r.matrix = m
  BY <1>1 DEF Rounds
<1>4. /\ RecentInv' /\ recent' # <<>> /\ Len(recent') \in Nat \ {0} /\ recent'[Len(recent')] = r
  BY <1>2, <1>3, Remembered DEF IInv
<1>5. /\ DOMAIN t = {"pairs", "failureThreshold", "successThreshold"}
      /\ t.failureThreshold = Ft(cfg) /\ t.successThreshold = St(cfg)
      /\ t.pairs \in [DOMAIN t.pairs -> PairState]
      /\ \A p \in DOMAIN t.pairs : Follows(t, t.pairs[p])
      /\ recent # <<>> /\ Latest.cfg = cfg => t = tracker
  BY TrackerInUse
<1> HIDE DEF t
<1>6. /\ DOMAIN tracker' = DOMAIN t
      /\ tracker'.failureThreshold = Ft(cfg) /\ tracker'.successThreshold = St(cfg)
      /\ DOMAIN tracker'.pairs = DOMAIN t.pairs \cup DOMAIN m
      /\ \A p \in DOMAIN m : tracker'.pairs[p] = UpdatedPair(t, StateOf(t, p), m[p].success)
      /\ \A p \in DOMAIN t.pairs \ DOMAIN m : tracker'.pairs[p] = t.pairs[p]
  BY <1>2, <1>5, UpdateFields
<1>7. Latest' = r
  BY <1>4 DEF Latest
<1>8. StartInv' /\ LatestInv'
  BY <1>1, <1>3, <1>4, <1>5, <1>6, <1>7 DEF StartInv, LatestInv
<1>9. \A p : StateOf(t, p) \in PairState /\ Follows(t, StateOf(t, p))
  <2>1. FreshPair \in PairState /\ Follows(t, FreshPair)
    BY <1>5, ThresholdsPositive DEF FreshPair, PairState, Follows
  <2> QED
    BY <1>5, <2>1 DEF StateOf, Tracked
<1>10. ASSUME NEW p \in DOMAIN m
       PROVE  /\ Follows(t, tracker'.pairs[p])
              /\ m[p].success \in BOOLEAN
              /\ ~m[p].success => tracker'.pairs[p].ConsecutiveFailures = Bump(StateOf(t, p).ConsecutiveFailures)
              /\ m[p].success => tracker'.pairs[p].ConsecutiveSuccesses = Bump(StateOf(t, p).ConsecutiveSuccesses)
  <2>1. m[p].success \in BOOLEAN
    BY MeshRoundsAssumption DEF ProbeResult
  <2> QED
    BY <1>5, <1>6, <1>9, <2>1, ThresholdsPositive, PairStep
<1>11. StatusInv'
  <2> SUFFICES ASSUME NEW p \in DOMAIN tracker'.pairs PROVE Follows(tracker', tracker'.pairs[p])
    BY DEF StatusInv
  <2>1. Follows(t, tracker'.pairs[p])
    BY <1>5, <1>6, <1>10
  <2> QED
    BY <1>5, <1>6, <2>1 DEF Follows
<1>12. CountInv'
  <2> SUFFICES ASSUME NEW n \in 1..Len(recent'), NEW p \in DOMAIN m
               PROVE  /\ Run(n, p, FALSE)' => Reaches(tracker'.pairs[p].ConsecutiveFailures, n)
                      /\ Run(n, p, TRUE)' => Reaches(tracker'.pairs[p].ConsecutiveSuccesses, n)
    BY <1>3, <1>7 DEF CountInv
  <2>0. /\ StateOf(t, p).ConsecutiveFailures \in 0..CounterCap
        /\ StateOf(t, p).ConsecutiveSuccesses \in 0..CounterCap
        /\ n \in Nat \ {0} /\ RecentInv
    BY <1>4, <1>9 DEF PairState, IInv
  <2>1. ASSUME NEW b \in BOOLEAN, Run(n, p, b)', n > 1
        PROVE  /\ t = tracker /\ StateOf(t, p) = tracker.pairs[p]
               /\ n - 1 \in 1..Len(recent) /\ Run(n - 1, p, b)
               /\ recent # <<>> /\ p \in DOMAIN Latest.matrix
    <3>1. /\ recent # <<>> /\ n - 1 \in 1..Len(recent)
          /\ Latest.cfg = cfg /\ p \in DOMAIN Latest.matrix
          /\ Run(n - 1, p, b)
      BY <1>2, <1>3, <2>0, <2>1, RunBefore
    <3> QED
      BY <1>5, <3>1 DEF IInv, LatestInv, StateOf, Tracked
  <2>2. ASSUME Run(n, p, FALSE)'
        PROVE  Reaches(tracker'.pairs[p].ConsecutiveFailures, n)
    <3>1. ~m[p].success
      BY <1>2, <1>3, <2>0, <2>2, RunBefore DEF Measured
    <3>2. n > 1 => Reaches(StateOf(t, p).ConsecutiveFailures, n - 1)
      BY <2>1, <2>2 DEF IInv, CountInv
    <3> QED
      BY <1>10, <2>0, <3>1, <3>2, CounterCapAssumption DEF Bump, Reaches
  <2>3. ASSUME Run(n, p, TRUE)'
        PROVE  Reaches(tracker'.pairs[p].ConsecutiveSuccesses, n)
    <3>1. m[p].success
      BY <1>2, <1>3, <2>0, <2>3, RunBefore DEF Measured
    <3>2. n > 1 => Reaches(StateOf(t, p).ConsecutiveSuccesses, n - 1)
      BY <2>1, <2>3 DEF IInv, CountInv
    <3> QED
      BY <1>10, <2>0, <3>1, <3>2, CounterCapAssumption DEF Bump, Reaches
  <2> QED
    BY <2>2, <2>3
<1> QED
  BY <1>1, <1>4, <1>8, <1>11, <1>12 DEF IInv

\* The invariant holds at the start and after a restart.
LEMMA StartHolds ==
    ASSUME tracker = NoTracker, lastMatrix = NoMatrix, lastVerdict = NoVerdict, recent = <<>>
    PROVE  IInv
BY MeshRoundsAssumption
   DEF IInv, TrackerInv, RecentInv, StartInv, LatestInv, StatusInv, CountInv, NoTracker

\* The counters account for the runs, the flags for the counters and the record
\* for the latest round, after any rounds and restarts.
THEOREM InductiveInvariant == Spec => []IInv
<1>1. Init => IInv
  BY StartHolds DEF Init, ReconcilerInit
<1>2. IInv /\ [Next]_vars => IInv'
  <2> SUFFICES ASSUME IInv, [Next]_vars PROVE IInv'
    OBVIOUS
  <2>1. CASE \E cfg \in Configs, m \in Matrices : ProbeRound(cfg, m)
    BY <2>1, RoundStep
  <2>2. CASE Restart
    <3>1. tracker' = NoTracker /\ lastMatrix' = NoMatrix /\ lastVerdict' = NoVerdict /\ recent' = <<>>
      BY <2>2 DEF Restart, ReconcilerRestart
    <3> QED
      BY <3>1, MeshRoundsAssumption
         DEF IInv, TrackerInv, RecentInv, StartInv, LatestInv, StatusInv, CountInv, NoTracker
  <2>3. CASE UNCHANGED vars
    <3>1. /\ tracker' = tracker /\ lastMatrix' = lastMatrix /\ lastVerdict' = lastVerdict
          /\ recent' = recent
      BY <2>3 DEF vars
    <3>2. TrackerInv' /\ RecentInv' /\ StartInv'
      BY <3>1 DEF IInv, TrackerInv, RecentInv, StartInv
    <3>3. LatestInv' /\ StatusInv'
      BY <3>1 DEF IInv, LatestInv, StatusInv, Latest
    <3>4. Latest' = Latest /\ \A n, p, b : Run(n, p, b)' <=> Run(n, p, b)
      BY <3>1 DEF Run, Latest, Measured
    <3>5. CountInv'
      BY <3>1, <3>4 DEF IInv, CountInv
    <3> QED
      BY <3>2, <3>3, <3>5 DEF IInv
  <2> QED
    BY <2>1, <2>2, <2>3 DEF Next
<1> QED
  BY <1>1, <1>2, PTL DEF Spec

-----------------------------------------------------------------------------
(* What the properties say. *)

\* The report of the latest round.
LEMMA Report ==
    ASSUME IInv, recent # <<>>
    PROVE  /\ Latest \in Rounds /\ Len(recent) \in Nat \ {0}
           /\ IsFiniteSet(DOMAIN lastMatrix) /\ DOMAIN lastMatrix = DOMAIN Latest.matrix
           /\ lastMatrix \in [DOMAIN lastMatrix -> ProbeResult]
           /\ AgentErrors(lastMatrix) = AgentErrors(Latest.matrix)
           /\ lastVerdict \in Verdicts(lastMatrix)
<1>1. Latest \in Rounds /\ Len(recent) \in Nat \ {0}
  BY DEF IInv, RecentInv, Latest
<1> DEFINE m == Latest.matrix
<1>2. m \in Matrices
  BY <1>1 DEF Rounds
<1>3. lastMatrix = stabilizeMatrix(tracker, m) /\ lastVerdict \in Verdicts(lastMatrix)
  BY DEF IInv, LatestInv
<1> HIDE DEF m
<1>4. /\ lastMatrix \in [DOMAIN m -> ProbeResult] /\ IsFiniteSet(DOMAIN m)
      /\ \A p \in DOMAIN m : lastMatrix[p].agentError = m[p].agentError
  BY <1>2, <1>3, MeshRoundsAssumption, StabilizeTyped
<1> QED
  BY <1>1, <1>3, <1>4 DEF AgentErrors, m

\* The state of the tracker, the record and the memory stay well formed.
THEOREM MeshRoundsTypeCorrect == Spec => []TypeOK
<1>1. IInv => TypeOK
  <2> SUFFICES ASSUME IInv PROVE TypeOK
    OBVIOUS
  <2>1. CASE recent = <<>>
    <3>1. /\ lastMatrix = NoMatrix /\ lastVerdict.class = "none"
      BY <2>1 DEF IInv, StartInv, NoVerdict
    <3> QED
      BY <2>1, <3>1 DEF TypeOK, IInv, TrackerInv, NoMatrix
  <2>2. CASE recent # <<>>
    <3>1. lastVerdict.class \in Classes
      BY <2>2, Report, VerdictClass
    <3>2. \A i \in DOMAIN recent : recent[i].matrix \in Matrices /\ recent[i].cfg \in Configs
      <4>1. \A i \in DOMAIN recent : recent[i] \in Rounds
        BY DEF IInv, RecentInv
      <4> QED
        BY <4>1 DEF Rounds
    <3>3. DOMAIN lastMatrix \subseteq DOMAIN tracker.pairs
      BY <2>2, Report DEF IInv, LatestInv
    <3> QED
      BY <2>2, <3>1, <3>2, <3>3, Report DEF TypeOK, IInv, TrackerInv
  <2> QED
    BY <2>1, <2>2
<1> QED
  BY <1>1, InductiveInvariant, PTL

\* A round in which any agent could not be asked gets the verdict Unknown: the
\* filter's rewriting never hides the flag the classifier looks for.
THEOREM AgentErrorsGuarded == Spec => []AgentErrorsReachTheGuardrail
<1>1. IInv => AgentErrorsReachTheGuardrail
  <2> SUFFICES ASSUME IInv, recent # <<>>, AgentErrors(Latest.matrix) # {}
               PROVE  lastVerdict.class = "Unknown" /\ lastVerdict.confidence = NoConfidence
    BY DEF AgentErrorsReachTheGuardrail
  <2>1. AgentErrors(lastMatrix) # {} /\ DOMAIN lastMatrix # {} /\ lastVerdict \in Verdicts(lastMatrix)
    BY Report DEF AgentErrors
  <2> QED
    BY <2>1, VerdictOrigin
<1> QED
  BY <1>1, InductiveInvariant, PTL

\* What a run of equal outcomes as long as the threshold does to the report.
LEMMA RunsReported ==
    ASSUME IInv, recent # <<>>, NEW p \in DOMAIN Latest.matrix
    PROVE  /\ Ft(Latest.cfg) <= Len(recent) /\ Run(Ft(Latest.cfg), p, FALSE) =>
                 ~Latest.matrix[p].success /\ lastMatrix[p] = Latest.matrix[p]
           /\ St(Latest.cfg) <= Len(recent) /\ Run(St(Latest.cfg), p, TRUE) =>
                 Latest.matrix[p].success /\ lastMatrix[p] = Latest.matrix[p]
<1> DEFINE cfg == Latest.cfg
           state == tracker.pairs[p]
<1>1. /\ cfg \in Configs /\ Len(recent) \in Nat \ {0}
      /\ Ft(cfg) \in 1..CounterCap /\ St(cfg) \in 1..CounterCap /\ CounterCap \in Nat
  BY Report, ThresholdsPositive DEF Rounds
<1>2. /\ p \in DOMAIN tracker.pairs /\ state \in PairState
      /\ tracker.failureThreshold = Ft(cfg) /\ tracker.successThreshold = St(cfg)
      /\ lastMatrix[p] = Held(state.Status, Latest.matrix[p])
      /\ Follows(tracker, state)
  BY DEF IInv, TrackerInv, LatestInv, StatusInv, stabilizeMatrix, Tracked
<1>3. ASSUME NEW n \in 1..Len(recent), NEW b \in BOOLEAN, Run(n, p, b)
      PROVE  Latest.matrix[p].success = b
  <2>1. Len(recent) \in (Len(recent) - n + 1)..Len(recent)
    BY <1>1
  <2> QED
    BY <1>3, <2>1 DEF Run, Measured, Latest
<1>4. ASSUME Ft(cfg) <= Len(recent), Run(Ft(cfg), p, FALSE)
      PROVE  ~Latest.matrix[p].success /\ lastMatrix[p] = Latest.matrix[p]
  <2>0. Ft(cfg) \in 1..Len(recent)
    BY <1>1, <1>4
  <2>1. ~Latest.matrix[p].success /\ Reaches(state.ConsecutiveFailures, Ft(cfg))
    BY <1>3, <1>4, <2>0 DEF IInv, CountInv
  <2>2. state.Status = PairDegraded
    BY <1>1, <1>2, <2>1 DEF Reaches, Follows
  <2> QED
    BY <1>2, <2>1, <2>2 DEF Held, PairHealthy, PairDegraded
<1>5. ASSUME St(cfg) <= Len(recent), Run(St(cfg), p, TRUE)
      PROVE  Latest.matrix[p].success /\ lastMatrix[p] = Latest.matrix[p]
  <2>0. St(cfg) \in 1..Len(recent)
    BY <1>1, <1>5
  <2>1. Latest.matrix[p].success /\ Reaches(state.ConsecutiveSuccesses, St(cfg))
    BY <1>3, <1>5, <2>0 DEF IInv, CountInv
  <2>2. state.Status = PairHealthy
    BY <1>1, <1>2, <2>1 DEF Reaches, Follows
  <2> QED
    BY <1>2, <2>1, <2>2 DEF Held, PairHealthy, PairDegraded
<1> QED
  BY <1>4, <1>5

\* A pair that failed in each of the last Ft rounds is reported failed, one
\* that succeeded in each of the last St rounds is reported as measured.
THEOREM PersistenceReported == Spec => []PersistentOutcomeIsReported
<1>1. IInv => PersistentOutcomeIsReported
  <2> SUFFICES ASSUME IInv, recent # <<>>, NEW p \in DOMAIN Latest.matrix
               PROVE  LET cfg == Latest.cfg
                          measured(r, b) == r.cfg = cfg /\ p \in DOMAIN r.matrix /\ r.matrix[p].success = b
                      IN  /\ LastRounds(Ft(cfg), LAMBDA r : measured(r, FALSE)) => ~lastMatrix[p].success
                          /\ LastRounds(St(cfg), LAMBDA r : measured(r, TRUE)) =>
                                lastMatrix[p] = Latest.matrix[p]
    BY DEF PersistentOutcomeIsReported
  <2> DEFINE measured(r, b) == Measured(r, Latest.cfg, p, b)
  <2>1. \A n : /\ LastRounds(n, LAMBDA r : measured(r, FALSE)) => n <= Len(recent) /\ Run(n, p, FALSE)
               /\ LastRounds(n, LAMBDA r : measured(r, TRUE)) => n <= Len(recent) /\ Run(n, p, TRUE)
    BY DEF LastRounds, Run
  <2> QED
    BY <2>1, RunsReported DEF Measured
<1> QED
  BY <1>1, InductiveInvariant, PTL

\* Once the same pairs have failed for as many rounds as either threshold asks,
\* the report is the measured matrix and the verdict the classifier's on it.
THEOREM SteadyStateTransparent == Spec => []SteadyStateIsTransparent
<1>1. IInv => SteadyStateIsTransparent
  <2> DEFINE m == Latest.matrix
             same(r) == /\ r.cfg = Latest.cfg
                        /\ DOMAIN r.matrix = DOMAIN m
                        /\ Failed(r.matrix) = Failed(m)
  <2> SUFFICES ASSUME IInv, recent # <<>>,
                      LastRounds(Ft(Latest.cfg), same), LastRounds(St(Latest.cfg), same)
               PROVE  lastMatrix = m /\ lastVerdict \in Verdicts(m)
    BY DEF SteadyStateIsTransparent
  <2>1. \A p \in DOMAIN m : lastMatrix[p] = m[p]
    <3> SUFFICES ASSUME NEW p \in DOMAIN m PROVE lastMatrix[p] = m[p]
      OBVIOUS
    <3>1. \A r \in Rounds : same(r) => Measured(r, Latest.cfg, p, m[p].success)
      BY Report, MeshRoundsAssumption DEF Measured, Failed, Rounds, ProbeResult
    <3>2. ASSUME NEW n \in 1..CounterCap, LastRounds(n, same)
          PROVE  n <= Len(recent) /\ Run(n, p, m[p].success)
      <4>1. n <= Len(recent) /\ \A i \in (Len(recent) - n + 1)..Len(recent) : same(recent[i])
        BY <3>2 DEF LastRounds
      <4>2. \A i \in (Len(recent) - n + 1)..Len(recent) : recent[i] \in Rounds
        BY <4>1, Report DEF IInv, RecentInv
      <4> QED
        BY <3>1, <4>1, <4>2 DEF Run
    <3>3. m[p].success \in BOOLEAN
      BY Report, MeshRoundsAssumption DEF Rounds, ProbeResult
    <3>4. /\ Ft(Latest.cfg) <= Len(recent) /\ Run(Ft(Latest.cfg), p, m[p].success)
          /\ St(Latest.cfg) <= Len(recent) /\ Run(St(Latest.cfg), p, m[p].success)
      <4>1. Ft(Latest.cfg) \in 1..CounterCap /\ St(Latest.cfg) \in 1..CounterCap
        BY Report, ThresholdsPositive DEF Rounds
      <4> QED
        BY <3>2, <4>1
    <3>5. CASE m[p].success = TRUE
      BY <3>4, <3>5, RunsReported
    <3>6. CASE m[p].success = FALSE
      BY <3>4, <3>6, RunsReported
    <3> QED
      BY <3>3, <3>5, <3>6
  <2>2. m = [p \in DOMAIN m |-> m[p]] /\ lastMatrix = [p \in DOMAIN m |-> lastMatrix[p]]
    BY Report, MeshRoundsAssumption DEF Rounds
  <2> QED
    BY <2>1, <2>2, Report
<1> QED
  BY <1>1, InductiveInvariant, PTL

-----------------------------------------------------------------------------
(* The published summary. *)

Less == {pair \in Nat \X Nat : pair[1] < pair[2]}

\* Every set of numbers that is not empty has a least one.
LEMMA LeastNumber ==
    ASSUME NEW T, T \subseteq Nat, T # {}
    PROVE  \E x \in T : \A y \in T : x <= y
<1>1. IsWellFoundedOn(Less, Nat)
  BY NatLessThanWellFounded DEF OpToRel, Less
<1>2. PICK x \in T : \A y \in T : ~ (<<y, x>> \in Less)
  BY <1>1, WFMin
<1>3. \A y \in T : <<y, x>> \in Less <=> y < x
  BY DEF Less
<1>4. \A y \in T : ~(y < x)
  BY <1>2, <1>3
<1>5. \A y \in T : x <= y
  BY <1>4
<1> QED
  BY <1>5

\* A cap of at least one keeps something of a set of keys that is not empty.
LEMMA FirstKeysKept ==
    ASSUME NEW S, S \subseteq DOMAIN KeyRank, S # {}, NEW n \in Nat \ {0}
    PROVE  FirstKeys(S, n) # {}
<1> DEFINE ranks == {KeyRank[p] : p \in S}
<1>1. ranks \subseteq Nat /\ ranks # {}
  BY MeshStatusAssumption
<1>2. PICK p \in S : \A q \in S : KeyRank[p] <= KeyRank[q]
  <2> HIDE DEF ranks
  <2>1. PICK k \in ranks : \A l \in ranks : k <= l
    BY <1>1, LeastNumber
  <2> QED
    BY <2>1 DEF ranks
<1>3. {q \in S : KeyRank[q] < KeyRank[p]} = {}
  BY <1>2, MeshStatusAssumption
<1> QED
  BY <1>2, <1>3, FS_EmptySet DEF FirstKeys

\* The three states share out the pairs as the classifier sees them.
LEMMA StatesShareOut ==
    ASSUME NEW m, m \in [DOMAIN m -> ProbeResult]
    PROVE  /\ PairsIn(m, "failed") = Failed(m)
           /\ PairsIn(m, "degraded") = Lossy(m)
           /\ PairsIn(m, "healthy") = DOMAIN m \ (Failed(m) \cup Lossy(m))
<1>1. \A p \in DOMAIN m :
        /\ pairState(m[p]) = "failed" <=> ~m[p].success
        /\ pairState(m[p]) = "degraded" <=> m[p].success /\ m[p].loss >= LossThreshold
        /\ pairState(m[p]) = "healthy" <=> m[p].success /\ ~(m[p].loss >= LossThreshold)
  BY DefaultsAssumption DEF pairState
<1> QED
  BY <1>1 DEF PairsIn, Failed, Lossy

\* Counting a subset of a finite set.
LEMMA Counted ==
    ASSUME NEW S, IsFiniteSet(S), NEW T, T \subseteq S
    PROVE  /\ Cardinality(S) \in Nat /\ Cardinality(T) \in Nat
           /\ Cardinality(T) > 0 <=> T # {}
           /\ Cardinality(T) = Cardinality(S) <=> T = S
           /\ Cardinality(S) = 0 <=> S = {}
<1>1. IsFiniteSet(T) /\ (Cardinality(S) = Cardinality(T) => S = T)
  BY FS_Subset
<1>2. Cardinality(S) \in Nat /\ Cardinality(T) \in Nat
  BY <1>1, FS_CardinalityType
<1>3. (Cardinality(T) = 0 <=> T = {}) /\ (Cardinality(S) = 0 <=> S = {})
  BY <1>1, FS_EmptySet
<1> QED
  BY <1>1, <1>2, <1>3

\* What the class of a verdict says of the matrix it was given for.
LEMMA ClassTells ==
    ASSUME NEW m, NEW v \in Verdicts(m), AgentErrors(m) = {}
    PROVE  /\ v.class = "NoData" <=> DOMAIN m = {}
           /\ v.class \in HardFailureClasses \cup {"Unknown"} <=> Failed(m) # {}
           /\ v.class = "Degraded" <=> Failed(m) = {} /\ Lossy(m) # {}
           /\ v.class = "Healthy" <=> DOMAIN m # {} /\ Failed(m) = {} /\ Lossy(m) = {}
<1>1. Failed(m) \subseteq DOMAIN m /\ Lossy(m) \subseteq DOMAIN m
  BY DEF Failed, Lossy
<1>2. v \in HardFailureVerdicts(m) => v.class \in HardFailureClasses \cup {"Unknown"}
  BY HardFailureOrigin DEF HardFailureClasses
<1> QED
  BY <1>1, <1>2, VerdictOrigin DEF HardFailureClasses

\* Status, metrics and verdict of a round tell the same story, each from a
\* count of its own.
THEOREM StatusAgrees == Spec => []StatusAgreesWithVerdict
<1>1. IInv => StatusAgreesWithVerdict
  <2> DEFINE m == lastMatrix
             status == BuildStatus(1, NoCondition, lastVerdict, lastMatrix)
             metrics == Metrics(lastMatrix, lastVerdict)
             counts == status.reachabilitySummary
             class == status.verdict.class
  <2> SUFFICES ASSUME IInv, recent # <<>>, AgentErrors(Latest.matrix) = {}
               PROVE  /\ \A state \in DOMAIN counts : metrics.reachabilityPairs[state] = counts[state]
                      /\ metrics.reachabilityPairs["nodata"] = 1 <=> class = "NoData"
                      /\ metrics.meshHealth = 1 <=> status.conditionHealthy
                      /\ metrics.meshHealth = 1 => \A p \in DOMAIN m : metrics.pairReachable[p] = 1
                      /\ class = "NoData" <=> status.reachabilityTotal = 0
                      /\ class \in HardFailureClasses \cup {"Unknown"} <=> counts["failed"] > 0
                      /\ class = "Degraded" <=> counts["failed"] = 0 /\ counts["degraded"] > 0
                      /\ class = "Healthy" <=> /\ counts["healthy"] > 0
                                               /\ counts["healthy"] = status.reachabilityTotal
                      /\ class = "Degraded" => status.degradedPairs # {}
    BY DEF StatusAgreesWithVerdict
  <2>1. /\ m \in [DOMAIN m -> ProbeResult] /\ IsFiniteSet(DOMAIN m)
        /\ lastVerdict \in Verdicts(m) /\ AgentErrors(m) = {}
        /\ DOMAIN m \subseteq DOMAIN KeyRank
    BY Report, MeshRoundsAssumption DEF Rounds
  <2>2. /\ class = lastVerdict.class
        /\ status.conditionHealthy <=> class = "Healthy"
        /\ status.reachabilityTotal = Cardinality(DOMAIN m)
        /\ status.degradedPairs = FirstKeys(PairsIn(m, "degraded"), MaxDegradedPairs)
    BY DEF BuildStatus
  <2>3. /\ DOMAIN counts = {"healthy", "degraded", "failed"}
        /\ \A state \in DOMAIN counts : counts[state] = Cardinality(PairsIn(m, state))
    BY DEF BuildStatus, Summary
  <2>4. /\ \A state \in {"healthy", "degraded", "failed"} :
              metrics.reachabilityPairs[state] = Cardinality(PairsIn(m, state))
        /\ metrics.reachabilityPairs["nodata"] = 1 <=> DOMAIN m = {}
        /\ metrics.meshHealth = 1 <=> lastVerdict.class = "Healthy"
        /\ \A p \in DOMAIN m : metrics.pairReachable[p] = IF m[p].success THEN 1 ELSE 0
    BY DEF Metrics
  <2> HIDE DEF m, status, metrics, counts
  <2>5. /\ PairsIn(m, "failed") = Failed(m)
        /\ PairsIn(m, "degraded") = Lossy(m)
        /\ PairsIn(m, "healthy") = DOMAIN m \ (Failed(m) \cup Lossy(m))
        /\ Failed(m) \subseteq DOMAIN m /\ Lossy(m) \subseteq DOMAIN m
    BY <2>1, StatesShareOut DEF Failed, Lossy
  <2>6. /\ class = "NoData" <=> DOMAIN m = {}
        /\ class \in HardFailureClasses \cup {"Unknown"} <=> Failed(m) # {}
        /\ class = "Degraded" <=> Failed(m) = {} /\ Lossy(m) # {}
        /\ class = "Healthy" <=> DOMAIN m # {} /\ Failed(m) = {} /\ Lossy(m) = {}
    BY <2>1, <2>2, ClassTells
  <2>7. /\ counts["failed"] > 0 <=> Failed(m) # {}
        /\ counts["failed"] = 0 <=> Failed(m) = {}
        /\ counts["degraded"] > 0 <=> Lossy(m) # {}
        /\ counts["healthy"] > 0 <=> DOMAIN m \ (Failed(m) \cup Lossy(m)) # {}
        /\ counts["healthy"] = Cardinality(DOMAIN m) <=> DOMAIN m \ (Failed(m) \cup Lossy(m)) = DOMAIN m
        /\ Cardinality(DOMAIN m) = 0 <=> DOMAIN m = {}
    <3>1. /\ counts["failed"] = Cardinality(Failed(m))
          /\ counts["degraded"] = Cardinality(Lossy(m))
          /\ counts["healthy"] = Cardinality(DOMAIN m \ (Failed(m) \cup Lossy(m)))
      BY <2>3, <2>5
    <3>2. \A T \in SUBSET DOMAIN m : /\ Cardinality(T) \in Nat
                                     /\ Cardinality(T) > 0 <=> T # {}
                                     /\ Cardinality(T) = Cardinality(DOMAIN m) <=> T = DOMAIN m
      BY <2>1, Counted
    <3>3. Cardinality(DOMAIN m) = 0 <=> DOMAIN m = {}
      BY <2>1, FS_EmptySet
    <3>4. /\ Failed(m) \in SUBSET DOMAIN m /\ Lossy(m) \in SUBSET DOMAIN m
          /\ DOMAIN m \ (Failed(m) \cup Lossy(m)) \in SUBSET DOMAIN m
      BY <2>5
    <3>5. /\ counts["failed"] \in Nat
          /\ counts["failed"] > 0 <=> Failed(m) # {}
          /\ counts["degraded"] > 0 <=> Lossy(m) # {}
      BY <3>1, <3>2, <3>4, <2>5
    <3>6. /\ counts["healthy"] > 0 <=> DOMAIN m \ (Failed(m) \cup Lossy(m)) # {}
          /\ counts["healthy"] = Cardinality(DOMAIN m) <=> DOMAIN m \ (Failed(m) \cup Lossy(m)) = DOMAIN m
      BY <3>1, <3>2, <3>4
    <3>7. counts["failed"] = 0 <=> Failed(m) = {}
      BY <3>5
    <3> QED
      BY <3>3, <3>5, <3>6, <3>7
  <2>8. class = "Degraded" => status.degradedPairs # {}
    BY <2>1, <2>2, <2>5, <2>6, FirstKeysKept, MeshStatusAssumption, DefaultsAssumption
  <2>9. metrics.meshHealth = 1 => \A p \in DOMAIN m : metrics.pairReachable[p] = 1
    BY <2>2, <2>4, <2>6 DEF Failed
  <2> QED
    BY <2>2, <2>3, <2>4, <2>5, <2>6, <2>7, <2>8, <2>9
<1> QED
  BY <1>1, InductiveInvariant, PTL

-----------------------------------------------------------------------------
(* Rounds with their goroutines. *)

G == INSTANCE ProbeRoundProofs

\* The theorems about the probe round hold for its constants here.
LEMMA RoundAssumptions == G!MeasurementAssumption /\ G!LimitsAssumption
<1>1. \A S : IsFiniteSet(S) => G!IsFiniteSet(S)
  BY DEF IsFiniteSet, G!IsFiniteSet
<1>2. ProbeResult = G!ProbeResult
  BY DEF ProbeResult, G!ProbeResult, Errors, G!Errors
<1> QED
  BY <1>1, <1>2, RostersAssumption DEF G!MeasurementAssumption, G!LimitsAssumption

\* What ReconcileRound calls the keys of a roster, and what their proofs do.
LEMMA SameKeys == \A agents : Goroutines!Keys(agents) = G!Keys(agents)
BY DEF Goroutines!Keys, G!Keys, Goroutines!Calls, G!Calls, Goroutines!Key, G!Key

\* So with the start of a round,
LEMMA SameStart ==
    ASSUME NEW agents, NEW max, Goroutines!Start(agents, max)
    PROVE  G!Start(agents, max)
<1>1. Goroutines!Begin(agents) => G!Begin(agents)
  BY SameKeys DEF Goroutines!Begin, G!Begin, Goroutines!NoMatrix, G!NoMatrix
<1> QED
  BY <1>1 DEF Goroutines!Start, G!Start, Goroutines!Calls, G!Calls, Goroutines!NewMatrix, G!NewMatrix,
              Goroutines!NoMatrix, G!NoMatrix, Goroutines!Capacity, G!Capacity

\* and with each later step of it.
LEMMA SameRuns == Goroutines!Runs => G!Runs
<1>1. \A c : Goroutines!Spawn(c) => G!Spawn(c)
  BY DEF Goroutines!Spawn, G!Spawn, Goroutines!Before, G!Before, Goroutines!measurementVars, G!measurementVars
<1>2. Goroutines!Return => G!Return
  BY DEF Goroutines!Return, G!Return, Goroutines!Waited, G!Waited, Goroutines!roundVars, G!roundVars
<1>3. \A c : Goroutines!Acquire(c) => G!Acquire(c)
  BY DEF Goroutines!Acquire, G!Acquire, Goroutines!Goes, G!Goes, Goroutines!SlotFree, G!SlotFree,
         Goroutines!measurementVars, G!measurementVars
<1>4. \A c, r : Goroutines!Answer(c, r) => G!Answer(c, r)
  BY DEF Goroutines!Answer, G!Answer, Goroutines!Goes, G!Goes, Goroutines!Key, G!Key
<1>5. \A c : Goroutines!Store(c) => G!Store(c)
  BY DEF Goroutines!Store, G!Store, Goroutines!Goes, G!Goes, Goroutines!Key, G!Key, Goroutines!Without,
         G!Without, Goroutines!Restrict, G!Restrict, Goroutines!measurementVars, G!measurementVars
<1>6. \A c : Goroutines!Release(c) => G!Release(c)
  BY DEF Goroutines!Release, G!Release, Goroutines!Goes, G!Goes, Goroutines!measurementVars, G!measurementVars
<1>7. \A c : Goroutines!Done(c) => G!Done(c)
  BY DEF Goroutines!Done, G!Done, Goroutines!Without, G!Without, Goroutines!Restrict, G!Restrict,
         Goroutines!measurementVars, G!measurementVars
<1> QED
  BY <1>1, <1>2, <1>3, <1>4, <1>5, <1>6, <1>7 DEF Goroutines!Runs, G!Runs

\* While a round is open it is about discovered agents; when its goroutines
\* are done, the result has exactly their keys, with answers given in it.
Open ==
    /\ running => open
    /\ open => roster \in Rosters
    /\ open /\ ~running =>
          /\ result \in [Goroutines!Keys(roster) -> Answers]
          /\ \A p \in DOMAIN result : result[p] \in given[p]

ReconcileInv == G!IInv /\ Open /\ using \in Configs

\* Before the first round, and after a restart, no goroutine runs.
LEMMA NoRoundHolds ==
    ASSUME G!Init
    PROVE  G!IInv /\ ~running
<1>1. G!IInv
  BY RoundAssumptions, G!InitHolds
<1>2. ~running
  BY DEF G!Init, G!MInit
<1> QED
  BY <1>1, <1>2

\* Reconcile begins with nothing under way.
LEMMA ReconcileInitHolds == ReconcileInit => ReconcileInv
<1> SUFFICES ASSUME ReconcileInit PROVE ReconcileInv
  OBVIOUS
<1>1. G!Init
  BY DEF ReconcileInit, Goroutines!Init, G!Init, Goroutines!MInit, G!MInit, Goroutines!NoMatrix, G!NoMatrix,
         Goroutines!Nothing, G!Nothing
<1> QED
  BY <1>1, NoRoundHolds DEF ReconcileInit, ReconcileInv, Open

\* The round starts: what the round before left over is gone.
LEMMA StartRoundStep ==
    ASSUME ReconcileInv, NEW cfg \in Configs, NEW agents \in Rosters, NEW max \in Limits,
           StartRound(cfg, agents, max)
    PROVE  ReconcileInv'
<1>1. G!Start(agents, max)
  BY SameStart DEF StartRound
<1>2. G!IInv'
  BY <1>1, RoundAssumptions, G!RoundStep DEF ReconcileInv, G!Next
<1>3. running' /\ roster' = agents
  BY <1>1 DEF G!Start, G!Begin
<1> QED
  BY <1>2, <1>3 DEF StartRound, ReconcileInv, Open

\* A goroutine goes on, or the last one has and the round returns.
LEMMA GoOnStep ==
    ASSUME ReconcileInv, GoOn
    PROVE  ReconcileInv'
<1>1. G!Runs /\ open /\ UNCHANGED <<open, using>>
  BY SameRuns DEF GoOn
<1>2. G!IInv'
  BY <1>1, RoundAssumptions, G!RoundStep DEF ReconcileInv, G!Next
<1>3. running
  <2>1. ~running => unspawned = {} /\ DOMAIN call = {}
    BY DEF ReconcileInv, G!IInv, G!Quiet
  <2> QED
    BY <1>1, <2>1 DEF G!Runs, G!Return
<1>4. CASE G!Return
  <2>1. DOMAIN matrix = G!Keys(roster)
    BY <1>4, RoundAssumptions, G!AllCovered DEF ReconcileInv
  <2>2. matrix \in [DOMAIN matrix -> Answers] /\ \A p \in DOMAIN matrix : matrix[p] \in given[p]
    BY DEF ReconcileInv, G!IInv, G!TypeOK, G!AnswersGiven
  <2>3. result' = matrix /\ UNCHANGED <<roster, given>>
    BY <1>4 DEF G!Return
  <2>4. result' \in [Goroutines!Keys(roster') -> Answers]
    BY <2>1, <2>2, <2>3, SameKeys
  <2> QED
    BY <1>1, <1>2, <2>2, <2>3, <2>4 DEF ReconcileInv, Open
<1>5. CASE ~G!Return
  <2>1. UNCHANGED <<roster, running>>
    BY <1>1, <1>5 DEF G!Runs, G!Spawn, G!Acquire, G!Answer, G!Store, G!Release, G!Done, G!measurementVars
  <2> QED
    BY <1>1, <1>2, <1>3, <2>1 DEF ReconcileInv, Open
<1> QED
  BY <1>4, <1>5

\* The result is evaluated; nobody writes it any more.
LEMMA EvaluateStep ==
    ASSUME ReconcileInv, Evaluate
    PROVE  ReconcileInv'
<1>1. UNCHANGED G!vars /\ ~running /\ UNCHANGED <<using, running>> /\ ~open'
  BY DEF Evaluate, RoundOver, roundState, G!vars, G!roundVars
<1>2. G!IInv'
  BY <1>1, RoundAssumptions, G!RoundStep DEF ReconcileInv
<1> QED
  BY <1>1, <1>2 DEF ReconcileInv, Open

\* The process starts again, as it began.
LEMMA ProcessRestartStep ==
    ASSUME ReconcileInv, ProcessRestart
    PROVE  ReconcileInv'
<1>1. G!Init'
  BY DEF ProcessRestart, G!Init, G!MInit, Goroutines!NoMatrix, NoMatrix, G!NoMatrix, Goroutines!Nothing, G!Nothing
<1>2. (G!Init => G!IInv /\ ~running)'
  BY NoRoundHolds, PTL
<1> QED
  BY <1>1, <1>2 DEF ProcessRestart, ReconcileInv, Open

\* Whatever the interleaving and wherever a restart cuts it short, a round is
\* about its own agents and its result about its own answers.
LEMMA ReconcileInvHolds == ReconcileSpec => []ReconcileInv
<1>1. ReconcileInv /\ [ReconcileNext]_reconcileVars => ReconcileInv'
  <2> SUFFICES ASSUME ReconcileInv, [ReconcileNext]_reconcileVars PROVE ReconcileInv'
    OBVIOUS
  <2>1. CASE ReconcileNext
    BY <2>1, StartRoundStep, GoOnStep, EvaluateStep, ProcessRestartStep DEF ReconcileNext
  <2>2. CASE UNCHANGED reconcileVars
    <3>1. UNCHANGED G!vars /\ UNCHANGED <<open, using, running, roster, result, given>>
      BY <2>2 DEF reconcileVars, roundState, G!vars, G!roundVars
    <3>2. G!IInv'
      BY <3>1, RoundAssumptions, G!RoundStep DEF ReconcileInv
    <3> QED
      BY <3>1, <3>2 DEF ReconcileInv, Open
  <2> QED
    BY <2>1, <2>2
<1> QED
  BY <1>1, ReconcileInitHolds, PTL DEF ReconcileSpec

\* Reconcile with its goroutines is a behaviour of MeshRounds: what it
\* evaluates is one of the matrices, for the thresholds it was called with.
THEOREM ReconcileImplements == ReconcileSpec => ImplementsMeshRounds
<1>1. ReconcileInit => Init
  BY DEF ReconcileInit
<1>2. ReconcileInv /\ [ReconcileNext]_reconcileVars => [Next]_vars
  <2> SUFFICES ASSUME ReconcileInv, [ReconcileNext]_reconcileVars PROVE [Next]_vars
    OBVIOUS
  <2>1. CASE Evaluate
    <3>1. result \in Matrices
      BY <2>1, RostersAssumption DEF Evaluate, RoundOver, ReconcileInv, Open
    <3>2. using \in Configs /\ ProbeRound(using, result)
      BY <2>1 DEF Evaluate, ReconcileInv
    <3> QED
      BY <3>1, <3>2 DEF Next
  <2>2. CASE ProcessRestart
    BY <2>2 DEF ProcessRestart, Next
  <2>3. CASE \/ \E cfg \in Configs, agents \in Rosters, max \in Limits : StartRound(cfg, agents, max)
             \/ GoOn
             \/ UNCHANGED reconcileVars
    BY <2>3 DEF StartRound, GoOn, reconcileVars
  <2> QED
    BY <2>1, <2>2, <2>3 DEF ReconcileNext
<1> QED
  BY <1>1, <1>2, ReconcileInvHolds, PTL DEF ReconcileSpec, ImplementsMeshRounds, Spec

\* A verdict is about the agents of its own round, all of them and no others,
\* with answers given in that round.
THEOREM VerdictOfThisRound == ReconcileSpec => VerdictIsOfThisRound
<1>1. ASSUME ReconcileInv, IInv, Evaluate
      PROVE  /\ DOMAIN lastMatrix' = Goroutines!Keys(roster)
             /\ \A p \in DOMAIN lastMatrix' : Latest'.matrix[p] \in given[p]
             /\ unspawned = {} /\ DOMAIN call = {}
  <2>1. /\ ~running /\ ProbeRound(using, result) /\ using \in Configs
        /\ result \in [Goroutines!Keys(roster) -> Answers] /\ result \in Matrices
        /\ \A p \in DOMAIN result : result[p] \in given[p]
    BY <1>1, RostersAssumption DEF Evaluate, RoundOver, ReconcileInv, Open
  <2>2. DOMAIN lastMatrix' = DOMAIN result
    BY <2>1 DEF ProbeRound, Reconcile, stabilizeMatrix
  <2>3. Latest'.matrix = result
    <3> DEFINE r == [cfg |-> using, matrix |-> result, class |-> lastVerdict'.class]
    <3>1. Remember(r) /\ lastVerdict' \in Verdicts(lastMatrix')
      BY <2>1 DEF ProbeRound, Reconcile
    <3>2. r \in Rounds
      BY <2>1, <3>1, VerdictClass DEF Rounds
    <3>3. recent'[Len(recent')] = r
      BY <1>1, <3>1, <3>2, Remembered DEF IInv
    <3> QED
      BY <3>3 DEF Latest
  <2>4. unspawned = {} /\ DOMAIN call = {}
    BY <1>1, <2>1 DEF ReconcileInv, G!IInv, G!Quiet
  <2> QED
    BY <2>1, <2>2, <2>3, <2>4
<1>2. ReconcileSpec => []IInv
  <2>1. ReconcileSpec => Spec
    BY ReconcileImplements DEF ImplementsMeshRounds
  <2> QED
    BY <2>1, InductiveInvariant, PTL
<1> QED
  BY <1>1, <1>2, ReconcileInvHolds, PTL DEF ReconcileSpec, VerdictIsOfThisRound

\* So the reports of rounds with goroutines are what those of MeshRounds are.
THEOREM ReportsWithGoroutines ==
    ReconcileSpec => [](/\ PersistentOutcomeIsReported
                        /\ SteadyStateIsTransparent
                        /\ AgentErrorsReachTheGuardrail
                        /\ StatusAgreesWithVerdict)
<1>1. ReconcileSpec => Spec
  BY ReconcileImplements DEF ImplementsMeshRounds
<1> QED
  BY <1>1, PersistenceReported, SteadyStateTransparent, AgentErrorsGuarded, StatusAgrees, PTL
=============================================================================
