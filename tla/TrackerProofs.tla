--------------------------- MODULE TrackerProofs ----------------------------
(***************************************************************************)
(* The tracker's state is an exact summary of all it was ever fed.         *)
(*                                                                         *)
(* StatusMatchesHistory is not inductive: whether the status flips depends *)
(* on the counters.  The inductive invariant adds what the counters mean:  *)
(* a counter is at least n exactly when the last n outcomes were all of    *)
(* its kind.  This is stated for n up to CounterCap, where the counters of *)
(* the model stop, so the theorems also show that stopping there changes   *)
(* no status.                                                              *)
(***************************************************************************)
EXTENDS Tracker, TLAPS

\* The two counters and the flag of one pair against its record.
Summarizes(s, h) ==
    /\ \A n \in 1..CounterCap : s.ConsecutiveFailures >= n <=> LastAll(h, n, FALSE)
    /\ \A n \in 1..CounterCap : s.ConsecutiveSuccesses >= n <=> LastAll(h, n, TRUE)
    /\ s.Status = PairDegraded <=> FailedByHistory(h)

IInv == \A p \in Pairs : Summarizes(StateOf(tracker, p), history[p])

\* The effective thresholds are positive, whatever is configured, and within
\* the range in which the counters are exact.
LEMMA ThresholdsPositive ==
    /\ Ft \in 1..CounterCap
    /\ St \in 1..CounterCap
    /\ CounterCap \in Nat
BY ThresholdAssumption, CapAssumption, CounterCapAssumption
   DEF Ft, St, EffectiveFailureThreshold, EffectiveSuccessThreshold, DefaultConfig, Config

-----------------------------------------------------------------------------
(* Windows of a record that grows by one outcome. *)

\* A window that ends before the new outcome is untouched by it.
LEMMA WindowBefore ==
    ASSUME NEW h \in Seq(BOOLEAN), NEW b \in BOOLEAN, NEW c \in BOOLEAN,
           NEW n \in Nat, NEW i \in 0..Len(h)
    PROVE  Window(Append(h, b), i, n, c) <=> Window(h, i, n, c)
<1>1. \A k \in 1..Len(h) : Append(h, b)[k] = h[k]
  OBVIOUS
<1>2. \A k \in (i - n + 1)..i : n <= i => k \in 1..Len(h)
  OBVIOUS
<1> QED
  BY <1>1, <1>2 DEF Window

\* An outcome lengthens the run of its own kind by one ...
LEMMA RunGrows ==
    ASSUME NEW h \in Seq(BOOLEAN), NEW b \in BOOLEAN, NEW n \in Nat \ {0}
    PROVE  LastAll(Append(h, b), n, b) <=> LastAll(h, n - 1, b)
<1> DEFINE g == Append(h, b)
<1>1. Len(g) = Len(h) + 1 /\ g[Len(h) + 1] = b /\ \A k \in 1..Len(h) : g[k] = h[k]
  OBVIOUS
<1>2. Len(h) \in Nat
  OBVIOUS
<1> HIDE DEF g
<1>3. ASSUME LastAll(g, n, b) PROVE LastAll(h, n - 1, b)
  BY <1>1, <1>2, <1>3 DEF LastAll, Window
<1>4. ASSUME LastAll(h, n - 1, b) PROVE LastAll(g, n, b)
  <2>1. n <= Len(g)
    BY <1>1, <1>2, <1>4 DEF LastAll, Window
  <2>2. ASSUME NEW k \in (Len(g) - n + 1)..Len(g) PROVE g[k] = b
    <3>1. CASE k = Len(h) + 1
      BY <3>1, <1>1
    <3>2. CASE k # Len(h) + 1
      <4>1. k \in (Len(h) - (n - 1) + 1)..Len(h) /\ k \in 1..Len(h)
        BY <1>1, <1>2, <2>1, <2>2, <3>2
      <4> QED
        BY <4>1, <1>1, <1>4 DEF LastAll, Window
    <3> QED
      BY <3>1, <3>2
  <2> QED
    BY <2>1, <2>2 DEF LastAll, Window
<1> QED
  BY <1>3, <1>4 DEF g

\* ... and ends the run of the other kind.
LEMMA RunEnds ==
    ASSUME NEW h \in Seq(BOOLEAN), NEW b \in BOOLEAN, NEW n \in Nat \ {0}
    PROVE  ~LastAll(Append(h, b), n, ~b)
<1> DEFINE g == Append(h, b)
<1>1. Len(g) \in Nat /\ Len(g) >= 1 /\ g[Len(g)] = b
  OBVIOUS
<1> HIDE DEF g
<1>2. Len(g) \in (Len(g) - n + 1)..Len(g)
  BY <1>1
<1>3. g[Len(g)] # ~b
  BY <1>1
<1> QED
  BY <1>2, <1>3 DEF LastAll, Window, g

-----------------------------------------------------------------------------
(* The reference definition, one outcome at a time. *)

\* A failure fails the pair if it completes a run of Ft failures, and cannot
\* mend a failed one.
LEMMA FailureStep ==
    ASSUME NEW h \in Seq(BOOLEAN)
    PROVE  FailedByHistory(Append(h, FALSE)) <=>
               FailedByHistory(h) \/ LastAll(Append(h, FALSE), Ft, FALSE)
<1> DEFINE g == Append(h, FALSE)
<1>1. Len(g) = Len(h) + 1 /\ Len(h) \in Nat /\ g \in Seq(BOOLEAN)
  OBVIOUS
<1>2. Ft \in Nat \ {0} /\ St \in Nat \ {0}
  BY ThresholdsPositive
<1>3. \A i \in 0..Len(h), n \in Nat, c \in BOOLEAN : Window(g, i, n, c) <=> Window(h, i, n, c)
  BY WindowBefore
<1>4. ~LastAll(g, St, TRUE)
  BY <1>2, RunEnds
<1> HIDE DEF g
<1>5. ASSUME FailedByHistory(g) PROVE FailedByHistory(h) \/ LastAll(g, Ft, FALSE)
  <2>1. PICK i \in Ft..Len(g) : /\ Window(g, i, Ft, FALSE)
                                /\ \A j \in (i + St)..Len(g) : ~Window(g, j, St, TRUE)
    BY <1>5 DEF FailedByHistory
  <2>2. CASE i = Len(g)
    BY <2>1, <2>2 DEF LastAll
  <2>3. CASE i # Len(g)
    <3>1. i \in Ft..Len(h) /\ i \in 0..Len(h)
      BY <2>3, <1>1, <1>2
    <3>2. Window(h, i, Ft, FALSE)
      BY <3>1, <2>1, <1>2, <1>3
    <3>3. ASSUME NEW j \in (i + St)..Len(h) PROVE ~Window(h, j, St, TRUE)
      <4>1. j \in 0..Len(h) /\ j \in (i + St)..Len(g)
        BY <3>1, <1>1, <1>2
      <4> QED
        BY <4>1, <2>1, <1>2, <1>3
    <3> QED
      BY <3>1, <3>2, <3>3 DEF FailedByHistory
  <2> QED
    BY <2>2, <2>3
<1>6. ASSUME FailedByHistory(h) PROVE FailedByHistory(g)
  <2>1. PICK i \in Ft..Len(h) : /\ Window(h, i, Ft, FALSE)
                                /\ \A j \in (i + St)..Len(h) : ~Window(h, j, St, TRUE)
    BY <1>6 DEF FailedByHistory
  <2>2. i \in Ft..Len(g) /\ Window(g, i, Ft, FALSE)
    <3>1. i \in Ft..Len(g) /\ i \in 0..Len(h)
      BY <1>1, <1>2
    <3> QED
      BY <3>1, <2>1, <1>2, <1>3
  <2>3. ASSUME NEW j \in (i + St)..Len(g) PROVE ~Window(g, j, St, TRUE)
    <3>1. CASE j = Len(g)
      BY <3>1, <1>4 DEF LastAll
    <3>2. CASE j # Len(g)
      <4>1. j \in (i + St)..Len(h) /\ j \in 0..Len(h)
        BY <3>2, <1>1, <1>2
      <4> QED
        BY <4>1, <2>1, <1>2, <1>3
    <3> QED
      BY <3>1, <3>2
  <2> QED
    BY <2>2, <2>3 DEF FailedByHistory
<1>7. ASSUME LastAll(g, Ft, FALSE) PROVE FailedByHistory(g)
  <2>1. Len(g) \in Ft..Len(g) /\ (Len(g) + St)..Len(g) = {}
    BY <1>1, <1>2, <1>7 DEF LastAll, Window
  <2> QED
    BY <2>1, <1>7 DEF FailedByHistory, LastAll
<1> QED
  BY <1>5, <1>6, <1>7 DEF g

\* A success mends a failed pair if it completes a run of St successes, and
\* cannot fail one that is not.
LEMMA SuccessStep ==
    ASSUME NEW h \in Seq(BOOLEAN)
    PROVE  FailedByHistory(Append(h, TRUE)) <=>
               FailedByHistory(h) /\ ~LastAll(Append(h, TRUE), St, TRUE)
<1> DEFINE g == Append(h, TRUE)
<1>1. Len(g) = Len(h) + 1 /\ Len(h) \in Nat /\ g \in Seq(BOOLEAN)
  OBVIOUS
<1>2. Ft \in Nat \ {0} /\ St \in Nat \ {0}
  BY ThresholdsPositive
<1>3. \A i \in 0..Len(h), n \in Nat, c \in BOOLEAN : Window(g, i, n, c) <=> Window(h, i, n, c)
  BY WindowBefore
<1>4. ~LastAll(g, Ft, FALSE)
  BY <1>2, RunEnds
<1> HIDE DEF g
<1>5. ASSUME FailedByHistory(g) PROVE FailedByHistory(h) /\ ~LastAll(g, St, TRUE)
  <2>1. PICK i \in Ft..Len(g) : /\ Window(g, i, Ft, FALSE)
                                /\ \A j \in (i + St)..Len(g) : ~Window(g, j, St, TRUE)
    BY <1>5 DEF FailedByHistory
  <2>2. i \in Ft..Len(h) /\ i \in 0..Len(h)
    <3>1. i # Len(g)
      BY <2>1, <1>4 DEF LastAll
    <3> QED
      BY <3>1, <1>1, <1>2
  <2>3. Window(h, i, Ft, FALSE)
    BY <2>1, <2>2, <1>2, <1>3
  <2>4. ASSUME NEW j \in (i + St)..Len(h) PROVE ~Window(h, j, St, TRUE)
    <3>1. j \in 0..Len(h) /\ j \in (i + St)..Len(g)
      BY <2>2, <1>1, <1>2
    <3> QED
      BY <3>1, <2>1, <1>2, <1>3
  <2>5. g[i] = FALSE
    BY <2>1, <2>2, <1>2 DEF Window
  <2>6. ~LastAll(g, St, TRUE)
    <3>1. CASE i + St <= Len(g)
      <4>1. Len(g) \in (i + St)..Len(g)
        BY <3>1, <2>2, <1>1, <1>2
      <4> QED
        BY <4>1, <2>1 DEF LastAll
    <3>2. CASE i + St > Len(g)
      <4>1. i \in (Len(g) - St + 1)..Len(g)
        BY <3>2, <2>2, <1>1, <1>2
      <4> QED
        BY <4>1, <2>5 DEF LastAll, Window
    <3>3. i + St <= Len(g) \/ i + St > Len(g)
      BY <2>2, <1>1, <1>2
    <3> QED
      BY <3>1, <3>2, <3>3
  <2> QED
    BY <2>2, <2>3, <2>4, <2>6 DEF FailedByHistory
<1>6. ASSUME FailedByHistory(h), ~LastAll(g, St, TRUE) PROVE FailedByHistory(g)
  <2>1. PICK i \in Ft..Len(h) : /\ Window(h, i, Ft, FALSE)
                                /\ \A j \in (i + St)..Len(h) : ~Window(h, j, St, TRUE)
    BY <1>6 DEF FailedByHistory
  <2>2. i \in Ft..Len(g) /\ Window(g, i, Ft, FALSE)
    <3>1. i \in Ft..Len(g) /\ i \in 0..Len(h)
      BY <1>1, <1>2
    <3> QED
      BY <3>1, <2>1, <1>2, <1>3
  <2>3. ASSUME NEW j \in (i + St)..Len(g) PROVE ~Window(g, j, St, TRUE)
    <3>1. CASE j = Len(g)
      BY <3>1, <1>6 DEF LastAll
    <3>2. CASE j # Len(g)
      <4>1. j \in (i + St)..Len(h) /\ j \in 0..Len(h)
        BY <3>2, <1>1, <1>2
      <4> QED
        BY <4>1, <2>1, <1>2, <1>3
    <3> QED
      BY <3>1, <3>2
  <2> QED
    BY <2>2, <2>3 DEF FailedByHistory
<1> QED
  BY <1>5, <1>6 DEF g
-----------------------------------------------------------------------------
(* The inductive invariant. *)

\* Every state of the tracker is well typed, for all pairs, results,
\* thresholds and bounds.
THEOREM TypeCorrect == Spec => []TypeOK
<1>1. Init => TypeOK
  BY ThresholdAssumption, CounterCapAssumption
     DEF Init, TypeOK, NewTracker, Config, Ft, St, NoMatrix
<1>2. TypeOK /\ [Next]_vars => TypeOK'
  <2> SUFFICES ASSUME TypeOK, [Next]_vars PROVE TypeOK'
    OBVIOUS
  <2>1. ASSUME NEW S \in SUBSET Pairs, NEW m \in [S -> Results], Round(m)
        PROVE  TypeOK'
    <3>1. \A p \in S : m[p].success \in BOOLEAN
      BY <2>1, ResultsAssumption DEF ProbeResult
    <3>2. history' \in [Pairs -> Seq(BOOLEAN)]
      <4>1. \A h \in Seq(BOOLEAN), b \in BOOLEAN : Append(h, b) \in Seq(BOOLEAN)
        OBVIOUS
      <4>2. DOMAIN m = S
        OBVIOUS
      <4>3. \A p \in Pairs : history[p] \in Seq(BOOLEAN)
        BY DEF TypeOK
      <4> QED
        BY <2>1, <3>1, <4>1, <4>2, <4>3 DEF Round
    <3>3. \A s \in PairState, b \in BOOLEAN : UpdatedPair(tracker, s, b) \in PairState
      BY CounterCapAssumption DEF UpdatedPair, PairState, NextStatus, Bump
    <3>4. FreshPair \in PairState
      BY CounterCapAssumption DEF FreshPair, PairState
    <3>5. \A p \in Pairs : StateOf(tracker, p) \in PairState
      BY <3>4 DEF StateOf, Tracked, TypeOK
    <3>6. /\ DOMAIN tracker'.pairs = DOMAIN tracker.pairs \cup S
          /\ \A p \in S : tracker'.pairs[p] = UpdatedPair(tracker, StateOf(tracker, p), m[p].success)
          /\ \A p \in DOMAIN tracker.pairs \ S : tracker'.pairs[p] = tracker.pairs[p]
      BY <2>1 DEF Round, Update, TypeOK
    <3>7. tracker'.pairs \in [DOMAIN tracker'.pairs -> PairState]
      <4>1. /\ DOMAIN tracker'.pairs = DOMAIN tracker.pairs \cup S
            /\ \A p \in DOMAIN tracker'.pairs : tracker'.pairs[p] \in PairState
        BY <3>1, <3>3, <3>5, <3>6 DEF TypeOK
      <4>2. tracker'.pairs = [p \in DOMAIN tracker'.pairs |-> tracker'.pairs[p]]
        BY <2>1 DEF Round, Update, TypeOK
      <4> QED
        BY <4>1, <4>2
    <3>8. tracker' = [pairs            |-> tracker'.pairs,
                      failureThreshold |-> Ft,
                      successThreshold |-> St]
      <4>1. PICK P : tracker' = [tracker EXCEPT !.pairs = P]
        BY <2>1 DEF Round, Update
      <4>2. PICK Q : tracker = [pairs |-> Q, failureThreshold |-> Ft, successThreshold |-> St]
        BY DEF TypeOK
      <4> QED
        BY <4>1, <4>2
    <3>9. DOMAIN measured' \subseteq Pairs /\ measured' \in [DOMAIN measured' -> Results]
      BY <2>1 DEF Round
    <3> QED
      BY <3>2, <3>6, <3>7, <3>8, <3>9 DEF TypeOK
  <2>2. ASSUME ResetAll PROVE TypeOK'
    BY <2>2 DEF ResetAll, Reset, TypeOK, NoMatrix
  <2>3. CASE UNCHANGED vars
    BY <2>3 DEF vars, TypeOK
  <2> QED
    BY <2>1, <2>2, <2>3 DEF Next
<1> QED
  BY <1>1, <1>2, PTL DEF Spec

\* The heart of the matter: one outcome, fed to a pair whose state summarizes
\* its record, leaves a state that summarizes the longer record.
LEMMA PairStep ==
    ASSUME TypeOK, NEW s \in PairState, NEW h \in Seq(BOOLEAN), NEW b \in BOOLEAN,
           Summarizes(s, h)
    PROVE  Summarizes(UpdatedPair(tracker, s, b), Append(h, b))
<1> DEFINE u == UpdatedPair(tracker, s, b)
           g == Append(h, b)
<1>0. /\ tracker.failureThreshold = Ft
      /\ tracker.successThreshold = St
  BY DEF TypeOK
<1>1. Ft \in 1..CounterCap /\ St \in 1..CounterCap /\ CounterCap \in Nat
  BY ThresholdsPositive
<1>2. /\ s.ConsecutiveFailures \in 0..CounterCap
      /\ s.ConsecutiveSuccesses \in 0..CounterCap
      /\ s.Status \in {PairHealthy, PairDegraded}
      /\ PairHealthy # PairDegraded
  BY DEF PairState, PairHealthy, PairDegraded
<1>3. LastAll(h, 0, TRUE) /\ LastAll(h, 0, FALSE)
  BY DEF LastAll, Window
<1>4. CASE b = FALSE
  <2>1. /\ u.ConsecutiveFailures = Bump(s.ConsecutiveFailures)
        /\ u.ConsecutiveSuccesses = 0
        /\ u.Status = NextStatus(tracker, s.Status, u.ConsecutiveFailures, 0)
    BY <1>4 DEF UpdatedPair
  <2>2. ASSUME NEW n \in 1..CounterCap
        PROVE  u.ConsecutiveFailures >= n <=> LastAll(g, n, FALSE)
    <3>0. n \in Nat \ {0} /\ (n = 1 \/ n - 1 \in 1..CounterCap)
      BY <1>1
    <3>1. LastAll(g, n, FALSE) <=> LastAll(h, n - 1, FALSE)
      BY <1>4, <3>0, RunGrows
    <3>2. u.ConsecutiveFailures >= n <=> s.ConsecutiveFailures >= n - 1
      BY <2>1, <1>1, <1>2 DEF Bump
    <3>3. s.ConsecutiveFailures >= n - 1 <=> LastAll(h, n - 1, FALSE)
      <4>1. CASE n = 1
        <5>1. n - 1 = 0
          BY <4>1
        <5>2. s.ConsecutiveFailures >= n - 1
          BY <5>1, <1>1, <1>2
        <5>3. LastAll(h, n - 1, FALSE)
          BY <5>1, <1>3, Zenon
        <5> QED
          BY <5>2, <5>3
      <4>2. CASE n - 1 \in 1..CounterCap
        BY <4>2 DEF Summarizes
      <4> QED
        BY <4>1, <4>2, <3>0
    <3> QED
      BY <3>1, <3>2, <3>3
  <2>3. ASSUME NEW n \in 1..CounterCap
        PROVE  u.ConsecutiveSuccesses >= n <=> LastAll(g, n, TRUE)
    <3>0. n \in Nat \ {0} /\ ~(0 >= n)
      BY <1>1
    <3>1. ~LastAll(g, n, TRUE)
      BY <1>4, <3>0, RunEnds
    <3> QED
      BY <3>0, <3>1, <2>1
  <2>4. u.Status = PairDegraded <=> FailedByHistory(g)
    <3>1. FailedByHistory(g) <=> FailedByHistory(h) \/ LastAll(g, Ft, FALSE)
      BY <1>4, FailureStep
    <3>2. u.ConsecutiveFailures >= Ft <=> LastAll(g, Ft, FALSE)
      BY <2>2, <1>1
    <3>3. u.Status = PairDegraded <=> s.Status = PairDegraded \/ u.ConsecutiveFailures >= Ft
      BY <2>1, <1>0, <1>1, <1>2 DEF NextStatus
    <3> QED
      BY <3>1, <3>2, <3>3 DEF Summarizes
  <2> QED
    BY <2>2, <2>3, <2>4 DEF Summarizes
<1>5. CASE b = TRUE
  <2>1. /\ u.ConsecutiveSuccesses = Bump(s.ConsecutiveSuccesses)
        /\ u.ConsecutiveFailures = 0
        /\ u.Status = NextStatus(tracker, s.Status, 0, u.ConsecutiveSuccesses)
    BY <1>5 DEF UpdatedPair
  <2>2. ASSUME NEW n \in 1..CounterCap
        PROVE  u.ConsecutiveSuccesses >= n <=> LastAll(g, n, TRUE)
    <3>0. n \in Nat \ {0} /\ (n = 1 \/ n - 1 \in 1..CounterCap)
      BY <1>1
    <3>1. LastAll(g, n, TRUE) <=> LastAll(h, n - 1, TRUE)
      BY <1>5, <3>0, RunGrows
    <3>2. u.ConsecutiveSuccesses >= n <=> s.ConsecutiveSuccesses >= n - 1
      BY <2>1, <1>1, <1>2 DEF Bump
    <3>3. s.ConsecutiveSuccesses >= n - 1 <=> LastAll(h, n - 1, TRUE)
      <4>1. CASE n = 1
        <5>1. n - 1 = 0
          BY <4>1
        <5>2. s.ConsecutiveSuccesses >= n - 1
          BY <5>1, <1>1, <1>2
        <5>3. LastAll(h, n - 1, TRUE)
          BY <5>1, <1>3, Zenon
        <5> QED
          BY <5>2, <5>3
      <4>2. CASE n - 1 \in 1..CounterCap
        BY <4>2 DEF Summarizes
      <4> QED
        BY <4>1, <4>2, <3>0
    <3> QED
      BY <3>1, <3>2, <3>3
  <2>3. ASSUME NEW n \in 1..CounterCap
        PROVE  u.ConsecutiveFailures >= n <=> LastAll(g, n, FALSE)
    <3>0. n \in Nat \ {0} /\ ~(0 >= n)
      BY <1>1
    <3>1. ~LastAll(g, n, FALSE)
      BY <1>5, <3>0, RunEnds
    <3> QED
      BY <3>0, <3>1, <2>1
  <2>4. u.Status = PairDegraded <=> FailedByHistory(g)
    <3>1. FailedByHistory(g) <=> FailedByHistory(h) /\ ~LastAll(g, St, TRUE)
      BY <1>5, SuccessStep
    <3>2. u.ConsecutiveSuccesses >= St <=> LastAll(g, St, TRUE)
      BY <2>2, <1>1
    <3>3. u.Status = PairDegraded <=> s.Status = PairDegraded /\ ~(u.ConsecutiveSuccesses >= St)
      BY <2>1, <1>0, <1>1, <1>2 DEF NextStatus
    <3> QED
      BY <3>1, <3>2, <3>3 DEF Summarizes
  <2> QED
    BY <2>2, <2>3, <2>4 DEF Summarizes
<1> QED
  BY <1>4, <1>5

\* A pair without a record is fresh.
LEMMA FreshSummary == Summarizes(FreshPair, <<>>)
<1>1. Ft \in 1..CounterCap /\ CounterCap \in Nat
  BY ThresholdsPositive
<1>2. Len(<<>>) = 0
  OBVIOUS
<1>3. Ft..0 = {}
  BY <1>1
<1>4. ~FailedByHistory(<<>>)
  BY <1>2, <1>3 DEF FailedByHistory
<1> QED
  BY <1>1, <1>2, <1>4 DEF Summarizes, FreshPair, LastAll, Window, PairHealthy, PairDegraded

\* After a round, the state of a measured pair is the updated one and that of
\* any other pair is the one it had.
LEMMA StateAfterRound ==
    ASSUME TypeOK, NEW S \in SUBSET Pairs, NEW m \in [S -> Results], Round(m), NEW p \in Pairs
    PROVE  StateOf(tracker', p) = IF p \in S
                                  THEN UpdatedPair(tracker, StateOf(tracker, p), m[p].success)
                                  ELSE StateOf(tracker, p)
BY DEF Round, Update, StateOf, Tracked, TypeOK

\* The state of a pair, tracked or not, is a well-typed pair state.
LEMMA StateTyped ==
    ASSUME TypeOK, NEW p \in Pairs
    PROVE  StateOf(tracker, p) \in PairState
BY CounterCapAssumption DEF StateOf, Tracked, TypeOK, FreshPair, PairState

\* The counters and the status of every pair summarize its record.
THEOREM InductiveInvariant == Spec => []IInv
<1>1. Init => IInv
  <2> SUFFICES ASSUME Init, NEW p \in Pairs PROVE Summarizes(StateOf(tracker, p), history[p])
    BY DEF IInv
  <2>1. StateOf(tracker, p) = FreshPair /\ history[p] = <<>>
    BY DEF Init, NewTracker, StateOf, Tracked
  <2> QED
    BY <2>1, FreshSummary
<1>2. TypeOK /\ IInv /\ [Next]_vars => IInv'
  <2> SUFFICES ASSUME TypeOK, IInv, [Next]_vars, NEW p \in Pairs
               PROVE  Summarizes(StateOf(tracker', p), history'[p])
    BY DEF IInv, Summarizes
  <2>0. /\ Summarizes(StateOf(tracker, p), history[p])
        /\ StateOf(tracker, p) \in PairState
        /\ history[p] \in Seq(BOOLEAN)
    BY StateTyped DEF IInv, TypeOK
  <2>1. ASSUME NEW S \in SUBSET Pairs, NEW m \in [S -> Results], Round(m)
        PROVE  Summarizes(StateOf(tracker', p), history'[p])
    <3>1. CASE p \in S
      <4>1. m[p].success \in BOOLEAN
        BY <3>1, ResultsAssumption DEF ProbeResult
      <4>2. history'[p] = Append(history[p], m[p].success)
        BY <2>1, <3>1 DEF Round
      <4>3. StateOf(tracker', p) = UpdatedPair(tracker, StateOf(tracker, p), m[p].success)
        BY <2>1, <3>1, StateAfterRound
      <4> QED
        BY <2>0, <4>1, <4>2, <4>3, PairStep
    <3>2. CASE p \notin S
      <4>1. history'[p] = history[p]
        BY <2>1, <3>2 DEF Round
      <4>2. StateOf(tracker', p) = StateOf(tracker, p)
        BY <2>1, <3>2, StateAfterRound
      <4> QED
        BY <2>0, <4>1, <4>2
    <3> QED
      BY <3>1, <3>2
  <2>2. ASSUME ResetAll PROVE Summarizes(StateOf(tracker', p), history'[p])
    <3>1. StateOf(tracker', p) = FreshPair /\ history'[p] = <<>>
      BY <2>2 DEF ResetAll, Reset, StateOf, Tracked, TypeOK
    <3> QED
      BY <3>1, FreshSummary
  <2>3. CASE UNCHANGED vars
    BY <2>0, <2>3 DEF vars
  <2> QED
    BY <2>1, <2>2, <2>3 DEF Next
<1> QED
  BY <1>1, <1>2, TypeCorrect, PTL DEF Spec

-----------------------------------------------------------------------------
(* The theorems a reader should know of. *)

\* The status of every pair is the one its whole record calls for.
THEOREM StatusCorrect == Spec => []StatusMatchesHistory
<1>1. TypeOK /\ IInv => StatusMatchesHistory
  <2> SUFFICES ASSUME TypeOK, IInv, NEW p \in Pairs
               PROVE  p \in DegradedPairs(tracker) <=> FailedByHistory(history[p])
    BY DEF StatusMatchesHistory
  <2>1. StateOf(tracker, p).Status = PairDegraded <=> FailedByHistory(history[p])
    BY DEF IInv, Summarizes
  <2>2. p \in DegradedPairs(tracker) <=> StateOf(tracker, p).Status = PairDegraded
    BY DEF DegradedPairs, StateOf, Tracked, FreshPair, PairHealthy, PairDegraded
  <2> QED
    BY <2>1, <2>2
<1> QED
  BY <1>1, TypeCorrect, InductiveInvariant, PTL

MeasuredTracked == DOMAIN measured \subseteq DOMAIN tracker.pairs

\* The pairs of the latest round are all tracked: Update adds them.
LEMMA MeasuredAreTracked == Spec => []MeasuredTracked
<1>1. Init => MeasuredTracked
  BY DEF Init, MeasuredTracked, NoMatrix
<1>2. MeasuredTracked /\ [Next]_vars => MeasuredTracked'
  <2> SUFFICES ASSUME MeasuredTracked, [Next]_vars PROVE MeasuredTracked'
    OBVIOUS
  <2>1. ASSUME NEW S \in SUBSET Pairs, NEW m \in [S -> Results], Round(m)
        PROVE  MeasuredTracked'
    <3>1. measured' = m /\ tracker'.pairs = Update(tracker, m).pairs
      BY <2>1 DEF Round
    <3>2. DOMAIN m \subseteq DOMAIN tracker'.pairs
      BY <2>1 DEF Round, Update
    <3> QED
      BY <3>1, <3>2 DEF MeasuredTracked
  <2>2. ASSUME ResetAll PROVE MeasuredTracked'
    BY <2>2 DEF ResetAll, NoMatrix, MeasuredTracked
  <2>3. CASE UNCHANGED vars
    BY <2>3 DEF vars, MeasuredTracked
  <2> QED
    BY <2>1, <2>2, <2>3 DEF Next
<1> QED
  BY <1>1, <1>2, PTL DEF Spec

\* What the filter reports follows the record, and agent errors pass through.
THEOREM ReportCorrect == Spec => []ReportFollowsHistory
<1>1. TypeOK /\ IInv /\ MeasuredTracked => ReportFollowsHistory
  <2> SUFFICES ASSUME TypeOK, IInv, MeasuredTracked, NEW p \in DOMAIN measured
               PROVE  LET reported == Stabilize(tracker, measured)[p] IN
                      IF measured[p].agentError
                      THEN reported = measured[p]
                      ELSE reported.success <=> ~FailedByHistory(history[p])
    BY DEF ReportFollowsHistory
  <2> DEFINE status == tracker.pairs[p].Status
  <2>1. p \in Pairs /\ Tracked(tracker, p) /\ StateOf(tracker, p) = tracker.pairs[p]
    BY DEF TypeOK, MeasuredTracked, Tracked, StateOf
  <2>2. status = PairDegraded <=> FailedByHistory(history[p])
    BY <2>1 DEF IInv, Summarizes
  <2>3. status \in {PairHealthy, PairDegraded} /\ PairHealthy # PairDegraded
    BY <2>1, StateTyped DEF PairState, PairHealthy, PairDegraded
  <2>4. measured[p] \in ProbeResult
    BY ResultsAssumption DEF TypeOK
  <2>5. Held(status, measured[p]).success <=> status = PairHealthy
    BY <2>3, <2>4 DEF Held, ProbeResult
  <2>6. Stabilize(tracker, measured)[p] = IF measured[p].agentError THEN measured[p]
                                          ELSE Held(status, measured[p])
    BY <2>1 DEF Stabilize
  <2> QED
    BY <2>2, <2>3, <2>5, <2>6
<1> QED
  BY <1>1, TypeCorrect, InductiveInvariant, MeasuredAreTracked, PTL

\* A status flips only on the round that completes the run it takes.
THEOREM FlipsCorrect == Spec => FlipsAreEarned
<1> DEFINE Flip(p) ==
      LET before == StateOf(tracker, p).Status
          after  == StateOf(tracker', p).Status
      IN  (before # after /\ ~ResetAll) =>
             IF after = PairDegraded THEN LastAll(history'[p], Ft, FALSE)
                                     ELSE LastAll(history'[p], St, TRUE)
<1>1. TypeOK /\ IInv /\ IInv' /\ [Next]_vars => [\A p \in Pairs : Flip(p)]_vars
  <2> SUFFICES ASSUME TypeOK, IInv, IInv', Next, NEW p \in Pairs, ~ResetAll PROVE Flip(p)
    OBVIOUS
  <2>1. PICK S \in SUBSET Pairs : \E m \in [S -> Results] : Round(m)
    BY DEF Next
  <2>2. PICK m \in [S -> Results] : Round(m)
    BY <2>1
  <2> DEFINE s == StateOf(tracker, p)
             b == m[p].success
             u == UpdatedPair(tracker, s, b)
  <2>3. CASE p \notin S
    <3>1. StateOf(tracker', p) = s
      BY <2>2, <2>3, StateAfterRound
    <3> QED
      BY <3>1
  <2>4. CASE p \in S
    <3>1. StateOf(tracker', p) = u
      BY <2>2, <2>4, StateAfterRound
    <3>2. Summarizes(u, history'[p])
      BY <3>1 DEF IInv
    <3>3. s \in PairState /\ b \in BOOLEAN
      BY <2>4, StateTyped, ResultsAssumption DEF ProbeResult
    <3>4. ASSUME s.Status # u.Status
          PROVE  IF u.Status = PairDegraded THEN u.ConsecutiveFailures >= Ft
                                            ELSE u.ConsecutiveSuccesses >= St
      BY <3>3, <3>4 DEF UpdatedPair, NextStatus, PairState, PairHealthy, PairDegraded, TypeOK
    <3>5. /\ u.ConsecutiveFailures >= Ft <=> LastAll(history'[p], Ft, FALSE)
          /\ u.ConsecutiveSuccesses >= St <=> LastAll(history'[p], St, TRUE)
      BY <3>2, ThresholdsPositive DEF Summarizes
    <3> QED
      BY <3>1, <3>4, <3>5
  <2> QED
    BY <2>3, <2>4
<1> QED
  BY <1>1, TypeCorrect, InductiveInvariant, PTL DEF Spec, FlipsAreEarned
=============================================================================
