-------------------------- MODULE ProbeRoundProofs --------------------------
(***************************************************************************)
(* The probe round with its goroutines implements Measurement and keeps to *)
(* its limit, for any agents, answers and limits.                          *)
(***************************************************************************)
EXTENDS ProbeRound, FiniteSetTheorems, TLAPS

\* Between rounds no goroutine runs and none is left to start.
Quiet == ~running => unspawned = {} /\ DOMAIN call = {}

\* Answers on their way to the map, and in it, were given in this round.
AnswersGiven ==
    /\ given \in [Keys(roster) -> SUBSET Answers]
    /\ \A c \in DOMAIN answer : answer[c] \in given[Key(roster, c)]
    /\ \A p \in DOMAIN matrix : matrix[p] \in given[p]

\* Every call is still to be made, being made, or in the map.
Pending(c) == c \in DOMAIN call /\ call[c] \in {"waiting", "probing", "answered"}

Covered ==
    \A c \in Calls(roster) :
        c \in unspawned \/ Pending(c) \/ Key(roster, c) \in DOMAIN matrix

Limited == limit \in Int /\ capacity = Capacity(limit)

IInv == TypeOK /\ Quiet /\ AnswersGiven /\ Covered /\ Limited

-----------------------------------------------------------------------------
\* The semaphore counts the goroutines that hold a slot: it is finite, being
\* part of those that run.
LEMMA HoldingFinite ==
    ASSUME TypeOK
    PROVE  IsFiniteSet(Holding) /\ Cardinality(Holding) \in Nat
<1>1. Holding \in SUBSET DOMAIN call
  BY DEF Holding
<1> QED
  BY <1>1, FS_Subset, FS_CardinalityType DEF TypeOK

\* A goroutine that goes on changes the state of no other one.
LEMMA GoesOn ==
    ASSUME TypeOK, NEW c, NEW from, NEW to, Goes(c, from, to),
           to \in {"waiting", "probing", "answered", "stored", "released"}
    PROVE  /\ c \in DOMAIN call /\ c \in Calls(roster) /\ call[c] = from /\ call'[c] = to
           /\ DOMAIN call' = DOMAIN call
           /\ \A d \in DOMAIN call : d # c => call'[d] = call[d]
           /\ call' \in [DOMAIN call' -> {"waiting", "probing", "answered", "stored", "released"}]
BY DEF Goes, TypeOK

-----------------------------------------------------------------------------
(* One step of the invariant per action. *)

\* The first round starts from an empty state.
LEMMA InitHolds == Init => IInv
<1> SUFFICES ASSUME Init PROVE IInv
  OBVIOUS
<1>1. Calls(roster) = {} /\ Keys(roster) = {}
  BY DEF Init, MInit, Calls, Keys
<1>2. DOMAIN call = {} /\ DOMAIN answer = {} /\ DOMAIN matrix = {} /\ Holding = {}
  BY DEF Init, Nothing, NoMatrix, Holding
<1>3. TypeOK
  <2>1. roster = <<>> /\ running \in BOOLEAN /\ unspawned \subseteq Calls(roster)
    BY DEF Init, MInit
  <2>2. call \in [DOMAIN call -> {"waiting", "probing", "answered", "stored", "released"}]
    BY <1>2 DEF Init, Nothing
  <2>3. {c \in DOMAIN call : call[c] = "answered"} = {} /\ answer \in [{} -> Answers]
    BY <1>2 DEF Init, Nothing
  <2>4. matrix \in [DOMAIN matrix -> Answers] /\ DOMAIN matrix \subseteq Keys(roster)
    BY <1>2 DEF Init, NoMatrix
  <2>5. /\ IsFiniteSet(DOMAIN call) /\ wg = Cardinality(DOMAIN call)
        /\ slots = Cardinality(Holding) /\ slots <= capacity /\ capacity \in Nat
    BY <1>2, FS_EmptySet DEF Init
  <2> QED
    BY <1>2, <2>1, <2>2, <2>3, <2>4, <2>5 DEF TypeOK
<1>4. AnswersGiven
  BY <1>1, <1>2 DEF AnswersGiven, Init, MInit
<1> QED
  BY <1>1, <1>2, <1>3, <1>4 DEF IInv, Quiet, Covered, Limited, Init, MInit, Capacity

\* A round starts with all its calls to be made and an empty map.
LEMMA StartStep ==
    ASSUME IInv, NEW agents \in Rosters, NEW max \in Limits, Start(agents, max)
    PROVE  IInv'
<1>1. unspawned' = Calls(roster') /\ roster' = agents /\ DOMAIN call' = {} /\ DOMAIN answer' = {}
  BY DEF Start, Begin, IInv, Quiet, TypeOK
<1>2. matrix' = NoMatrix /\ DOMAIN matrix' = {}
  BY DEF Start, NewMatrix, NoMatrix
<1>3. Holding' = {} /\ Holding = {}
  BY <1>1 DEF Holding, Start
<1>4. max \in Int /\ Capacity(max) \in Nat /\ Capacity(max) >= 0
  BY LimitsAssumption DEF Capacity
<1>5. TypeOK'
  BY <1>1, <1>2, <1>3, <1>4, FS_EmptySet DEF TypeOK, Start, Begin, IInv
<1>6. AnswersGiven'
  BY <1>1, <1>2 DEF AnswersGiven, Start, Begin
<1> QED
  BY <1>1, <1>4, <1>5, <1>6 DEF IInv, Quiet, Covered, Limited, Start, Begin

\* The goroutine of a call is started, and counted.
LEMMA SpawnStep ==
    ASSUME IInv, NEW c \in unspawned, Spawn(c)
    PROVE  IInv'
<1>1. /\ DOMAIN call' = DOMAIN call \cup {c} /\ c \notin DOMAIN call /\ c \in Calls(roster)
      /\ call'[c] = "waiting" /\ \A d \in DOMAIN call : call'[d] = call[d]
  BY DEF Spawn, IInv, TypeOK
<1>2. Holding' = Holding
  BY <1>1 DEF Holding
<1>3. IsFiniteSet(DOMAIN call') /\ wg' = Cardinality(DOMAIN call')
  BY <1>1, FS_AddElement DEF Spawn, IInv, TypeOK
<1>4. {d \in DOMAIN call' : call'[d] = "answered"} = {d \in DOMAIN call : call[d] = "answered"}
  BY <1>1
<1>5. call' \in [DOMAIN call' -> {"waiting", "probing", "answered", "stored", "released"}]
  BY <1>1 DEF Spawn, IInv, TypeOK
<1>6. TypeOK'
  BY <1>1, <1>2, <1>3, <1>4, <1>5 DEF TypeOK, Spawn, measurementVars, IInv
<1>7. Covered'
  BY <1>1 DEF Covered, Pending, Spawn, measurementVars, IInv
<1> QED
  BY <1>6, <1>7 DEF IInv, Quiet, AnswersGiven, Limited, Spawn, measurementVars

\* A waiting goroutine takes a free slot.
LEMMA AcquireStep ==
    ASSUME IInv, NEW c \in DOMAIN call, Acquire(c)
    PROVE  IInv'
<1>1. /\ c \in DOMAIN call /\ c \in Calls(roster) /\ call[c] = "waiting" /\ call'[c] = "probing"
      /\ DOMAIN call' = DOMAIN call
      /\ \A d \in DOMAIN call : d # c => call'[d] = call[d]
      /\ call' \in [DOMAIN call' -> {"waiting", "probing", "answered", "stored", "released"}]
  BY GoesOn DEF Acquire, IInv
<1>2. Holding' = Holding \cup {c} /\ c \notin Holding
  BY <1>1 DEF Holding
<1>3. slots' = Cardinality(Holding')
  BY <1>2, HoldingFinite, FS_AddElement DEF Acquire, IInv, TypeOK
<1>4. slots' <= capacity'
  BY HoldingFinite DEF Acquire, SlotFree, IInv, TypeOK
<1>5. {d \in DOMAIN call' : call'[d] = "answered"} = {d \in DOMAIN call : call[d] = "answered"}
  BY <1>1
<1>6. TypeOK'
  BY <1>1, <1>3, <1>4, <1>5 DEF TypeOK, Acquire, measurementVars, IInv
<1>7. Covered'
  BY <1>1 DEF Covered, Pending, Acquire, measurementVars, IInv
<1> QED
  BY <1>1, <1>6, <1>7 DEF IInv, Quiet, AnswersGiven, Limited, Acquire, measurementVars

\* An agent's answer, or the failure to get one, is given.
LEMMA AnswerStep ==
    ASSUME IInv, NEW c \in DOMAIN call, NEW r \in Answers, Answer(c, r)
    PROVE  IInv'
<1>1. /\ c \in DOMAIN call /\ c \in Calls(roster) /\ call[c] = "probing" /\ call'[c] = "answered"
      /\ DOMAIN call' = DOMAIN call
      /\ \A d \in DOMAIN call : d # c => call'[d] = call[d]
      /\ call' \in [DOMAIN call' -> {"waiting", "probing", "answered", "stored", "released"}]
  BY GoesOn DEF Answer, IInv
<1>2. Holding' = Holding
  BY <1>1 DEF Holding
<1>3. Key(roster, c) \in Keys(roster)
  BY <1>1 DEF Keys
<1>4. {d \in DOMAIN call' : call'[d] = "answered"} = {d \in DOMAIN call : call[d] = "answered"} \cup {c}
  BY <1>1
<1>5. answer' \in [{d \in DOMAIN call' : call'[d] = "answered"} -> Answers]
  BY <1>4 DEF Answer, IInv, TypeOK
<1>6. TypeOK'
  BY <1>1, <1>2, <1>5 DEF TypeOK, Answer, IInv
<1>7. given' \in [Keys(roster) -> SUBSET Answers] /\ r \in given'[Key(roster, c)]
      /\ \A p \in Keys(roster) : given[p] \subseteq given'[p]
  BY <1>3 DEF Answer, IInv, AnswersGiven
<1>8. \A d \in DOMAIN answer : Key(roster, d) \in Keys(roster)
  BY DEF IInv, TypeOK, Keys
<1>9. AnswersGiven'
  BY <1>7, <1>8 DEF AnswersGiven, Answer, IInv, TypeOK
<1>10. Covered'
  BY <1>1 DEF Covered, Pending, Answer, IInv
<1> QED
  BY <1>1, <1>6, <1>9, <1>10 DEF IInv, Quiet, Limited, Answer

\* The answer goes from the goroutine into the map.
LEMMA StoreStep ==
    ASSUME IInv, NEW c \in DOMAIN call, Store(c)
    PROVE  IInv'
<1>1. /\ c \in DOMAIN call /\ c \in Calls(roster) /\ call[c] = "answered" /\ call'[c] = "stored"
      /\ DOMAIN call' = DOMAIN call
      /\ \A d \in DOMAIN call : d # c => call'[d] = call[d]
      /\ call' \in [DOMAIN call' -> {"waiting", "probing", "answered", "stored", "released"}]
  BY GoesOn DEF Store, IInv
<1>2. Holding' = Holding
  BY <1>1 DEF Holding
<1>3. Key(roster, c) \in Keys(roster)
  BY <1>1 DEF Keys
<1>4. {d \in DOMAIN call' : call'[d] = "answered"} = {d \in DOMAIN call : call[d] = "answered"} \ {c}
  BY <1>1
<1>5. DOMAIN answer = {d \in DOMAIN call : call[d] = "answered"} /\ c \in DOMAIN answer
      /\ answer[c] \in Answers
  BY <1>1 DEF IInv, TypeOK
<1>6. answer' = [d \in DOMAIN answer \ {c} |-> answer[d]]
  BY DEF Store, Without, Restrict
<1>7. answer' \in [{d \in DOMAIN call' : call'[d] = "answered"} -> Answers]
  BY <1>4, <1>5, <1>6 DEF IInv, TypeOK
<1>8. /\ DOMAIN matrix' = DOMAIN matrix \cup {Key(roster, c)}
      /\ \A p \in DOMAIN matrix' : matrix'[p] = IF p = Key(roster, c) THEN answer[c] ELSE matrix[p]
      /\ matrix' \in [DOMAIN matrix' -> Answers]
  BY <1>5 DEF Store, IInv, TypeOK
<1>9. TypeOK'
  BY <1>1, <1>2, <1>3, <1>7, <1>8 DEF TypeOK, Store, measurementVars, IInv
<1>10. AnswersGiven'
  BY <1>5, <1>6, <1>8 DEF AnswersGiven, Store, measurementVars, IInv
<1>11. Covered'
  BY <1>1, <1>8 DEF Covered, Pending, Store, measurementVars, IInv
<1> QED
  BY <1>1, <1>9, <1>10, <1>11 DEF IInv, Quiet, Limited, Store, measurementVars

\* The slot is given back.
LEMMA ReleaseStep ==
    ASSUME IInv, NEW c \in DOMAIN call, Release(c)
    PROVE  IInv'
<1>1. /\ c \in DOMAIN call /\ c \in Calls(roster) /\ call[c] = "stored" /\ call'[c] = "released"
      /\ DOMAIN call' = DOMAIN call
      /\ \A d \in DOMAIN call : d # c => call'[d] = call[d]
      /\ call' \in [DOMAIN call' -> {"waiting", "probing", "answered", "stored", "released"}]
  BY GoesOn DEF Release, IInv
<1>2. Holding' = Holding \ {c} /\ c \in Holding
  BY <1>1 DEF Holding
<1>3. slots' = Cardinality(Holding')
  BY <1>2, HoldingFinite, FS_RemoveElement DEF Release, IInv, TypeOK
<1>4. slots' <= capacity'
  BY HoldingFinite DEF Release, IInv, TypeOK
<1>5. {d \in DOMAIN call' : call'[d] = "answered"} = {d \in DOMAIN call : call[d] = "answered"}
  BY <1>1
<1>6. TypeOK'
  BY <1>1, <1>3, <1>4, <1>5 DEF TypeOK, Release, measurementVars, IInv
<1>7. Covered'
  BY <1>1 DEF Covered, Pending, Release, measurementVars, IInv
<1> QED
  BY <1>1, <1>6, <1>7 DEF IInv, Quiet, AnswersGiven, Limited, Release, measurementVars

\* The goroutine ends, and is counted off.
LEMMA DoneStep ==
    ASSUME IInv, NEW c \in DOMAIN call, Done(c)
    PROVE  IInv'
<1>1. call' = [d \in DOMAIN call \ {c} |-> call[d]] /\ call[c] = "released"
  BY DEF Done, Without, Restrict
<1>2. Holding' = Holding
  BY <1>1 DEF Holding
<1>3. IsFiniteSet(DOMAIN call') /\ wg' = Cardinality(DOMAIN call')
  BY <1>1, FS_RemoveElement DEF Done, IInv, TypeOK
<1>4. {d \in DOMAIN call' : call'[d] = "answered"} = {d \in DOMAIN call : call[d] = "answered"}
  BY <1>1
<1>5. call' \in [DOMAIN call' -> {"waiting", "probing", "answered", "stored", "released"}]
  BY <1>1 DEF IInv, TypeOK
<1>6. TypeOK'
  BY <1>1, <1>2, <1>3, <1>4, <1>5 DEF TypeOK, Done, measurementVars, IInv
<1>7. Covered'
  BY <1>1 DEF Covered, Pending, Done, measurementVars, IInv
<1> QED
  BY <1>1, <1>6, <1>7 DEF IInv, Quiet, AnswersGiven, Limited, Done, measurementVars

\* With the wait group at zero and nothing left to start, no goroutine runs,
\* so every call is in the map.
LEMMA AllCovered ==
    ASSUME IInv, Return
    PROVE  DOMAIN call = {} /\ DOMAIN matrix = Keys(roster)
<1>1. DOMAIN call = {}
  BY FS_EmptySet DEF Return, Waited, IInv, TypeOK
<1>2. \A c \in Calls(roster) : Key(roster, c) \in DOMAIN matrix
  BY <1>1 DEF Return, IInv, Covered, Pending
<1> QED
  BY <1>1, <1>2 DEF IInv, TypeOK, Keys

\* The round returns.
LEMMA ReturnStep ==
    ASSUME IInv, Return
    PROVE  IInv'
<1>1. TypeOK'
  BY DEF TypeOK, Return, roundVars, IInv, Holding
<1> QED
  BY <1>1, AllCovered DEF IInv, Quiet, AnswersGiven, Covered, Pending, Limited, Return, roundVars

-----------------------------------------------------------------------------
\* Any step of the round keeps the invariant.
LEMMA RoundStep ==
    ASSUME IInv, [Next]_vars
    PROVE  IInv'
<1>1. CASE \E agents \in Rosters, max \in Limits : Start(agents, max)
  BY <1>1, StartStep
<1>2. CASE \E c \in unspawned : Spawn(c)
  BY <1>2, SpawnStep
<1>3. CASE Return
  BY <1>3, ReturnStep
<1>4. CASE \E c \in DOMAIN call : Acquire(c)
  BY <1>4, AcquireStep
<1>5. CASE \E c \in DOMAIN call, r \in Answers : Answer(c, r)
  BY <1>5, AnswerStep
<1>6. CASE \E c \in DOMAIN call : Store(c)
  BY <1>6, StoreStep
<1>7. CASE \E c \in DOMAIN call : Release(c)
  BY <1>7, ReleaseStep
<1>8. CASE \E c \in DOMAIN call : Done(c)
  BY <1>8, DoneStep
<1>9. CASE UNCHANGED vars
  BY <1>9 DEF vars, roundVars, IInv, TypeOK, Quiet, AnswersGiven, Covered, Pending, Limited, Holding
<1> QED
  BY <1>1, <1>2, <1>3, <1>4, <1>5, <1>6, <1>7, <1>8, <1>9 DEF Next, Runs

\* Every reachable state of the round is typed, covers all calls, holds only
\* answers of this round, and is quiet between rounds.
THEOREM InductiveInvariant == Spec => []IInv
<1>1. IInv /\ [Next]_vars => IInv'
  BY RoundStep
<1> QED
  BY <1>1, InitHolds, PTL DEF Spec

\* The state is well typed; in particular the semaphore and the wait group
\* count what they are meant to count.
THEOREM RoundTypeCorrect == Spec => []TypeOK
BY InductiveInvariant, PTL DEF IInv

\* No more agents are asked at a time than the limit allows, and none between
\* rounds.
THEOREM BoundCorrect == Spec => []ConcurrencyBound
<1>1. IInv => ConcurrencyBound
  <2> SUFFICES ASSUME IInv PROVE ConcurrencyBound
    OBVIOUS
  <2> DEFINE Probing == {c \in DOMAIN call : call[c] = "probing"}
  <2>1. Probing \in SUBSET Holding
    BY DEF Holding
  <2>2. Cardinality(Probing) <= Cardinality(Holding) /\ Cardinality(Probing) \in Nat
    BY <2>1, HoldingFinite, FS_Subset, FS_CardinalityType DEF IInv
  <2>3. Cardinality(Probing) <= capacity
    BY <2>2, HoldingFinite DEF IInv, TypeOK
  <2>4. capacity = IF limit > 0 THEN limit ELSE 1
    BY DEF IInv, Limited, Capacity
  <2>5. ~running => call = Nothing
    BY DEF IInv, Quiet, TypeOK, Nothing
  <2> QED
    BY <2>3, <2>4, <2>5 DEF ConcurrencyBound
<1> QED
  BY <1>1, InductiveInvariant, PTL

\* As long as a round runs, somebody can go on: if all goroutines wait, none
\* holds a slot, and there is one.
THEOREM NeverStuckCorrect == Spec => []NeverStuck
<1>1. IInv => NeverStuck
  <2> SUFFICES ASSUME IInv, wg # 0 PROVE \E c \in DOMAIN call : call[c] # "waiting" \/ slots < capacity
    BY DEF NeverStuck
  <2>1. PICK c \in DOMAIN call : TRUE
    <3>1. DOMAIN call # {}
      BY FS_EmptySet DEF IInv, TypeOK
    <3> QED
      BY <3>1
  <2>2. CASE \A d \in DOMAIN call : call[d] = "waiting"
    <3>1. Holding = {}
      BY <2>2 DEF Holding
    <3>2. slots = 0
      BY <3>1, FS_EmptySet DEF IInv, TypeOK
    <3>3. capacity \in Nat /\ capacity >= 1
      BY DEF IInv, TypeOK, Limited, Capacity
    <3> QED
      BY <2>1, <3>2, <3>3
  <2> QED
    BY <2>2
<1> QED
  BY <1>1, InductiveInvariant, PTL

-----------------------------------------------------------------------------
(* The length of a round. *)

\* Calls that have at least 1, 2, .. 5 steps of their goroutine before them.
After(stages) == {c \in DOMAIN call : call[c] \in stages}

ToEnd     == DOMAIN call
ToRelease == After({"waiting", "probing", "answered", "stored"})
ToStore   == After({"waiting", "probing", "answered"})
ToAnswer  == After({"waiting", "probing"})
ToAcquire == After({"waiting"})

\* Each call still to be started has six steps, and the round one more, the
\* return.
StepsLeft ==
    6 * Cardinality(unspawned)
    + Cardinality(ToEnd) + Cardinality(ToRelease) + Cardinality(ToStore)
    + Cardinality(ToAnswer) + Cardinality(ToAcquire)
    + (IF running THEN 1 ELSE 0)

\* All these sets are finite: there are as many pairs as the agents have.
LEMMA StagesFinite ==
    ASSUME IInv
    PROVE  /\ IsFiniteSet(unspawned) /\ IsFiniteSet(ToEnd) /\ IsFiniteSet(ToRelease)
           /\ IsFiniteSet(ToStore) /\ IsFiniteSet(ToAnswer) /\ IsFiniteSet(ToAcquire)
<1>1. IsFiniteSet(unspawned)
  <2>1. IsFiniteSet(DOMAIN roster)
    BY MeasurementAssumption, FS_EmptySet DEF IInv, TypeOK
  <2>2. IsFiniteSet((DOMAIN roster) \X (DOMAIN roster))
    BY <2>1, FS_Product
  <2>3. unspawned \in SUBSET ((DOMAIN roster) \X (DOMAIN roster))
    BY DEF IInv, TypeOK, Calls
  <2> QED
    BY <2>2, <2>3, FS_Subset
<1>2. IsFiniteSet(ToEnd)
  BY DEF IInv, TypeOK, ToEnd
<1>3. \A stages : IsFiniteSet(After(stages))
  <2> SUFFICES ASSUME NEW stages PROVE IsFiniteSet(After(stages))
    OBVIOUS
  <2>1. After(stages) \in SUBSET ToEnd
    BY DEF After, ToEnd
  <2> QED
    BY <2>1, <1>2, FS_Subset
<1> QED
  BY <1>1, <1>2, <1>3 DEF ToRelease, ToStore, ToAnswer, ToAcquire

\* So each has a number.
LEMMA StagesCounted ==
    ASSUME IInv
    PROVE  /\ Cardinality(unspawned) \in Nat /\ Cardinality(ToEnd) \in Nat
           /\ Cardinality(ToRelease) \in Nat /\ Cardinality(ToStore) \in Nat
           /\ Cardinality(ToAnswer) \in Nat /\ Cardinality(ToAcquire) \in Nat
BY StagesFinite, FS_CardinalityType

\* A set that loses an element is one smaller.
LEMMA OneLess ==
    ASSUME NEW S, IsFiniteSet(S), NEW x \in S, NEW T, T = S \ {x}
    PROVE  Cardinality(T) = Cardinality(S) - 1
BY FS_RemoveElement

\* A set that gains one is one larger.
LEMMA OneMore ==
    ASSUME NEW S, IsFiniteSet(S), NEW x, x \notin S, NEW T, T = S \cup {x}
    PROVE  Cardinality(T) = Cardinality(S) + 1
BY FS_AddElement

\* A goroutine that goes on leaves the set of those before its step and stays
\* in the others.
LEMMA StageLeft ==
    ASSUME IInv, NEW c, NEW from, NEW to, Goes(c, from, to),
           \/ from = "waiting" /\ to = "probing"
           \/ from = "probing" /\ to = "answered"
           \/ from = "answered" /\ to = "stored"
           \/ from = "stored" /\ to = "released"
    PROVE  /\ ToEnd' = ToEnd
           /\ c \in ToRelease /\ ToRelease' = IF from = "stored" THEN ToRelease \ {c} ELSE ToRelease
           /\ from # "stored" => c \in ToStore
           /\ ToStore' = IF from = "answered" THEN ToStore \ {c} ELSE ToStore
           /\ from \in {"waiting", "probing"} => c \in ToAnswer
           /\ ToAnswer' = IF from = "probing" THEN ToAnswer \ {c} ELSE ToAnswer
           /\ from = "waiting" => c \in ToAcquire
           /\ ToAcquire' = IF from = "waiting" THEN ToAcquire \ {c} ELSE ToAcquire
<1>1. /\ c \in DOMAIN call /\ call[c] = from /\ call'[c] = to
      /\ DOMAIN call' = DOMAIN call
      /\ \A d \in DOMAIN call : d # c => call'[d] = call[d]
  BY GoesOn DEF IInv
<1>2. ToEnd' = ToEnd
  BY <1>1 DEF ToEnd
<1>3. c \in ToRelease /\ ToRelease' = IF from = "stored" THEN ToRelease \ {c} ELSE ToRelease
  BY <1>1 DEF ToRelease, After
<1>4. /\ from # "stored" => c \in ToStore
      /\ ToStore' = IF from = "answered" THEN ToStore \ {c} ELSE ToStore
  BY <1>1 DEF ToStore, After
<1>5. /\ from \in {"waiting", "probing"} => c \in ToAnswer
      /\ ToAnswer' = IF from = "probing" THEN ToAnswer \ {c} ELSE ToAnswer
  BY <1>1 DEF ToAnswer, After
<1>6. /\ from = "waiting" => c \in ToAcquire
      /\ ToAcquire' = IF from = "waiting" THEN ToAcquire \ {c} ELSE ToAcquire
  BY <1>1 DEF ToAcquire, After
<1> QED
  BY <1>2, <1>3, <1>4, <1>5, <1>6

\* A step of a goroutine that is neither its first nor its last.
LEMMA GoesShrinks ==
    ASSUME IInv, NEW c, NEW from, NEW to, Goes(c, from, to),
           \/ from = "waiting" /\ to = "probing"
           \/ from = "probing" /\ to = "answered"
           \/ from = "answered" /\ to = "stored"
           \/ from = "stored" /\ to = "released",
           UNCHANGED <<unspawned, running>>
    PROVE  StepsLeft' = StepsLeft - 1
<1>1. CASE from = "waiting"
  <2>1. Cardinality(ToAcquire') = Cardinality(ToAcquire) - 1
    BY <1>1, StageLeft, StagesFinite, OneLess
  <2>2. UNCHANGED <<ToEnd, ToRelease, ToStore, ToAnswer>>
    BY <1>1, StageLeft
  <2> QED
    BY <2>1, <2>2, StagesCounted DEF StepsLeft
<1>2. CASE from = "probing"
  <2>1. Cardinality(ToAnswer') = Cardinality(ToAnswer) - 1
    BY <1>2, StageLeft, StagesFinite, OneLess
  <2>2. UNCHANGED <<ToEnd, ToRelease, ToStore, ToAcquire>>
    BY <1>2, StageLeft
  <2> QED
    BY <2>1, <2>2, StagesCounted DEF StepsLeft
<1>3. CASE from = "answered"
  <2>1. Cardinality(ToStore') = Cardinality(ToStore) - 1
    BY <1>3, StageLeft, StagesFinite, OneLess
  <2>2. UNCHANGED <<ToEnd, ToRelease, ToAnswer, ToAcquire>>
    BY <1>3, StageLeft
  <2> QED
    BY <2>1, <2>2, StagesCounted DEF StepsLeft
<1>4. CASE from = "stored"
  <2>1. Cardinality(ToRelease') = Cardinality(ToRelease) - 1
    BY <1>4, StageLeft, StagesFinite, OneLess
  <2>2. UNCHANGED <<ToEnd, ToStore, ToAnswer, ToAcquire>>
    BY <1>4, StageLeft
  <2> QED
    BY <2>1, <2>2, StagesCounted DEF StepsLeft
<1> QED
  BY <1>1, <1>2, <1>3, <1>4

\* A goroutine is started: one call less to start, five steps more to do.
LEMMA SpawnShrinks ==
    ASSUME IInv, NEW c \in unspawned, Spawn(c)
    PROVE  StepsLeft' = StepsLeft - 1
<1>1. /\ DOMAIN call' = DOMAIN call \cup {c} /\ c \notin DOMAIN call
      /\ call'[c] = "waiting" /\ \A d \in DOMAIN call : call'[d] = call[d]
      /\ unspawned' = unspawned \ {c} /\ running' = running
  BY DEF Spawn, IInv, TypeOK, measurementVars
<1>2. \A stages : "waiting" \in stages => (After(stages))' = After(stages) \cup {c}
  BY <1>1 DEF After
<1>3. /\ ToEnd' = ToEnd \cup {c} /\ ToRelease' = ToRelease \cup {c} /\ ToStore' = ToStore \cup {c}
      /\ ToAnswer' = ToAnswer \cup {c} /\ ToAcquire' = ToAcquire \cup {c}
  BY <1>1, <1>2 DEF ToEnd, ToRelease, ToStore, ToAnswer, ToAcquire
<1>4. c \notin ToEnd /\ c \notin ToRelease /\ c \notin ToStore /\ c \notin ToAnswer /\ c \notin ToAcquire
  BY <1>1 DEF ToEnd, ToRelease, ToStore, ToAnswer, ToAcquire, After
<1>5. Cardinality(unspawned') = Cardinality(unspawned) - 1
  BY <1>1, StagesFinite, OneLess
<1>6. /\ Cardinality(ToEnd') = Cardinality(ToEnd) + 1
      /\ Cardinality(ToRelease') = Cardinality(ToRelease) + 1
      /\ Cardinality(ToStore') = Cardinality(ToStore) + 1
      /\ Cardinality(ToAnswer') = Cardinality(ToAnswer) + 1
      /\ Cardinality(ToAcquire') = Cardinality(ToAcquire) + 1
  BY <1>3, <1>4, StagesFinite, OneMore
<1>7. 6 * Cardinality(unspawned') = 6 * Cardinality(unspawned) - 6
  BY <1>5, StagesCounted
<1> QED
  BY <1>1, <1>6, <1>7, StagesCounted DEF StepsLeft

\* A goroutine ends.
LEMMA DoneShrinks ==
    ASSUME IInv, NEW c \in DOMAIN call, Done(c)
    PROVE  StepsLeft' = StepsLeft - 1
<1>1. call' = [d \in DOMAIN call \ {c} |-> call[d]] /\ call[c] = "released"
  BY DEF Done, Without, Restrict
<1>2. \A stages : "released" \notin stages => (After(stages))' = After(stages)
  BY <1>1 DEF After
<1>3. UNCHANGED <<ToRelease, ToStore, ToAnswer, ToAcquire>>
  BY <1>2 DEF ToRelease, ToStore, ToAnswer, ToAcquire
<1>4. Cardinality(ToEnd') = Cardinality(ToEnd) - 1
  BY <1>1, StagesFinite, OneLess DEF ToEnd
<1> QED
  BY <1>3, <1>4, StagesCounted DEF StepsLeft, Done, measurementVars

\* The round returns, and a step of it is left until then.
LEMMA ReturnShrinks ==
    ASSUME IInv, Return
    PROVE  StepsLeft' = StepsLeft - 1
<1>1. UNCHANGED <<unspawned, call>> /\ running /\ running' = FALSE
  BY DEF Return, roundVars
<1>2. UNCHANGED <<ToEnd, ToRelease, ToStore, ToAnswer, ToAcquire>>
  BY <1>1 DEF ToEnd, ToRelease, ToStore, ToAnswer, ToAcquire, After
<1> QED
  BY <1>1, <1>2, StagesCounted DEF StepsLeft

\* Each step of a round brings it one nearer to its end: with n pairs to ask
\* it takes 6n + 1, in whatever order the goroutines go.  With NeverStuck this
\* is what RoundsEnd rests on.
THEOREM RoundTakesItsSteps ==
    Spec => [][/\ StepsLeft \in Nat
               /\ \A agents \in Rosters, max \in Limits :
                     Start(agents, max) => StepsLeft' = 6 * Cardinality(Calls(agents)) + 1
               /\ Runs => StepsLeft' = StepsLeft - 1]_vars
<1>1. ASSUME IInv PROVE StepsLeft \in Nat
  BY <1>1, StagesCounted DEF StepsLeft
<1>2. ASSUME IInv, NEW agents \in Rosters, NEW max \in Limits, Start(agents, max)
      PROVE  StepsLeft' = 6 * Cardinality(Calls(agents)) + 1
  <2>1. unspawned' = Calls(agents) /\ running' /\ DOMAIN call' = {}
    BY <1>2 DEF Start, Begin, IInv, Quiet
  <2>2. /\ ToEnd' = {} /\ ToRelease' = {} /\ ToStore' = {} /\ ToAnswer' = {} /\ ToAcquire' = {}
    BY <2>1 DEF ToEnd, ToRelease, ToStore, ToAnswer, ToAcquire, After
  <2>3. (Cardinality(unspawned) \in Nat)'
    <3>1. IInv'
      BY <1>2, StartStep
    <3> QED
      BY <3>1, StagesCounted, PTL
  <2> QED
    BY <2>1, <2>2, <2>3, FS_EmptySet DEF StepsLeft
<1>3. ASSUME IInv, Runs PROVE StepsLeft' = StepsLeft - 1
  <2>1. CASE \E c \in unspawned : Spawn(c)
    BY <1>3, <2>1, SpawnShrinks
  <2>2. CASE Return
    BY <1>3, <2>2, ReturnShrinks
  <2>3. CASE \E c \in DOMAIN call : \/ Acquire(c)
                                    \/ \E r \in Answers : Answer(c, r)
                                    \/ Store(c)
                                    \/ Release(c)
    <3>1. /\ UNCHANGED <<unspawned, running>>
          /\ \E c : \/ Goes(c, "waiting", "probing")
                   \/ Goes(c, "probing", "answered")
                   \/ Goes(c, "answered", "stored")
                   \/ Goes(c, "stored", "released")
      BY <2>3 DEF Acquire, Answer, Store, Release, measurementVars
    <3> QED
      BY <1>3, <3>1, GoesShrinks
  <2>4. CASE \E c \in DOMAIN call : Done(c)
    BY <1>3, <2>4, DoneShrinks
  <2> QED
    BY <1>3, <2>1, <2>2, <2>3, <2>4 DEF Runs
<1>4. IInv => [/\ StepsLeft \in Nat
               /\ \A agents \in Rosters, max \in Limits :
                     Start(agents, max) => StepsLeft' = 6 * Cardinality(Calls(agents)) + 1
               /\ Runs => StepsLeft' = StepsLeft - 1]_vars
  BY <1>1, <1>2, <1>3
<1> QED
  BY <1>4, InductiveInvariant, PTL

-----------------------------------------------------------------------------
(* The refinement. *)

\* Each step of the round is a step of Measurement or changes nothing it
\* speaks of.
LEMMA MeasurementStep ==
    ASSUME IInv, [Next]_vars
    PROVE  [MNext]_measurementVars
<1>1. CASE \E agents \in Rosters, max \in Limits : Start(agents, max)
  BY <1>1 DEF Start, MNext
<1>2. CASE Return
  <2>1. DOMAIN result' = Keys(roster)
    BY <1>2, AllCovered DEF Return
  <2>2. \A p \in Keys(roster) : result'[p] \in given[p]
    BY <1>2, AllCovered DEF Return, IInv, AnswersGiven
  <2> QED
    BY <1>2, <2>1, <2>2 DEF Return, MNext, End
<1>3. ASSUME NEW c \in DOMAIN call, NEW r \in Answers, Answer(c, r)
      PROVE  \E p \in Keys(roster) : Give(p, r)
  <2>1. c \in Calls(roster) /\ running
    BY <1>3 DEF IInv, TypeOK, Quiet
  <2>2. Key(roster, c) \in Keys(roster)
    BY <2>1 DEF Keys
  <2> QED
    BY <1>3, <2>1, <2>2 DEF Answer, Give
<1>4. CASE \E c \in DOMAIN call, r \in Answers : Answer(c, r)
  BY <1>3, <1>4 DEF MNext
<1>5. CASE \/ \E c \in unspawned : Spawn(c)
           \/ \E c \in DOMAIN call : Acquire(c) \/ Store(c) \/ Release(c) \/ Done(c)
           \/ UNCHANGED vars
  BY <1>5 DEF Spawn, Acquire, Store, Release, Done, vars, measurementVars
<1> QED
  BY <1>1, <1>2, <1>4, <1>5 DEF Next, Runs

\* The round with its goroutines implements the round as Measurement promises
\* it.
THEOREM RoundImplements == Spec => ImplementsMeasurement
<1>1. Init => MInit
  BY DEF Init
<1>2. IInv /\ [Next]_vars => [MNext]_measurementVars
  BY MeasurementStep
<1> QED
  BY <1>1, <1>2, InductiveInvariant, PTL DEF Spec, ImplementsMeasurement, MSpec
=============================================================================
