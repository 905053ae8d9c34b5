----------------------------- MODULE ProbeRound -----------------------------
(***************************************************************************)
(* runProbeRound (code/internal/controller/prober.go) with its goroutines: *)
(* one per ordered pair of agents, at most capacity of them calling an     *)
(* agent at a time, all writing one map under a mutex, and the controller  *)
(* waiting for the last of them.  Rounds follow one another; each finds    *)
(* other agents and may have another limit.                                *)
(*                                                                         *)
(* What a goroutine is doing:                                              *)
(*   waiting   started, before semaphore <- struct{}{}                     *)
(*   probing   in probeEndpoint                                            *)
(*   answered  before the write to the map                                 *)
(*   stored    before <-semaphore (deferred last, so run first)            *)
(*   released  before probes.Done()                                        *)
(* A goroutine that is done, or not started, is not in the domain of call. *)
(***************************************************************************)
EXTENDS Measurement, Functions

CONSTANT Limits     \* values of maxConcurrentProbes

ASSUME LimitsAssumption == Limits \subseteq Int

VARIABLES
    unspawned,  \* calls whose goroutine is not started yet
    call,       \* state of the goroutines that run
    answer,     \* what a call returned, until it is stored
    matrix,     \* the map of this round
    slots,      \* elements in the semaphore's channel
    capacity,   \* of that channel
    wg,         \* counter of the WaitGroup
    limit       \* for checking only: maxConcurrentProbes of the round

roundVars == <<unspawned, call, answer, matrix, slots, capacity, wg, limit>>
vars == <<roster, running, given, result, roundVars>>

Nothing == [x \in {} |-> x]

\* The entry of x is removed from f.
Without(f, x) == Restrict(f, DOMAIN f \ {x})

Holding == {c \in DOMAIN call : call[c] \in {"probing", "answered", "stored"}}

TypeOK ==
    /\ roster \in Rosters \cup {<<>>} /\ running \in BOOLEAN
    /\ unspawned \subseteq Calls(roster)
    /\ call \in [DOMAIN call -> {"waiting", "probing", "answered", "stored", "released"}]
    /\ DOMAIN call \subseteq Calls(roster) \ unspawned
    /\ answer \in [{c \in DOMAIN call : call[c] = "answered"} -> Answers]
    /\ matrix \in [DOMAIN matrix -> Answers] /\ DOMAIN matrix \subseteq Keys(roster)
    /\ IsFiniteSet(DOMAIN call) /\ wg = Cardinality(DOMAIN call)
    /\ slots = Cardinality(Holding) /\ slots <= capacity /\ capacity \in Nat

Init ==
    /\ MInit
    /\ unspawned = {} /\ call = Nothing /\ answer = Nothing /\ matrix = NoMatrix
    /\ slots = 0 /\ capacity = 1 /\ wg = 0 /\ limit = 1

-----------------------------------------------------------------------------
(* The controller's goroutine. *)

\* Mutant of NewMatrix: the map of the round before is used again.
NewMatrixReused == matrix

NewMatrix == NoMatrix

\* Mutant of Capacity: an unset limit is taken as it is.
CapacityAsGiven(max) == max

Capacity(max) == IF max <= 0 THEN 1 ELSE max

\* Without agents the code returns at once, which is a round without calls.
Start(agents, max) ==
    /\ Begin(agents)
    /\ unspawned' = Calls(agents)
    /\ matrix' = NewMatrix
    /\ capacity' = Capacity(max)
    /\ limit' = max
    /\ UNCHANGED <<call, answer, slots, wg>>

\* The nested loops over i and j: probes.Add(1), then the go statement.
Before(c, d) == c[1] < d[1] \/ (c[1] = d[1] /\ c[2] < d[2])

Spawn(c) ==
    /\ running /\ c \in unspawned
    /\ \A d \in unspawned : d = c \/ Before(c, d)
    /\ unspawned' = unspawned \ {c}
    /\ wg' = wg + 1
    /\ call' = [d \in DOMAIN call \cup {c} |-> IF d = c THEN "waiting" ELSE call[d]]
    /\ UNCHANGED <<measurementVars, answer, matrix, slots, capacity, limit>>

\* Mutant of Waited: probes.Wait() is missing.
NotWaited == TRUE

Waited == wg = 0

Return ==
    /\ running /\ unspawned = {}
    /\ Waited
    /\ running' = FALSE
    /\ result' = matrix
    /\ UNCHANGED <<roster, given, roundVars>>

-----------------------------------------------------------------------------
(* The goroutine of call c. *)

Goes(c, from, to) ==
    /\ c \in DOMAIN call /\ call[c] = from
    /\ call' = [call EXCEPT ![c] = to]

\* Mutant of SlotFree: one call too many.
SlotFreeOffByOne == slots <= capacity

SlotFree == slots < capacity

Acquire(c) ==
    /\ Goes(c, "waiting", "probing")
    /\ SlotFree
    /\ slots' = slots + 1
    /\ UNCHANGED <<measurementVars, unspawned, answer, matrix, capacity, wg, limit>>

\* probeEndpoint returns: the agent's result, or an error that becomes a
\* control failure.
Answer(c, r) ==
    /\ Goes(c, "probing", "answered")
    /\ answer' = [d \in DOMAIN answer \cup {c} |-> IF d = c THEN r ELSE answer[d]]
    /\ given' = [given EXCEPT ![Key(roster, c)] = @ \cup {r}]
    /\ UNCHANGED <<roster, running, result, unspawned, matrix, slots, capacity, wg, limit>>

\* The write under the mutex; for a shared key the last one stays.
Store(c) ==
    /\ Goes(c, "answered", "stored")
    /\ matrix' = [p \in DOMAIN matrix \cup {Key(roster, c)} |->
                    IF p = Key(roster, c) THEN answer[c] ELSE matrix[p]]
    /\ answer' = Without(answer, c)
    /\ UNCHANGED <<measurementVars, unspawned, slots, capacity, wg, limit>>

Release(c) ==
    /\ Goes(c, "stored", "released")
    /\ slots' = slots - 1
    /\ UNCHANGED <<measurementVars, unspawned, answer, matrix, capacity, wg, limit>>

Done(c) ==
    /\ c \in DOMAIN call /\ call[c] = "released"
    /\ wg' = wg - 1
    /\ call' = Without(call, c)
    /\ UNCHANGED <<measurementVars, unspawned, answer, matrix, slots, capacity, limit>>

-----------------------------------------------------------------------------
Runs ==
    \/ \E c \in unspawned : Spawn(c)
    \/ Return
    \/ \E c \in DOMAIN call : \/ Acquire(c)
                              \/ \E r \in Answers : Answer(c, r)
                              \/ Store(c)
                              \/ Release(c)
                              \/ Done(c)

Next ==
    \/ \E agents \in Rosters, max \in Limits : Start(agents, max)
    \/ Runs

Spec == Init /\ [][Next]_vars

\* Every goroutine that can run does so in the end; probeEndpoint returns
\* because its request has a deadline.
FairSpec == Spec /\ WF_vars(Runs)

-----------------------------------------------------------------------------
\* No more agents are being asked at any time than maxConcurrentProbes says,
\* or one if it is not positive, and none once the round is over: a goroutine
\* that outlived its round would add to the load of the next.
ConcurrencyBound ==
    /\ Cardinality({c \in DOMAIN call : call[c] = "probing"}) <= (IF limit > 0 THEN limit ELSE 1)
    /\ ~running => call = Nothing

\* Somebody can always go on: while a round runs, a goroutine is still to be
\* started, or all have ended, or one is past the semaphore or finds it free.
\* The semaphore is not left full by goroutines that have gone.
NeverStuck ==
    running => \/ unspawned # {}
               \/ wg = 0
               \/ \E c \in DOMAIN call : call[c] # "waiting" \/ slots < capacity

\* The round with its goroutines does what Measurement promises: whatever the
\* interleaving, it ends with exactly the keys of its agents, each with an
\* answer of this round, none missing, none left over, none overwritten by a
\* goroutine that comes late.
ImplementsMeasurement == MSpec

\* A round that has begun ends: the semaphore is never left full, no
\* goroutine waits for ever, the wait group reaches zero.
RoundsEnd == running ~> ~running
=============================================================================
