# Verification of the network self-healing operator

TLA+ models, TLC runs and TLAPS proofs for the operator in `src/code`: a Kubernetes
controller that lets agents probe each other over TCP, filters the results, classifies
the failures and publishes the result as the status of `NetworkHealthCheck` objects.

Contents: [the system](#the-system), [the modules](#the-modules), [the runs](#the-runs),
[fairness](#fairness), [disagreements](#where-code-and-documentation-disagree),
[proofs](#what-is-proved), [limits](#what-is-not-modelled), [what could follow](#what-could-follow).

## The system

```
 users ──edit──> API server <──list/get/updateStatus── manager
                                                        │ Run, ReconcileAll            (Manager)
                                                        │ Reconcile                    (Reconciler)
                                                        │   discoverAgents
                                                        │   runProbeRound ──HTTP──> agents ──TCP──> agents
                                                        │   Tracker.Update             (Hysteresis)
                                                        │   stabilizeMatrix            (Reconciler)
                                                        │   analysis.Evaluate          (Classifier)
                                                        │   recordMetrics
                                                        │ buildNetworkHealthCheckStatus (MeshStatus)
                                                        │ PlanRemediation              (Remediation)
```

| Component (`src/code/...`) | State it keeps | Operations | Hard behaviour | What makes it correct |
|:--|:--|:--|:--|:--|
| Contract, `pkg/contract/types.go` | none | none | | |
| Hysteresis tracker, `pkg/analysis/hysteresis.go` | per pair two counters and a flag; two thresholds | `NewTracker`, `Update`, `Stabilize`, `DegradedPairs`, `GetState`, `Reset` | long histories, partial rounds, pairs that come and go, off-by-one at thresholds | the small state is an exact summary of all outcomes since the last reset |
| Classifier, `pkg/analysis/classifier.go`, `evaluate.go`, `config.go` | none | `Evaluate` | overlapping hypotheses, confidence floor, ties broken by map order, doubled nodes | verdicts mean what is documented, blame explains the failures, the result is a function of the matrix |
| Reconciler, `internal/controller/controller.go` | one tracker and its thresholds, latest matrix and verdict, shared by all checks | `Reconcile`, `stabilizeMatrix`, `recordMetrics`, `discoverAgents` | several checks on one tracker, restarts, control-channel errors inside the filter | persistent outcomes are reported, agent errors reach the classifier |
| Status builder, `internal/controller/status.go` | none (reads the old condition) | `buildNetworkHealthCheckStatus` | truncation at 500 entries and 50 pairs | counts describe the full matrix and agree with the verdict |
| Remediation, `internal/controller/remediation.go` | none | `PlanRemediation`, `ExecuteRemediation` (no effect) | | alerts only for confident faults, never executes |
| Polling controller, `internal/controller/networkhealthcheck_controller.go`, `cmd/manager/main.go` | ticker, listing, built status | `Run`, `ReconcileAll`, `ReconcileNetworkHealthCheck` | stale listing, edits and deletions during a round, conflicts, failed requests, lost responses, restarts, long rounds | generations, intervals, plans after publication, convergence, no starvation |
| Probe round, `internal/controller/prober.go` | goroutines, semaphore, matrix under a mutex | `runProbeRound` | last write wins for doubled keys, waiting on the semaphore | the matrix is complete when the round returns |
| Probe call, `internal/controller/probe.go`; agent, `pkg/prober.go`, `pkg/server.go` | deadlines of one request; requests being handled | `probeEndpoint`, `handleProbe`, `ExecuteProbe`, `probeTCP`, data listener | nested timeouts on both sides, callers that give up, requests sent again, agents that restart | what is reported was measured, in full and by this call; an outage is not taken for a mute agent; abandoned work ends |
| Spec parsing, `networkhealthcheck_controller.go`, `controller.go`, `pkg/prober.go` | none | `networkHealthCheckSpecFromResource`, `shouldRun`, defaults in four places | zero and negative durations, whole seconds | both sides of a call agree on its settings; intervals are kept |
| Metrics, `internal/controller/metrics.go` | reads the latest matrix and verdict | `WriteMetrics` | read by scrapes between rounds | counts agree with the recorded matrix |

Interactions. The manager is one process with one controller goroutine; the HTTP handlers
only read `lastMatrix` and `lastVerdict` under a lock. The controller talks to the API
server (list, get, status update with optimistic concurrency) and to agents (one request
per directed pair and round). Users change objects at any time. All checks share one
`Reconciler`, hence one tracker.

## The modules

| Module | Models | State | Actions and operators |
|:--|:--|:--|:--|
| `Contract` | `types.go` | none | results `Reached`, `Unreachable`, `ControlFailure`; classes; confidence as a fraction |
| `Hysteresis` | `hysteresis.go` | none: operators on a tracker value | `NewTracker`, `Update`, `Held`, `Stabilize`, `DegradedPairs`, `Reset` |
| `Tracker` | one tracker fed with rounds | `tracker`, `measured`, and the record `history` | `Round`, `ResetAll` |
| `TrackerProofs` | theorems about `Tracker` | | |
| `Classifier` | `classifier.go` | none | one operator per hypothesis; `Verdicts(m)` is the set of verdicts the code may return for `m` |
| `Classification` | the classifier on every matrix | `matrix`, `verdicts` | `Evaluate` |
| `VerdictProofs` | lemmas and theorems about the operators of `Classifier` | | |
| `ClassificationProofs` | theorems about `Classification` | | |
| `Reconciler` | the evaluation half of `Reconcile` | `tracker`, `lastMatrix`, `lastVerdict` | `TrackerFor`, `stabilizeMatrix`, `Reconcile`, `ReconcilerRestart` |
| `MeshStatus` | `status.go`, `metrics.go` | none | `pairState`, `Summary`, `TransitionTime`, `BuildStatus`, `Metrics` |
| `MeshRounds` | composes Reconciler, Classifier and MeshStatus over rounds | the Reconciler's and the record `recent` | `ProbeRound`, `Restart` |
| `ReconcileRound` | composes ProbeRound with MeshRounds: `Reconcile` with its goroutines | both of theirs; `open` (a round is begun and not evaluated), `using` (the thresholds it was called with) | `StartRound`, `GoOn`, `Evaluate`, `ProcessRestart` |
| `ReconcilerProofs` | lemmas about the tracker's operators as a round uses them | | |
| `MeshRoundsProofs` | theorems about `MeshRounds` and `ReconcileRound` | | |
| `Measurement` | what one probe round promises | `roster`, `running`, `given`, `result` | `Begin`, `Give`, `End` |
| `ProbeRound` | `prober.go`; implements Measurement | goroutines `call`, `answer`, `matrix`, `slots`, `wg` | `Start`, `Spawn`, `Return`; `Acquire`, `Answer`, `Store`, `Release`, `Done` of a goroutine |
| `ProbeRoundProofs` | theorems about `ProbeRound` | | |
| `Remediation` | `remediation.go` | none | `PlanRemediation` |
| `StatusContract` | what readers of statuses and alerts are promised | `shown`, `announced`, `planned` | `Appear`, `Disappear`, `Ask`, `Age`, `Publish`, `MakePlan`, `Forget` |
| `Manager` | implements StatusContract; composes the Reconciler, Classifier, MeshStatus and Remediation with the API server, users and failures | the Reconciler's; `objects`, `network`; the controller's program counter and locals | one action per request or step, see below |
| `ManagerProofs` | theorems about `Manager` | | |
| `CheckSpec` | the settings of a check on their way from the resource to both ends of a call | none | `ParseSpec`, `Reconciled`, `AgentTimeout`, `Deadline` |
| `ProbeCall` | `probe.go`, `prober.go` and `server.go` of the agent, in time | `caller`, `elapsed`, `wire`, `late`, `reply`, `handlers` | see below |
| `PollLoop` | composes ProbeCall with the ticker, `shouldRun` and the calls of a round | `loop`, `ticked`, `toTick`, `todo`, `second`, `idle`, `cut` | `PollDue`, `PollSkips`, `Call`, `FinishRound`, `TimePasses` |
| `PollLoopProofs` | theorems about `PollLoop` and the calls in it | | |

`MCTracker`, `MCClassification`, `MCMeshRounds`, `MCManager`, `MCProbeRound`, `MCReconcileRound` and `MCPollLoop` give the constants values.

How code becomes model:

* A directed pair is `<<src, dst>>`; a matrix is a function whose domain is the set of
  pairs with an entry. RTT, jitter and byte counts steer no decision and are left out; loss
  is in whole percent; an error is one of the few kinds the code or a reader tells apart.
* Confidence is a fraction compared by cross-multiplication. In the code it is a float64
  quotient of small integers compared with 0.80, which gives the same answer for all
  quotients that small.
* The code ranks candidate nodes while it ranges over a map. `Blame` therefore returns every
  candidate that may come first, and `VerdictIsDeterministic` says when that is one.
* `Reconcile` from `Update` to `recordMetrics` is one action: only that goroutine uses the
  tracker, and the metrics handler sees the recorded pair before or after, under the lock.
* `MeshRounds` and `Manager` take the matrix of a round in one step, as `Measurement` promises it.
  `ProbeRound` shows that the goroutines keep this promise, and `ReconcileRound` that `Reconcile` with
  these goroutines, changing agents and restarts in mid-round does what `MeshRounds` says it does. A call to an agent is one step with
  any answer there; `ProbeCall` is about the call itself, which is where `ProbeRound` takes from
  that a call ends. A goroutine's place is named by the last blocking point it has passed; the write to
  the map is atomic because of the mutex.
* The counters of the tracker stop at `CounterCap` instead of growing. Proved harmless: see
  `InductiveInvariant`.

The actions of `Manager`, along the control flow:

| Code | Action |
|:--|:--|
| `ReconcileAll`: `List` | `ListChecks` (in any order: the code relies on none), `ListFails` |
| spec does not parse, or `shouldRun` is false: `continue` | `SkipItem` |
| call of `ReconcileNetworkHealthCheck` | `StartItem` |
| first `Get` | `GetBase`, `BaseNotFound`, `RequestFails` |
| `Reconcile`, `buildNetworkHealthCheckStatus` | `Probe` (uses the *listed* spec and the generation of the *first Get*), `RequestFails` |
| `RetryOnConflict`: `Get` | `Fetch`, `FetchNotFound`, `RequestFails` |
| `RetryOnConflict`: `UpdateStatus` | `WriteStatus`, `Conflict`, `WriteNotFound`, `RequestFails`, `ResponseLost` |
| `PlanRemediation` | `Plan` |
| end of the loop | `EndRound` |
| `time.Ticker` | `TickerFires` (one tick is kept, others are dropped) |
| time, which `shouldRun` compares with | `TimePasses` |
| process replaced | `Restart` |
| outside | `Create`, `Edit`, `Delete`, `NetworkChanges` |

`shouldRun` compares `lastProbeTime` with the clock; the model keeps the difference, the *age*, in ticks up to
`MaxAge`, which is no shorter than the longest interval. Each copy of an object has its own: the object in the
API server, the items of a listing, and the status that is built and not yet stored (`waited`: its `lastProbeTime`
was taken at the end of the round, however long the update takes). `TimePasses` ages all of them. Whether a
listed check is due is decided from the age *and the interval in the listing*; users may edit the interval in
between. `shortest`, for checking only, is the shortest interval an object has had since its latest status. An
unsupported probe type would be an error of `Reconcile`; the CRD admits only `TCP`
(`config/crd/networkhealthcheck-crd.yaml:45-48`), so that path is left out.

The manager implements `StatusContract` under this mapping: a name shows the uid, the age of the
status, the interval, the shortest interval since that status, and the class of its object; a class is announced while the controller is between the stored
status and the plan (`pc = "plan"`); planned is the action of the latest plan. Listings, reads,
retries, skipped items and failures are stutters; an edit is `Ask`; a lost response is a publication after which no
plan is made; a restart forgets what was announced.

A call of the controller to an agent, in `ProbeCall`:

| Code | Action |
|:--|:--|
| `probeEndpoint` up to `httpClient.Do` | `Send` (no request leaves with a deadline that is over) |
| `Do` returns an answer, or an answer other than 200 | `Receive` |
| the context of the request ends | `GiveUp`; the handler may go on, and a request not yet taken up is left to the agent: `LateEnds` |
| `bearerAuth`, `ParseProbeOptions`, `validateTarget` fail / pass | `Refuse` / `Accept` |
| loop of `ExecuteProbe`: `select` | `Begin`, `Interrupted` |
| `net.DialTimeout` | `Connect`, or `Lose` |
| write and read of the acknowledgement | `Ack`, or `Lose` |
| `ExecuteProbe` returns, the response is written | `Finish`, `Interrupted` |
| net/http ends the context of the request: caller gone, or `ReadTimeout` over | `Cancel` |
| the connection ends without an answer: `WriteTimeout`, restart of the agent | `ConnectionLost`: an error, or the request is sent again if the connection was not new |

Time is counted in units of which a second has `Second`. It passes on the control channel, while a
dial or an exchange is under way, and between ticks; local computation takes none, and no timeout
is overrun. An agent may take any time to notice that its caller has gone, and may never do so. Requests that a
stalled agent has not taken up when their callers gave up stay in its buffers and backlog; several of them may
be handled later at the same time. They are counted (`late`, up to `MaxLate`) and not followed: nobody waits
for their answers, and no handler looks at another. What is said of handlers is said of the requests taken up
while their callers waited.

## The runs

Runs that pass:

| Run | Bounds | Why they are enough | What it shows |
|:--|:--|:--|:--|
| `tracker` | 2 pairs, success / failure / agent error, 6 outcomes per pair, thresholds unset (3 and 2) | 3 failures, 2 successes and one more outcome fit; pairs do not influence each other; the proofs lift the bounds | the four tracker properties |
| `classification` | all matrices over 0 to 3 nodes with at most one doubled node, 6 results per pair, among them an agent error that the filter has made a success; symmetric nodes | every hypothesis and every pair of competing ones occurs on three nodes; two nodes that cannot reach each other give the tie | meaning, determinism, explanation, duality and the named faults. Evaluation is one step, so the run ends in states without successor |
| `rounds` | 3 nodes, 9 matrices, thresholds (3, 2) and (2, default), memory of 3 rounds, restarts | both thresholds are reached, the tracker is replaced, 4 entries kept of 6 and 1 degraded pair of 2, so both caps bite | persistence, transparency, the guardrail, counts against verdict |
| `poll_loop` | half seconds; five settings: timeout below, at and above a second, zero and negative; 1 to 3 probes; intervals unset, zero, short and as long as the ticker's; 2 calls a round; 3 agents, one of which admits the call | the deadline covers one probe or several, is negative, or shorter than what the agent uses; rounds are shorter and longer than the period of the ticker, so that calls of two rounds follow one another; three requests are handled at once, and two are left to the agent (`MaxLate` 2) | what calls report, how old a status gets |
| `reconcile_round` | rosters of no agent, one, two, and two on one node; two answers; limits 0 and 2; two pairs of thresholds; memory of 1 round; restarts at any point | agents come and go between rounds; the roster with one node has two calls for one key, so a matrix may be overwritten late; a round is cut short in every state | the composition: what is filtered and classified, and that it is `MeshRounds` |
| `manager` | 1 check, 3 specs (intervals 1 and 2, and an invalid one), ages up to 2, 2 matrices, 2 generations, 2 objects under the name, 2 update attempts, 1 fault, 1 restart | one edit before, between and after the reads, which makes the interval longer or shorter; one deletion with re-creation; exhausted retries; a status that is due again before it is stored | generations, plans, intervals, transition times, the length of a polling round, the contract with readers |
| `manager_live` | 2 checks, one of which never parses; 2 specs (one invalid), 2 matrices, 2 generations, 2 objects, 2 update attempts, 1 fault, 1 restart | a broken check before and behind a valid one, any number of network changes, an edit and a deletion with re-creation at any point, so that updates conflict and a status may claim what is not so | convergence, service, generations that catch up |
| `probe_round` | rosters of 0, 1, 2 and 3 agents, two of the three on one node; answers success and control failure; limits 0 and 2 | six goroutines on two slots, shared keys with different answers, the limit that must be corrected, rounds after rounds with other agents | completeness, the limit, no deadlock, termination |

The properties, by what could go wrong:

* `StatusMatchesHistory`, `ReportFollowsHistory`, `FlipsAreEarned`: counters that forget or
  remember too much under flapping, partial rounds and resets.
* `VerdictsAreTrue`, `BlameExplainsFailures`, `FaultsAreNamed`, `DirectionsAreDual`,
  `VerdictIsDeterministic`: overlapping hypotheses tried in the wrong order, ingress and
  egress mixed up, blame below the confidence floor, answers that change with map order.
  Determinism needs three nodes: of two nodes that cannot reach each other, either may be blamed.
  `Unknown` is given only with an agent error, which the filter may have made a success with its flag kept,
  or with failures that no hypothesis accounts for.
* `PersistentOutcomeIsReported`, `SteadyStateIsTransparent`: a tracker replaced at the wrong
  time, a threshold that is never quite reached.
* `AgentErrorsReachTheGuardrail`: the filter in front of the classifier rewrites results of
  agents that could not be asked; the flag must survive.
* `StatusAgreesWithVerdict`: counts of status and metrics, caps and verdict computed from different
  matrices or with different thresholds.
* `ObservedGenerationIsBetween`: the generation a status claims is neither ahead of the object
  nor behind the spec that was used. (It need not be the one used, see below.) A check that is deleted and
  created again during its reconciliation is the exception: the update goes by name, so the new object gets
  the old one's generation, which may be ahead of its own.
* `GenerationCatchesUp`: such claims do not last. Once users leave a valid check alone, its status comes to
  claim its own generation and to be made with the spec of that generation, and keeps doing so.
* `ImplementsStatusContract`: a status written before any interval is over that the check has had since the
  previous one, after a lost response or a restart; a class that changes without a round; a plan before, or twice after, its publication.
* `TransitionTimeMarksChange`: the time of the Healthy condition is taken from an object read
  before the round and written to one fetched after it.
* `PlanFollowsPublished`: no plan for a verdict the object does not carry.
* `ProbesRespectInterval`: the due time is read from an old listing, and still no check is probed before
  the interval that its round goes by is over since its stored status. An edit that makes the interval
  longer is not seen by a round that has listed the check before (see below).
* `PollingRoundIsBounded`: users who edit faster than the controller writes make every update
  conflict. Each step of a polling round uses up part of a bound that listing and attempts fix at its
  start, and nothing from outside gives any of it back, so the checks behind are reached.
* `StatusConverges`, `DueChecksAreServed`: see fairness.
* `ImplementsMeasurement`: a pair without a result, one of an earlier round, or a goroutine that
  writes into a matrix already returned. The classifier takes every absent pair for one that was
  not probed, so a hole would go unnoticed.
* `VerdictIsOfThisRound`, `ImplementsMeshRounds`: a matrix evaluated while goroutines still fill it, a
  map kept from an earlier round, agents that have gone, a round that a restart left half done. The
  tracker's counters would carry such an error on for many rounds.
* `MeasuredMeansComplete`: a call that reports the part it has measured when it is cancelled, or
  what another request measured; late answers, answers the server no longer sends, requests sent
  again.
* `DropIsMeasured`: a deadline of the call that ends before a dead data plane has been found dead
  as often as asked. It holds where the agent's server grants the time (10 s and 30 s):
  `probeTimeout` times `probeCount` beyond 10 s makes an outage an agent error. The defaults,
  2 s and 5 probes, are just within.
* `UnwantedWorkEnds`: requests their callers have given up on, handled beside the next ones. A request taken
  up while its caller waited is handled for two timeouts per probe at most, so one call at a time leaves up
  to three of them in the agent, and `maxConcurrentProbes` bounds the calls of the controller and not the
  probes under way. Requests that the agent had not taken up by then are not bounded by anything.
  With a negative `probeTimeout` there is no bound
  of this kind: the caller gives up early and the agent takes its own default.
* `Freshness`: the sum of interval, one period of the ticker and a round of full deadlines; a
  skipped tick or a longer deadline shows here. With the default interval and ticker, both 15 s, every
  round that takes longer than the part of a second cut from `lastProbeTime` makes the next tick come
  too early by that much, and a round starts every 30 s.
* `IntervalIsKept`: the whole seconds of `lastProbeTime` shorten an interval by less than one.
* `ConcurrencyBound`, `NeverStuck`, `RoundsEnd`: slots given back too early, twice or never, a limit of
  zero, a wait for goroutines that have gone.

## Fairness

`Manager!FairSpec` assumes weak fairness of the controller goroutine as a whole (it is never
blocked for ever: every request returns or fails, `context` or client timeouts see to that),
of the ticker and of time (`TimePasses`). Nothing is assumed of users, the network and
failures. The first is written with the controller's enabling condition `Busy` spelled out
instead of `WF_vars(Controller)`, because TLC would evaluate a whole round in each state to
find out whether one is enabled; every other place of the control flow has an enabled action.
`ProbeRound!FairSpec` assumes weak fairness of the round's goroutines as a whole: the Go
scheduler runs one that can run, and `probeEndpoint` returns because its request has a deadline
(`probe.go:35`). That a waiting goroutine may be overtaken for a slot does no harm, since each
takes a slot once.

In the manager, no fairness is assumed of any single step: a fault may hit whenever faults are left, and the
number of faults and restarts is bounded, as "eventually the API server works" requires. The same goes for edits
and re-creations (`MaxGeneration`, `MaxUid`): users who edit a check for ever, each time between the read and
the update, would make every one of its updates conflict, and its status would never be written.

## Where code and documentation disagree

Four runs each refute one sentence of the documentation or of a comment, by what the code does.

| Run, property | Sentence | What the code does |
|:--|:--|:--|
| `evidence`, `HealthyHasEvidence` | README:5 "It never reports `Healthy` without evidence" | a mesh that is down from the start is `Healthy` with confidence 1 until the failure threshold is reached |
| `mute_agent`, `HardFailureWasMeasured` | types.go:22 "control channel failed, NOT a data plane fault" | agent errors count as failures of the pair; when the agent answers again, a node failure is reported that nobody measured |
| `slow_probe`, `TimeoutIsNotAgentError` | probe.go:33 "so a probe timeout is not misclassified as an agent/control-channel failure" | the call is granted one timeout per probe and a second; a probe may take one for the dial and another for the exchange |
| `shared_tracker`, `StatusConverges` | README:94 "Consecutive failed rounds before a pair is reported failed" | checks with different thresholds replace each other's tracker; no pair is ever reported failed |

`StatusConverges` passes in `manager_live`, where all checks have the same thresholds, and
fails in `shared_tracker`, where they differ.

Four more sentences that the models show not to be met, without a run of their own. controller.go:114
says the thresholds are applied "so a single probe round cannot flip the reported health"; but the rewriting
behind `HealthyHasEvidence` also erases the loss, and a lossy pair that fails completely turns `Degraded` into
`Healthy` for as many rounds as the threshold is not reached. README:188 has
agent errors counted as `failed`; below the threshold the filter rewrites them to successes and the
counts take them for healthy. README:132 says of `observedGeneration` "which spec generation it
used"; the spec comes from the listing, the generation from a later read, and after a deletion and re-creation
from another object; `ObservedGenerationIsBetween` and `GenerationCatchesUp` are what holds. README:89 calls
`interval` the "Minimum time between probe rounds for this object"; a round that has listed the check before an
edit made its interval longer goes by the shorter one. `ProbesRespectInterval` states the interval that counts,
and `StatusContract` promises readers one of the intervals the check has had since its previous status.

## What is proved

Every safety property that a passing run checks is also a theorem, for every value of the constants
that the assumptions admit: any number of nodes, agents, checks and calls, any results, thresholds,
durations and bounds. TLAPS checks the proofs; TLC checked each inductive invariant on the instance
of its run first.

| Module | Theorem | Statement |
|:--|:--|:--|
| `TrackerProofs` | `TypeCorrect` | `Spec => []TypeOK` |
| | `InductiveInvariant` | `Spec => []IInv` |
| | `StatusCorrect` | `Spec => []StatusMatchesHistory` |
| | `ReportCorrect` | `Spec => []ReportFollowsHistory` |
| | `FlipsCorrect` | `Spec => FlipsAreEarned` |
| `VerdictProofs` | `FaultsAreConfident` | a verdict of a fault has at least the floor's confidence |
| | `VerdictTyped` | verdicts of finite matrices are well formed |
| `ClassificationProofs` | `InductiveInvariant` | `Spec => []IInv` |
| | `ClassificationTypeCorrect` | `Spec => []TypeOK` |
| | `VerdictsTrue` | `Spec => []VerdictsAreTrue` |
| | `VerdictDeterministic` | `Spec => []VerdictIsDeterministic` |
| | `BlameExplains` | `Spec => []BlameExplainsFailures` |
| | `FaultsNamed` | `Spec => []FaultsAreNamed` |
| | `DirectionsDual` | `Spec => []DirectionsAreDual` |
| `MeshRoundsProofs` | `InductiveInvariant` | `Spec => []IInv` |
| | `MeshRoundsTypeCorrect` | `Spec => []TypeOK` |
| | `AgentErrorsGuarded` | `Spec => []AgentErrorsReachTheGuardrail` |
| | `PersistenceReported` | `Spec => []PersistentOutcomeIsReported` |
| | `SteadyStateTransparent` | `Spec => []SteadyStateIsTransparent` |
| | `StatusAgrees` | `Spec => []StatusAgreesWithVerdict` |
| | `ReconcileImplements` | `ReconcileSpec => ImplementsMeshRounds` |
| | `VerdictOfThisRound` | `ReconcileSpec => VerdictIsOfThisRound` |
| | `ReportsWithGoroutines` | `ReconcileSpec => []P` for the four properties of the reports above |
| `ManagerProofs` | `InductiveInvariant` | `Spec => []IInv` |
| | `ManagerTypeCorrect` | `Spec => []TypeOK` |
| | `GenerationIsBetween` | `Spec => []ObservedGenerationIsBetween` |
| | `PlansFollow` | `Spec => []PlanFollowsPublished` |
| | `IntervalRespected` | `Spec => ProbesRespectInterval` |
| | `TransitionsMarked` | `Spec => TransitionTimeMarksChange` |
| | `PublishedVerdictsProper` | `Spec => []PublishedIsProper` |
| | `PollingBounded` | `Spec => PollingRoundIsBounded` |
| | `ManagerImplements` | `Spec => ImplementsStatusContract` |
| `ProbeRoundProofs` | `InductiveInvariant` | `Spec => []IInv` |
| | `RoundTypeCorrect` | `Spec => []TypeOK` |
| | `BoundCorrect` | `Spec => []ConcurrencyBound` |
| | `NeverStuckCorrect` | `Spec => []NeverStuck` |
| | `RoundTakesItsSteps` | a round over `n` calls takes `6n + 1` steps in any order |
| | `RoundImplements` | `Spec => ImplementsMeasurement` |
| `PollLoopProofs` | `InductiveInvariant` | `Spec => []IInv` |
| | `PollLoopTypeCorrect` | `Spec => []TypeOK` |
| | `MeasuredIsComplete` | `Spec => []MeasuredMeansComplete` |
| | `DropMeasured` | `Spec => []DropIsMeasured` |
| | `UnwantedWorkBounded` | `Spec => []UnwantedWorkEnds` |
| | `StatusIsFresh` | `Spec => []Freshness` |
| | `IntervalKept` | `Spec => IntervalIsKept` |

Assumptions beyond the types of the constants, and why the code justifies them:

* `CapAssumption` (`Tracker`, `MeshRounds`): `CounterCap` is no smaller
  than any effective threshold. The code's counters have no cap; the model's may not be so low that a
  threshold cannot be reached.
* `Classification!FloorAssumption`: the confidence floor is at least 80. That is the default
  (`config.go`), and the only value in use. `OneIsolated` and the lemmas around it need more than half;
  with a low floor several nodes could be blamed and map order would show.
* `Manager!FloorAssumption`: the floor is at least the confidence `PlanRemediation` asks for
  (0.80 both). Otherwise a published fault would not be announced.
* `DefaultsAssumption` (`MeshRounds`): classifier and status builder use the same loss threshold, since
  the controller passes `DefaultConfig`, and the status has room for one degraded pair (50 in the code).
* Nodes, matrices, rosters and the set of checks are finite, as anything in memory is. Nothing is assumed of the
  results the classifier is given: an agent error may be a success, as the filter makes it.
* `ManagerAssumption`: ages are counted up to the longest interval at least, so that whether a check is due is
  never lost.
* `RostersAssumption` (`ReconcileRound`): whatever the agents of a roster may answer is one of the
  `Matrices`. It ties the constants of the two composed models together and restricts neither.

### The arguments

**Tracker.** `StatusMatchesHistory` is not inductive: nothing in it says what the counters are
worth. `IInv` adds that a counter is at least `n` exactly when the record ends with `n` outcomes
of its kind, for every `n` up to the cap. Appending one outcome lengthens the run of its kind
(`RunGrows`), ends the other (`RunEnds`) and changes the reference definition in the two ways
`FailureStep` and `SuccessStep` describe; `PairStep` puts these together for one pair,
`StateAfterRound` carries it to a whole round. Since `IInv` speaks of a capped counter, its
proof also shows that capping changes no status.

**Classifier.** `Evaluate` is one step, so the work is about operators. `VerdictProofs` says from
which hypothesis each class comes and what its confidence is. `VerdictDeterministic` is the hard one:
`Blame` may return several candidates, and the proof shows that no two of them pass the floor
(`OneVerdict`). Two isolated nodes have in common at most the failures between them, while a third node
adds failures that only one of the two explains (`OneIsolated`). The rows, or the columns, of two nodes
are disjoint and cannot both hold the floor's share (`FloorsDisjoint`). `DirectionsDual` counts the
transposed matrix pair by pair (`TransposedCounts`); it also needs that a node that cannot send and one
that cannot be reached, having one failure in common, are never blamed together (`OneDirection`).
`FaultsNamed` shows of each fault that the hypotheses tried earlier reject it; every node sends and
receives one probe for each other node (`EqualRows`). `VerdictsTrue` says of `Unknown` that no hypothesis accounts
for the failures, whichever way the hypotheses are tried (`Explained`).

**Rounds.** What a round reports depends on all rounds since the tracker was made, of which `recent`
remembers only some. `IInv` says of each pair that its counter is at least the length of the run that
is remembered (`CountInv`), that a pair's flag follows its counters (`StatusInv`), and that the latest
matrix and verdict are those of the latest round (`LatestInv`). `AgentErrorsGuarded` rests on one fact about the filter: of an agent error it may
rewrite success, loss and error, but never the flag. `StatusAgrees` needs
the guardrail to be silent: with agent errors the class is `Unknown` whatever the counts say.

**Rounds with goroutines.** `ReconcileRound` adds the goroutines to the rounds. Its invariant is the one
of `ProbeRoundProofs`, taken over by an `INSTANCE` of that module, with one more part: between the start
of the round and its evaluation the round is running or its result is what the goroutines left
(`Open`). When `Evaluate` finds the round over, the result is a complete matrix for the roster, hence one of
`Matrices`, and the step is a `ProbeRound` step of `MeshRounds`; every other step is a stutter or a
restart. `ReportsWithGoroutines` then needs no new argument: the theorems about `MeshRounds` apply.

**Manager.** A status is built from four copies of the same object, taken at four times: the listed
item, the object read before the round, the tracker's result and the object fetched for the update.
Each may be stale, and the name may by then belong to another object. `IInv` has one conjunct per copy
(`QueueInv`, `ItemInv`, `BaseInv`, `BuiltInv`, `WaitedInv`, `CopyInv`, `PlanInv`) that says what the copy still
says of the API server's object if the uid is the same: its generation is not ahead and its age not beyond the
object's, and the status yet to be stored is no older than the one it replaces. The interval in a listing says
nothing of the object's by then; what is kept is that the listed one is among those the object has had since
its latest status, so that it is no shorter than `shortest`, unless the object is new and has no status. Such a conjunct has to survive every edit,
deletion and creation by users, and time passing, between any two steps of the controller: one lemma per
action. `ManagerImplements` maps each action to a step of `StatusContract` or a stutter under the
mapping given [above](#the-modules).

`PollingBounded` gives each place of the control flow the number of steps that are left for the item, which
falls with every step, two for each attempt that remains (`ItemAdvances`), and adds the
most one item can take for each item behind it (`ListingShrinks`, `ItemBehind`). Only a restart or the end
of the polling round changes it otherwise, and both set it to zero (`RoundEnds`). `PublishedVerdictsProper` follows a
verdict from the evaluation (`EvaluatesProperly`, which rests on `VerdictTyped` and `FaultsAreConfident`) through
the copy the controller holds (`BuiltKept`) to the object it is written to; objects that come into being have no
status (`NewWithoutStatus`) and no other step touches one (`StatusKept`).

**Probe round.** When the round returns, all that is known locally is that the wait group is at zero.
`IInv` says what that means: the wait group and the semaphore count goroutines (`TypeOK`), every call
of the round is still to be made, being made, or has its key in the map (`Covered`), what is in the map
or on its way to it was given in this round (`AnswersGiven`), and nothing runs between rounds
(`Quiet`). One lemma per action preserves it; `AllCovered` draws the conclusion for a wait group at zero.
That a round ends is liveness and stays with TLC, but its two safety parts are proved. `RoundTakesItsSteps`
counts the steps that are left: one for the return, six for a call not yet made, fewer for one under way.
`NeverStuck` says that some step can be taken while any is left: if every goroutine that lives waits for a
slot, nobody holds one, and there is at least one slot. What remains for `RoundsEnd` is that steps that can be
taken are.

**Calls and polling loop.** None of the five properties is inductive. `IInv` has five parts.
`CallInv`: at most the youngest handler is wanted, and while it is, nothing is on the wire; so an answer
under way is the current call's. `RecordInv`: the record of the call's probes is the wanted handler's
own count, and a response under way tells of it (`Tells`). `DropInv`: while no dial has connected, the
time since the call was made is the time on the wire plus the handler's age, and that age is at most a
timeout per probe (`DialTime`); hence the caller cannot give up, nor the server cancel, before all dials
are over. `WorkInv`, about the requests taken up while their callers waited: no handler is older than its work, and
one that nobody wants any more has worked for as long as the calls since have lasted, each of which took its whole deadline, while no handler can work for longer than two timeouts per
probe, which is less than two deadlines; so of three handlers one is wanted (`OneLeftBehind`).
`LoopInv`: the time since the latest status is paid for by the interval, the ticker and the calls of
the round made so far. `HandlerStep`, `RespondStep` and `ReturnsStep` say once what the steps of a
handler have in common, and each action has its lemma.

### Only model-checked

* Liveness: `StatusConverges`, `DueChecksAreServed`, `GenerationCatchesUp`, `RoundsEnd`. The proof system does not reach
  fairness and `ENABLED`.
* The four disagreements, which are counterexamples.

## What is not modelled

* Several probe calls at a time in one model: `ProbeRound` has the goroutines without time,
  `PollLoop` has the time with one call after the other (`maxConcurrentProbes` unset).
* Cancellation of the manager's context: it makes pending calls fail, which is one of the answers they
  may return anyway, and the process ends with it (`Restart`).
* What becomes of requests left to an agent when their callers give up: they are counted, their probes are
  not followed. Nothing that is checked depends on them.
* Dates: a transition time is told apart from the previous one, not ordered; `lastProbeTime` is
  kept as what it lacks of the clock. A clock that is set back is left out.
* Payload size, RTT, jitter, throughput; metrics text, summaries, reasons, logging: wording and
  numbers without decisions. `/healthz` and the agent's `/metrics` answer constants.
* The pod filter of `discoverAgents`: its outcome is the choice of the round's agents.
* `StubClassifier`: no longer called by the manager. Scripts, dashboards and manifests.
* Two managers at once: the deployment has one replica.

## What could follow

All components with state are modelled, every safety property of a passing run is proved, and so is the
composition of a round's goroutines with its evaluation. What these models do not answer yet:

1. One timed call composed with the goroutines of `ProbeRound`: `Freshness` for `maxConcurrentProbes`
   above one.
2. `ReconcileRound` inside `Manager`, which takes a round's matrix in one step. Users may act between any
   two requests to the API server already, and nothing of a round is visible to them.
3. Several timed callers of one agent, for a bound like `UnwantedWorkEnds` beyond one call at a time.
