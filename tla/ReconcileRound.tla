--------------------------- MODULE ReconcileRound ----------------------------
(***************************************************************************)
(* Reconcile (code/internal/controller/controller.go) from the listing of  *)
(* the agents to the recorded verdict, with the goroutines of its probe    *)
(* round: ProbeRound and Reconciler composed.  MeshRounds has the same     *)
(* rounds with a matrix that is measured in one step; this module shows    *)
(* that nothing is lost by that.  A listing that fails ends Reconcile      *)
(* before anything has changed and is left out.                            *)
(***************************************************************************)
EXTENDS MeshRounds

CONSTANTS
    Rosters,    \* what discoverAgents may return, see Measurement
    Answers,    \* what one probe call may return
    Limits      \* values of maxConcurrentProbes

VARIABLES
    roster, running, given, result, unspawned, call, answer, matrix, slots, capacity, wg, limit,
    open,       \* Reconcile has begun a round and not yet evaluated it
    using       \* the thresholds Reconcile was called with

Goroutines == INSTANCE ProbeRound

\* Matrices has whatever such rounds may return.
ASSUME RostersAssumption ==
    /\ Answers \subseteq ProbeResult /\ Limits \subseteq Int
    /\ \A agents \in Rosters : /\ IsFiniteSet(DOMAIN agents)
                                /\ [Goroutines!Keys(agents) -> Answers] \subseteq Matrices

roundState == <<roster, running, given, result, unspawned, call, answer, matrix, slots, capacity, wg, limit>>
reconcileVars == <<vars, roundState, open, using>>

ReconcileInit ==
    /\ Init
    /\ Goroutines!Init
    /\ open = FALSE /\ using \in Configs

\* discoverAgents, then the start of runProbeRound.
StartRound(cfg, agents, max) ==
    /\ ~open
    /\ Goroutines!Start(agents, max)
    /\ open' = TRUE /\ using' = cfg
    /\ UNCHANGED vars

\* A step of the loop that starts the goroutines, of one of them, or the return.
GoOn ==
    /\ open
    /\ Goroutines!Runs
    /\ UNCHANGED <<vars, open, using>>

\* Mutant of RoundOver: the matrix is taken while the goroutines still fill it.
RoundOverAtOnce == TRUE

\* runProbeRound has returned.
RoundOver == ~running

\* From r.tracker to recordMetrics.
Evaluate ==
    /\ open /\ RoundOver
    /\ ProbeRound(using, result)
    /\ open' = FALSE
    /\ UNCHANGED <<roundState, using>>

\* The process is replaced at any point of a round, and its goroutines with it.
ProcessRestart ==
    /\ Restart
    /\ roster' = <<>> /\ running' = FALSE /\ given' = [p \in {} |-> {}] /\ result' = NoMatrix
    /\ unspawned' = {} /\ call' = Goroutines!Nothing /\ answer' = Goroutines!Nothing /\ matrix' = NoMatrix
    /\ slots' = 0 /\ capacity' = 1 /\ wg' = 0 /\ limit' = 1
    /\ open' = FALSE
    /\ UNCHANGED using

ReconcileNext ==
    \/ \E cfg \in Configs, agents \in Rosters, max \in Limits : StartRound(cfg, agents, max)
    \/ GoOn
    \/ Evaluate
    \/ ProcessRestart

ReconcileSpec == ReconcileInit /\ [][ReconcileNext]_reconcileVars

-----------------------------------------------------------------------------
\* With its goroutines, Reconcile does what MeshRounds says it does: what is
\* filtered, classified and counted is the complete matrix of the round just
\* over, for the thresholds it was called with, whatever the interleaving and
\* wherever a restart cuts it short.  So what holds of the reports of
\* MeshRounds holds of those made with goroutines.
ImplementsMeshRounds == Spec

\* A verdict is about the pairs of the agents that were discovered for it, all
\* of them and no others, with what they answered in this very round: no agent
\* that has gone, no answer of an earlier round, no pair that is still asked.
VerdictIsOfThisRound ==
    [][Evaluate => /\ DOMAIN lastMatrix' = Goroutines!Keys(roster)
                   /\ \A p \in DOMAIN lastMatrix' : Latest'.matrix[p] \in given[p]
                   /\ unspawned = {} /\ DOMAIN call = {}]_reconcileVars
=============================================================================
