------------------------------- MODULE Manager ------------------------------
(***************************************************************************)
(* The manager process against the API server: the polling loop            *)
(* (networkhealthcheck_controller.go), one reconciliation of one           *)
(* NetworkHealthCheck with its status update (controller.go), and what     *)
(* happens around it: users create, edit and delete checks, the network    *)
(* changes, requests fail, responses are lost, the process restarts.       *)
(*                                                                         *)
(* The controller is one goroutine; pc says where it is:                   *)
(*   idle    waiting for the ticker                                        *)
(*   next    in ReconcileAll, before the next item of the listing          *)
(*   base    in ReconcileNetworkHealthCheck, before the first Get          *)
(*   probe   before Reconcile                                              *)
(*   fetch   in RetryOnConflict, before Get                                *)
(*   write   in RetryOnConflict, before UpdateStatus                       *)
(*   plan    the status is written, before PlanRemediation                 *)
(* Every action is one request to the API server or one local step, so     *)
(* users and the network act between any two requests.                     *)
(***************************************************************************)
EXTENDS Reconciler, MeshStatus, Remediation, SequencesExt

CONSTANTS
    Checks,         \* names of NetworkHealthChecks
    Specs,          \* of each check, what users may give it: [cfg, interval, valid,
                    \* dryRun]; valid is what the parser accepts
    Matrices,       \* what a probe round may measure
    RetrySteps,     \* attempts of RetryOnConflict (retry.DefaultRetry: 5)
    MaxAge,         \* ages beyond the longest interval are not told apart
    MaxGeneration,  \* bound on the edits of one object
    MaxUid,         \* bound on the objects ever created
    MaxFaults,      \* bound on failed requests and lost responses
    MaxCrashes      \* bound on restarts

ASSUME ManagerAssumption ==
    /\ IsFiniteSet(Checks)
    /\ MaxAge \in Nat
    /\ \A c \in Checks : \A spec \in Specs[c] :
          spec.valid \in BOOLEAN /\ spec.interval \in Int /\ spec.interval <= MaxAge
    /\ \A m \in Matrices : IsFiniteSet(DOMAIN m) /\ m \in [DOMAIN m -> ProbeResult]
    /\ RetrySteps \in Nat \ {0} /\ MaxGeneration \in Nat \ {0}
    /\ MaxUid \in Nat /\ MaxFaults \in Nat /\ MaxCrashes \in Nat

\* Reconcile classifies with DefaultConfig; its floor is no lower than the
\* confidence an alert asks for.
ASSUME FloorAssumption == Floor >= MinimumConfidence

VARIABLES
    objects,    \* API server: the object of each name, or NoObject
    uids,       \* API server: objects created so far
    network,    \* the matrix a round would measure now
    pc,
    tick,       \* the ticker's channel holds a tick
    queue,      \* rest of the listing of this polling round
    item,       \* the listed object being reconciled
    base,       \* the object read before the round: uid, generation, condition
    built,      \* the status built after the round
    waited,     \* the age of its lastProbeTime until it is stored or given up
    copy,       \* the object fetched for the update: uid, and is it current
    attempts,   \* attempts of RetryOnConflict begun
    plan,       \* the latest remediation plan of this item
    faults,     \* request failures so far
    crashes,    \* restarts so far
    origin,     \* for checking only: the objects and the spec behind each status
    shortest    \* for checking only: the shortest interval an object has had
                \* since its latest status

controllerVars == <<pc, tick, queue, item, base, built, waited, copy, attempts, plan>>
apiVars == <<objects, uids, origin, shortest>>
vars == <<tracker, lastMatrix, lastVerdict, objects, uids, network, pc, tick, queue, item, base,
          built, waited, copy, attempts, plan, faults, crashes, origin, shortest>>

NoObject == [uid |-> 0]
NoStatus == [verdict |-> NoVerdict]
NoItem == [check |-> "none"]
NoPlan == [action |-> "none"]
NoCopy == [uid |-> 0, current |-> FALSE]
NoBase == [uid |-> 0, generation |-> 0, condition |-> NoCondition]
NoOrigin == [listed |-> 0, base |-> 0, used |-> 0]

Exists(c) == objects[c] # NoObject

\* age: the time since the lastProbeTime of the status; no status, no age.
NewObject(uid, spec) ==
    [uid |-> uid, generation |-> 1, spec |-> spec, status |-> NoStatus, age |-> MaxAge]

TypeOK ==
    /\ pc \in {"idle", "next", "base", "probe", "fetch", "write", "plan"}
    /\ \A c \in Checks : Exists(c) =>
          /\ objects[c].uid \in 1..uids
          /\ objects[c].generation \in 1..MaxGeneration
          /\ objects[c].spec \in Specs[c]
          /\ objects[c].status.verdict.class \in Classes \cup {"none"}
          /\ objects[c].age \in 0..MaxAge
    /\ network \in Matrices
    /\ tick \in BOOLEAN
    /\ Len(queue) <= Cardinality(Checks)
    /\ attempts \in 0..RetrySteps /\ waited \in 0..MaxAge
    /\ pc \notin {"idle", "next"} => item.check \in Checks /\ item.spec.valid
    /\ pc \in {"write", "plan"} => copy.uid \in 1..uids
    /\ tracker.pairs \in [DOMAIN tracker.pairs -> PairState]

Init ==
    /\ ReconcilerInit
    /\ objects = [c \in Checks |-> NoObject] /\ uids = 0
    /\ network \in Matrices
    /\ pc = "idle" /\ tick = TRUE       \* Run polls once before its ticker starts
    /\ queue = <<>> /\ item = NoItem /\ base = NoBase /\ built = NoStatus
    /\ waited = 0 /\ copy = NoCopy /\ attempts = 0 /\ plan = NoPlan
    /\ faults = 0 /\ crashes = 0
    /\ origin = [c \in Checks |-> NoOrigin]
    /\ shortest = [c \in Checks |-> 0]

-----------------------------------------------------------------------------
(* The polling loop. *)

\* What the listing holds of an object.
Listed(c) == [check      |-> c,
              uid        |-> objects[c].uid,
              generation |-> objects[c].generation,
              spec       |-> objects[c].spec,
              age        |-> objects[c].age]

\* ReconcileAll lists all objects once; the round works on that snapshot.  The
\* order is the API server's.
ListChecks ==
    /\ pc = "idle" /\ tick
    /\ tick' = FALSE
    /\ \E names \in SetToSeqs({c \in Checks : Exists(c)}) :
          queue' = [i \in DOMAIN names |-> Listed(names[i])]
    /\ pc' = "next"
    /\ UNCHANGED <<reconcilerVars, apiVars, network, item, base, built, waited, copy, attempts, plan, faults, crashes>>

\* Mutant of Runnable: the interval is not looked at.
RunnableAlways(listed) == listed.spec.valid

\* Mutant of Runnable: the parser's error is not looked at.
RunnableUnparsed(listed) == listed.age >= listed.spec.interval

shouldRun(age, interval) == age >= interval

\* A spec that does not parse is reported and skipped, one not due is skipped.
\* Both the spec and the lastProbeTime are those of the listing.
Runnable(listed) == listed.spec.valid /\ shouldRun(listed.age, listed.spec.interval)

\* Mutant of AfterSkipped: the first skipped item ends the polling round.
AfterSkippedReturn(listing) == <<>>

\* The loop goes on with the items behind a skipped one.
AfterSkipped(listing) == Tail(listing)

SkipItem ==
    /\ pc = "next" /\ queue # <<>> /\ ~Runnable(Head(queue))
    /\ queue' = AfterSkipped(queue)
    /\ UNCHANGED <<reconcilerVars, apiVars, network, pc, tick, item, base, built, waited, copy, attempts, plan, faults, crashes>>

StartItem ==
    /\ pc = "next" /\ queue # <<>> /\ Runnable(Head(queue))
    /\ queue' = Tail(queue)
    /\ item' = Head(queue)
    /\ base' = NoBase /\ built' = NoStatus /\ waited' = 0 /\ copy' = NoCopy /\ attempts' = 0 /\ plan' = NoPlan
    /\ pc' = "base"
    /\ UNCHANGED <<reconcilerVars, apiVars, network, tick, faults, crashes>>

EndRound ==
    /\ pc = "next" /\ queue = <<>>
    /\ pc' = "idle"
    /\ item' = NoItem /\ base' = NoBase /\ built' = NoStatus /\ waited' = 0 /\ copy' = NoCopy
    /\ attempts' = 0 /\ plan' = NoPlan
    /\ UNCHANGED <<reconcilerVars, apiVars, network, tick, queue, faults, crashes>>

-----------------------------------------------------------------------------
(* One reconciliation. *)

\* Any error ends the item; the loop goes on with the next one.
DropItem ==
    /\ pc' = "next" /\ waited' = 0
    /\ UNCHANGED <<reconcilerVars, tick, queue, item, base, built, copy, attempts, plan>>

\* Mutant of GenerationOf: the generation the object was created with.
GenerationAtCreation(object) == 1

GenerationOf(object) == object.generation

ConditionOf(object) == IF object.status = NoStatus THEN NoCondition ELSE object.status.condition

GetBase ==
    /\ pc = "base" /\ Exists(item.check)
    /\ base' = [uid        |-> objects[item.check].uid,
                generation |-> GenerationOf(objects[item.check]),
                condition  |-> ConditionOf(objects[item.check])]
    /\ pc' = "probe"
    /\ UNCHANGED <<reconcilerVars, apiVars, network, tick, queue, item, built, waited, copy, attempts, plan, faults, crashes>>

BaseNotFound ==
    /\ pc = "base" /\ ~Exists(item.check)
    /\ DropItem
    /\ UNCHANGED <<apiVars, network, faults, crashes>>

\* Reconcile with the LISTED spec; the status names the generation of the
\* object that GetBase read.
Probe ==
    /\ pc = "probe"
    /\ Reconcile(item.spec.cfg, network)
    /\ built' = BuildStatus(base.generation, base.condition, lastVerdict', lastMatrix')
    /\ waited' = 0
    /\ pc' = "fetch"
    /\ UNCHANGED <<apiVars, network, tick, queue, item, base, copy, attempts, plan, faults, crashes>>

Fetch ==
    /\ pc = "fetch" /\ Exists(item.check)
    /\ copy' = [uid |-> objects[item.check].uid, current |-> TRUE]
    /\ attempts' = attempts + 1
    /\ pc' = "write"
    /\ UNCHANGED <<reconcilerVars, apiVars, network, tick, queue, item, base, built, waited, plan, faults, crashes>>

FetchNotFound ==
    /\ pc = "fetch" /\ ~Exists(item.check)
    /\ DropItem
    /\ UNCHANGED <<apiVars, network, faults, crashes>>

\* The API server accepts the update of a copy that is still current.
Accepted == pc = "write" /\ Exists(item.check) /\ copy.current

StoreStatus ==
    /\ objects' = [objects EXCEPT ![item.check].status = built, ![item.check].age = waited]
    /\ origin' = [origin EXCEPT ![item.check] =
                    [listed |-> item.uid, base |-> base.uid, used |-> item.generation]]
    /\ shortest' = [shortest EXCEPT ![item.check] = objects[item.check].spec.interval]
    /\ waited' = 0
    /\ UNCHANGED uids

WriteStatus ==
    /\ Accepted
    /\ StoreStatus
    /\ pc' = "plan"
    /\ UNCHANGED <<reconcilerVars, network, tick, queue, item, base, built, copy, attempts, plan, faults, crashes>>

\* Mutant of AfterConflict: the attempts are not counted.
AfterConflictRetry == "fetch"

AfterConflict == IF attempts < RetrySteps THEN "fetch" ELSE "next"

\* The object changed since Fetch: try again, up to RetrySteps times.
Conflict ==
    /\ pc = "write" /\ Exists(item.check) /\ ~copy.current
    /\ pc' = AfterConflict
    /\ waited' = IF pc' = "fetch" THEN waited ELSE 0
    /\ UNCHANGED <<reconcilerVars, apiVars, network, tick, queue, item, base, built, copy, attempts, plan, faults, crashes>>

WriteNotFound ==
    /\ pc = "write" /\ ~Exists(item.check)
    /\ DropItem
    /\ UNCHANGED <<apiVars, network, faults, crashes>>

Plan ==
    /\ pc = "plan"
    /\ plan' = PlanRemediation(lastVerdict, item.spec.dryRun)
    /\ pc' = "next"
    /\ UNCHANGED <<reconcilerVars, apiVars, network, tick, queue, item, base, built, waited, copy, attempts, faults, crashes>>

-----------------------------------------------------------------------------
(* Failures. *)

Fault ==
    /\ faults < MaxFaults
    /\ faults' = faults + 1

\* List fails: the polling round is over.
ListFails ==
    /\ pc = "idle" /\ tick
    /\ Fault
    /\ tick' = FALSE
    /\ UNCHANGED <<reconcilerVars, apiVars, network, pc, queue, item, base, built, waited, copy, attempts, plan, crashes>>

\* Mutant of AfterFailure: the error is only logged.
AfterFailureGoOn == IF pc = "write" THEN "plan" ELSE "next"

AfterFailure == "next"

\* A Get, the listing of the agents, or the update fails without effect.
RequestFails ==
    /\ pc \in {"base", "probe", "fetch", "write"}
    /\ Fault
    /\ pc' = AfterFailure /\ waited' = 0
    /\ UNCHANGED <<reconcilerVars, apiVars, network, tick, queue, item, base, built, copy, attempts, plan, crashes>>

\* Mutant of AfterLostResponse: any error is retried, not conflicts only.
AfterLostResponseRetry == "fetch"

AfterLostResponse == "next"

\* The update is stored but its response is lost: an error for the controller.
ResponseLost ==
    /\ Accepted
    /\ Fault
    /\ StoreStatus
    /\ pc' = AfterLostResponse
    /\ UNCHANGED <<reconcilerVars, network, tick, queue, item, base, built, copy, attempts, plan, crashes>>

\* The process is replaced; all it knew is gone, the API server's state is not.
Restart ==
    /\ crashes < MaxCrashes
    /\ crashes' = crashes + 1
    /\ ReconcilerRestart
    /\ pc' = "idle" /\ tick' = TRUE
    /\ queue' = <<>> /\ item' = NoItem /\ base' = NoBase /\ built' = NoStatus
    /\ waited' = 0 /\ copy' = NoCopy /\ attempts' = 0 /\ plan' = NoPlan
    /\ UNCHANGED <<apiVars, network, faults>>

-----------------------------------------------------------------------------
(* Users, the network and time. *)

\* Any change of an object makes a fetched copy of it stale.
Touch(c) == copy' = IF item.check = c THEN [copy EXCEPT !.current = FALSE] ELSE copy

OthersUnchanged ==
    UNCHANGED <<reconcilerVars, network, pc, tick, queue, item, base, built, waited, attempts, plan, faults, crashes, origin>>

Create(c, spec) ==
    /\ ~Exists(c) /\ uids < MaxUid
    /\ uids' = uids + 1
    /\ objects' = [objects EXCEPT ![c] = NewObject(uids + 1, spec)]
    /\ shortest' = [shortest EXCEPT ![c] = spec.interval]
    /\ Touch(c)
    /\ OthersUnchanged

Edit(c, spec) ==
    /\ Exists(c) /\ objects[c].generation < MaxGeneration
    /\ spec # objects[c].spec
    /\ objects' = [objects EXCEPT ![c].spec = spec, ![c].generation = @ + 1]
    /\ shortest' = [shortest EXCEPT ![c] = IF spec.interval < @ THEN spec.interval ELSE @]
    /\ Touch(c)
    /\ UNCHANGED uids
    /\ OthersUnchanged

Delete(c) ==
    /\ Exists(c)
    /\ objects' = [objects EXCEPT ![c] = NoObject]
    /\ shortest' = [shortest EXCEPT ![c] = 0]
    /\ Touch(c)
    /\ UNCHANGED uids
    /\ OthersUnchanged

NetworkChanges(m) ==
    /\ m # network
    /\ network' = m
    /\ UNCHANGED <<reconcilerVars, apiVars, controllerVars, faults, crashes>>

\* The ticker fires; a tick that finds the channel full is dropped.
TickerFires ==
    /\ ~tick
    /\ tick' = TRUE
    /\ UNCHANGED <<reconcilerVars, apiVars, network, pc, queue, item, base, built, waited, copy, attempts, plan, faults, crashes>>

Older(age) == IF age < MaxAge THEN age + 1 ELSE age

\* lastProbeTime recedes, in the objects, in the listing and in the status that
\* waits to be stored.
TimePasses ==
    /\ objects' = [c \in Checks |-> IF Exists(c) THEN [objects[c] EXCEPT !.age = Older(@)] ELSE NoObject]
    /\ queue' = [i \in DOMAIN queue |-> [queue[i] EXCEPT !.age = Older(@)]]
    /\ waited' = IF pc \in {"fetch", "write"} THEN Older(waited) ELSE waited
    /\ <<objects, queue, waited>>' # <<objects, queue, waited>>
    /\ UNCHANGED <<reconcilerVars, uids, origin, shortest, network, pc, tick, item, base, built,
                   copy, attempts, plan, faults, crashes>>

-----------------------------------------------------------------------------
Controller ==
    \/ ListChecks \/ SkipItem \/ StartItem \/ EndRound
    \/ GetBase \/ BaseNotFound \/ Probe \/ Fetch \/ FetchNotFound
    \/ WriteStatus \/ Conflict \/ WriteNotFound \/ Plan
    \/ ListFails \/ RequestFails \/ ResponseLost

Environment ==
    \/ \E c \in Checks : \E spec \in Specs[c] : Create(c, spec) \/ Edit(c, spec)
    \/ \E c \in Checks : Delete(c)
    \/ \E m \in Matrices : NetworkChanges(m)
    \/ Restart

Next ==
    \/ Controller
    \/ Environment
    \/ TickerFires
    \/ TimePasses

Spec == Init /\ [][Next]_vars

\* Some action of Controller is enabled.
Busy == pc # "idle" \/ tick

\* The controller never stops for good, the ticker keeps firing, time goes on.
\* Users, the network and faults owe nothing.  The first conjunct is
\* WF_vars(Controller) with its ENABLED written as Busy, which spares TLC the
\* evaluation of a whole round in every state.
Fairness ==
    /\ []<>~Busy \/ []<><<Controller>>_vars
    /\ WF_vars(TickerFires)
    /\ WF_vars(TimePasses)

FairSpec == Spec /\ Fairness

-----------------------------------------------------------------------------
(* Safety. *)

\* The generation a status claims is at least the one whose spec the round
\* used and at most the one the object has, whatever edits, retries and lost
\* responses lie between.  Only a check deleted and created anew during its
\* reconciliation escapes: the update by name then gives the new object a claim
\* that was read from the old one, and may be ahead of it.
ObservedGenerationIsBetween ==
    \A c \in Checks : Exists(c) /\ objects[c].status # NoStatus =>
        LET claimed == objects[c].status.observedGeneration
        IN  /\ origin[c].listed <= origin[c].base /\ origin[c].base <= objects[c].uid
            /\ origin[c].listed = origin[c].base => origin[c].used <= claimed
            /\ origin[c].base = objects[c].uid => claimed <= objects[c].generation

\* A plan is made only of a verdict that the object carries: not before the
\* status is stored, not after a failed update, and an alert only if what is
\* published names a fault.
PlanFollowsPublished ==
    plan # NoPlan /\ Exists(item.check) /\ objects[item.check].uid = copy.uid =>
        /\ objects[item.check].status = built
        /\ plan.action = "AlertOnly" <=> built.verdict.class \in FaultClasses
        /\ ~plan.execute

\* No object is probed before the interval of the spec that the round uses is
\* over since its stored status, although both were read when the polling round
\* began.  An interval that an edit has made longer since then is not waited for.
ProbesRespectInterval ==
    [][Probe => ~Exists(item.check) \/ shouldRun(objects[item.check].age, item.spec.interval)]_vars

\* The transition time of the Healthy condition says when its reason last
\* changed: from one status of an object to the next it stays exactly if the
\* class stays, whatever retries, lost responses and restarts lie between, and
\* although it is taken from an object read before the round.
SameObject(c) == Exists(c) /\ Exists(c)' /\ objects'[c].uid = objects[c].uid

TransitionTimeMarksChange ==
    [][\A c \in Checks : SameObject(c) /\ objects[c].status # NoStatus =>
          LET old == objects[c].status
              new == objects'[c].status
          IN  new.condition.since = old.condition.since <=> new.verdict.class = old.verdict.class]_vars

\* The most steps the controller may still take in this polling round: for the
\* item in work, and for each item of the listing behind it.
StepsPerItem == 2 * RetrySteps + 4

StepsOfItem ==
    CASE pc = "next"  -> 1
      [] pc = "base"  -> 2 * RetrySteps + 4
      [] pc = "probe" -> 2 * RetrySteps + 3
      [] pc = "fetch" -> 2 * (RetrySteps - attempts) + 2
      [] pc = "write" -> 2 * (RetrySteps - attempts) + 3
      [] pc = "plan"  -> 2

StepsLeft == IF pc = "idle" THEN 0 ELSE StepsOfItem + Len(queue) * StepsPerItem

\* A polling round is bounded when it begins, by the listing and the attempts:
\* each step of the controller uses up some of it, and nothing users, the
\* network or time do gives any back.  So no stream of edits that makes every
\* update conflict holds up the checks behind.
PollingRoundIsBounded ==
    [][pc # "idle" => /\ StepsLeft' \in 0..StepsLeft
                      /\ Controller => StepsLeft' < StepsLeft]_vars

\* What readers of statuses and alerts see.
Unshown == [uid |-> 0, age |-> 0, interval |-> 0, shortest |-> 0, class |-> "none"]

shown == [c \in Checks |-> IF Exists(c) THEN [uid      |-> objects[c].uid,
                                              age      |-> objects[c].age,
                                              interval |-> objects[c].spec.interval,
                                              shortest |-> shortest[c],
                                              class    |-> objects[c].status.verdict.class]
                                        ELSE Unshown]
announced == IF pc = "plan" THEN built.verdict.class ELSE "none"
planned == plan.action

\* It is a behaviour of StatusContract: reads, retries, failures, lost
\* responses and restarts do not show.
Readers == INSTANCE StatusContract WITH Names <- Checks, Uids <- 1..MaxUid,
                                    Intervals <- {spec.interval : spec \in UNION {Specs[c] : c \in Checks}}

ImplementsStatusContract == Readers!ContractSpec

-----------------------------------------------------------------------------
(* Liveness, under FairSpec. *)

\* If the network stays as it is and a valid check stays, its status comes to
\* hold the verdict the classifier gives to that network and keeps it, after
\* any past of faults, restarts, edits and earlier network states.
Expected == [m \in Matrices |-> Verdicts(m)]

StatusConverges ==
    \A c \in Checks, m \in Matrices :
        <>[](Exists(c) /\ objects[c].spec.valid /\ network = m)
            => <>[](Exists(c) /\ objects[c].status.verdict \in Expected[m])

\* A valid check whose interval is over gets a new status, or is deleted, broken
\* or given a longer interval by an edit.  Invalid checks beside it, failing
\* requests and conflicts do not starve it, as long as requests fail and users
\* edit finitely often (MaxFaults, MaxGeneration, MaxUid).  A status that took
\* longer than the interval to be stored is due again at once: then there is
\* always another.
IsDue(c) == Exists(c) /\ objects[c].spec.valid /\ shouldRun(objects[c].age, objects[c].spec.interval)

DueChecksAreServed ==
    \A c \in Checks :
        <>[]IsDue(c) => []<><<item.check = c /\ (WriteStatus \/ ResponseLost)>>_vars

\* If users leave a valid check alone, its status comes to claim the generation
\* it has, made with the spec of that generation, and keeps doing so: what a
\* stale listing or a deleted object has put into it does not last.
MadeFromPresent(c) ==
    /\ objects[c].status # NoStatus
    /\ objects[c].status.observedGeneration = objects[c].generation
    /\ origin[c] = [listed |-> objects[c].uid, base |-> objects[c].uid, used |-> objects[c].generation]

GenerationCatchesUp ==
    \A c \in Checks, g \in 1..MaxGeneration :
        <>[](Exists(c) /\ objects[c].spec.valid /\ objects[c].generation = g)
            => <>[](Exists(c) /\ MadeFromPresent(c))
=============================================================================
