---------------------------- MODULE ManagerProofs ----------------------------
(***************************************************************************)
(* What readers see of the manager is a behaviour of StatusContract, and   *)
(* statuses, plans and transition times are what they claim to be, for any *)
(* checks, specs, networks and bounds.                                     *)
(*                                                                         *)
(* None of this is inductive as it stands: a status written now was built  *)
(* from a listing, from an object read before the round and from one read  *)
(* before the update, while users edited, deleted and created.  The        *)
(* inductive invariant says what each of these copies still says of the    *)
(* API server's object, step by step until the update.                     *)
(***************************************************************************)
EXTENDS Manager, ReconcilerProofs, SequenceTheorems

\* A listed object: what Listed returns.
AllSpecs == UNION {Specs[c] : c \in Checks}

Items == [check : Checks, uid : Nat, generation : Nat, spec : AllSpecs, age : 0..MaxAge]

\* A status in the API server: none yet, or one that BuildStatus made.
Stored(status) ==
    \/ status = NoStatus
    \/ /\ status.observedGeneration \in Nat
       /\ status.verdict.class \in Classes
       /\ status.condition.reason = status.verdict.class
       /\ status.condition.since \in Int

ObjectsTyped ==
    /\ uids \in Nat
    /\ objects = [c \in Checks |-> objects[c]]
    /\ origin = [c \in Checks |-> origin[c]]
    /\ shortest = [c \in Checks |-> shortest[c]]
    /\ \A c \in Checks : Exists(c) =>
          /\ DOMAIN objects[c] = {"uid", "generation", "spec", "status", "age"}
          /\ objects[c].uid \in 1..uids
          /\ objects[c].generation \in 1..MaxGeneration
          /\ objects[c].spec \in Specs[c]
          /\ objects[c].age \in 0..MaxAge
          /\ Stored(objects[c].status)
          /\ shortest[c] \in Int /\ shortest[c] <= objects[c].spec.interval

\* What a listed object says of the object of its name: it is no newer, and its
\* generation may be old.
Snapshot(q) ==
    /\ q \in Items
    /\ q.uid <= uids
    /\ Exists(q.check) => q.uid <= objects[q.check].uid
    /\ Exists(q.check) /\ objects[q.check].uid = q.uid => q.generation <= objects[q.check].generation

\* The object's status is at least as old as the listed one, and the listed
\* interval is one the object has had since; or it is new and has no status.
\* So a due time seen in the listing is one that the check was promised, even
\* if an edit has moved it since.
Behind(q) ==
    Exists(q.check) => /\ q.age <= objects[q.check].age
                       /\ \/ shortest[q.check] <= q.spec.interval
                          \/ objects[q.check].age = MaxAge

\* Of the rest of the listing: each name occurs once, and not that of the item
\* in work.
QueueInv ==
    /\ queue \in Seq(Items)
    /\ Len(queue) <= Cardinality(Checks)
    /\ \A i \in DOMAIN queue : Snapshot(queue[i]) /\ Behind(queue[i])
    /\ \A i, j \in DOMAIN queue : queue[i].check = queue[j].check => i = j
    /\ pc \notin {"idle", "next"} => \A i \in DOMAIN queue : queue[i].check # item.check

\* Of the item in work; until its status is written nobody else's round can
\* have used up its interval.
ItemInv ==
    /\ pc \notin {"idle", "next"} => Snapshot(item) /\ item.spec.valid
    /\ pc \in {"base", "probe", "fetch", "write"} => shouldRun(item.age, item.spec.interval) /\ Behind(item)

\* Of the object read before the round.
BaseInv ==
    pc \in {"probe", "fetch", "write", "plan"} =>
        /\ base.uid \in 0..uids /\ item.uid <= base.uid
        /\ base.generation \in Nat
        /\ base.condition.since \in Int
        /\ base.uid = item.uid => item.generation <= base.generation
        /\ Exists(item.check) => base.uid <= objects[item.check].uid
        /\ Exists(item.check) /\ objects[item.check].uid = base.uid =>
              base.generation <= objects[item.check].generation
        /\ pc # "plan" /\ Exists(item.check) /\ objects[item.check].status # NoStatus =>
              base.condition = objects[item.check].status.condition

\* Of the status built after the round.
BuiltInv ==
    pc \in {"fetch", "write", "plan"} =>
        /\ built.observedGeneration = base.generation
        /\ built.verdict = lastVerdict
        /\ built.verdict.class \in Classes
        /\ built.condition = [reason |-> built.verdict.class,
                              since  |-> TransitionTime(base.condition, built.verdict.class)]
        /\ built.verdict.class \in FaultClasses => AtLeastPercent(built.verdict.confidence, MinimumConfidence)

\* Of the time that status has waited to be stored: the one it is to replace is
\* older.
WaitedInv ==
    /\ waited \in 0..MaxAge
    /\ pc \in {"fetch", "write"} /\ Exists(item.check) => waited <= objects[item.check].age

\* Of the object fetched for the update.
CopyInv ==
    /\ copy \in [uid : Nat, current : BOOLEAN] /\ copy.uid <= uids
    /\ pc \in {"write", "plan"} => copy.uid # 0

\* The object that was updated still shows the status built for it.
Shows == Exists(item.check) /\ objects[item.check].uid = copy.uid => objects[item.check].status = built

\* Of the plan: it exists only between its making and the next item.
PlanInv ==
    /\ pc = "plan" => Shows
    /\ pc # "next" => plan = NoPlan
    /\ plan # NoPlan =>
          /\ item.check \in Checks
          /\ Shows
          /\ plan.action \in {"NoAction", "AlertOnly"}
          /\ plan.action = "AlertOnly" <=> built.verdict.class \in FaultClasses
          /\ ~plan.execute

ControlInv ==
    /\ pc \in {"idle", "next", "base", "probe", "fetch", "write", "plan"}
    /\ tick \in BOOLEAN
    /\ network \in Matrices
    /\ attempts \in 0..RetrySteps
    /\ pc \in {"base", "probe", "fetch"} => attempts < RetrySteps

IInv ==
    /\ ObjectsTyped /\ QueueInv /\ ItemInv /\ BaseInv /\ BuiltInv /\ WaitedInv /\ CopyInv
    /\ PlanInv /\ ControlInv /\ TrackerInv /\ ObservedGenerationIsBetween

\* What a step leaves as it is when the API server does not change.
LEMMA ApiUnchanged ==
    ASSUME IInv, UNCHANGED apiVars
    PROVE  ObjectsTyped' /\ ObservedGenerationIsBetween'
BY DEF IInv, apiVars, ObjectsTyped, ObservedGenerationIsBetween, Exists, Stored

LEMMA WaitedKept ==
    ASSUME IInv, UNCHANGED <<objects, item>>, waited' = waited,
           pc' \in {"fetch", "write"} => pc \in {"fetch", "write"}
    PROVE  WaitedInv'
BY DEF IInv, WaitedInv, Exists

LEMMA WaitedOver ==
    ASSUME waited' = 0, pc' \notin {"fetch", "write"}
    PROVE  WaitedInv'
BY ManagerAssumption DEF WaitedInv

\* The rest of the listing.
LEMMA QueueRest ==
    ASSUME QueueInv, queue # <<>>
    PROVE  /\ Tail(queue) \in Seq(Items) /\ Len(Tail(queue)) = Len(queue) - 1 /\ Len(queue) \in Nat
           /\ \A i \in DOMAIN Tail(queue) : Tail(queue)[i] = queue[i + 1] /\ i + 1 \in DOMAIN queue
           /\ \A i, j \in DOMAIN Tail(queue) : i + 1 = j + 1 => i = j
           /\ Head(queue) = queue[1] /\ 1 \in DOMAIN queue
           /\ \A i \in DOMAIN Tail(queue) : i + 1 # 1
BY DEF QueueInv

\* SkipItem drops the head of the listing and keeps the rest.
LEMMA SkipItemStep == ASSUME IInv, SkipItem PROVE IInv'
<1>0. /\ UNCHANGED <<apiVars, reconcilerVars, network, pc, tick, item, base, built, waited, copy, attempts, plan>>
      /\ queue' = Tail(queue) /\ pc = "next" /\ queue # <<>>
  BY DEF SkipItem, AfterSkipped
<1>1. ObjectsTyped' /\ ObservedGenerationIsBetween'
  BY <1>0, ApiUnchanged
<1>2. QueueInv'
  <2>1. queue' \in Seq(Items) /\ Len(queue') <= Cardinality(Checks)
    BY <1>0, QueueRest, FS_CardinalityType, ManagerAssumption DEF IInv, QueueInv
  <2>2. (\A i \in DOMAIN queue : Snapshot(queue[i]) /\ Behind(queue[i]))'
    BY <1>0, QueueRest DEF IInv, QueueInv, Snapshot, Behind, Exists, apiVars
  <2>3. \A i, j \in DOMAIN queue' : queue'[i].check = queue'[j].check => i = j
    BY <1>0, QueueRest DEF IInv, QueueInv
  <2> QED
    BY <1>0, <2>1, <2>2, <2>3 DEF QueueInv
<1>3. ItemInv' /\ BaseInv' /\ BuiltInv' /\ CopyInv' /\ PlanInv' /\ ControlInv' /\ TrackerInv'
  BY <1>0 DEF IInv, ItemInv, BaseInv, BuiltInv, CopyInv, PlanInv, ControlInv, TrackerInv, Shows,
              Snapshot, Behind, Exists, apiVars, reconcilerVars
<1>4. WaitedInv'
  BY <1>0, WaitedKept DEF apiVars
<1> QED
  BY <1>1, <1>2, <1>3, <1>4 DEF IInv

\* StartItem takes up an item that was valid and due when listed.
LEMMA StartItemStep == ASSUME IInv, StartItem PROVE IInv'
<1>0. /\ UNCHANGED <<apiVars, reconcilerVars, network, tick>>
      /\ queue' = Tail(queue) /\ item' = Head(queue) /\ queue # <<>>
      /\ pc = "next" /\ pc' = "base" /\ attempts' = 0 /\ plan' = NoPlan /\ waited' = 0 /\ copy' = NoCopy
      /\ Head(queue).spec.valid /\ shouldRun(Head(queue).age, Head(queue).spec.interval)
  BY DEF StartItem, Runnable
<1>1. ObjectsTyped' /\ ObservedGenerationIsBetween'
  BY <1>0, ApiUnchanged
<1>2. QueueInv'
  <2>1. queue' \in Seq(Items) /\ Len(queue') <= Cardinality(Checks)
    BY <1>0, QueueRest, FS_CardinalityType, ManagerAssumption DEF IInv, QueueInv
  <2>2. (\A i \in DOMAIN queue : Snapshot(queue[i]) /\ Behind(queue[i]))'
    BY <1>0, QueueRest DEF IInv, QueueInv, Snapshot, Behind, Exists, apiVars
  <2>3. \A i, j \in DOMAIN queue' : queue'[i].check = queue'[j].check => i = j
    BY <1>0, QueueRest DEF IInv, QueueInv
  <2>4. \A i \in DOMAIN queue' : queue'[i].check # item'.check
    BY <1>0, QueueRest DEF IInv, QueueInv
  <2> QED
    BY <1>0, <2>1, <2>2, <2>3, <2>4 DEF QueueInv
<1>3. ItemInv'
  BY <1>0 DEF IInv, QueueInv, ItemInv, Snapshot, Behind, Exists, apiVars
<1>4. BaseInv' /\ BuiltInv' /\ CopyInv' /\ PlanInv' /\ ControlInv' /\ TrackerInv'
  BY <1>0, ManagerAssumption DEF IInv, BaseInv, BuiltInv, CopyInv, PlanInv, ControlInv, TrackerInv, NoCopy,
              NoPlan, apiVars, reconcilerVars, ObjectsTyped
<1>5. WaitedInv'
  BY <1>0, WaitedOver
<1> QED
  BY <1>1, <1>2, <1>3, <1>4, <1>5 DEF IInv

\* GetBase reads an object that is at least as new as the listed one.
LEMMA GetBaseStep == ASSUME IInv, GetBase PROVE IInv'
<1>0. /\ UNCHANGED <<apiVars, reconcilerVars, network, tick, queue, item, built, waited, copy, attempts, plan>>
      /\ pc = "base" /\ pc' = "probe" /\ Exists(item.check)
      /\ base' = [uid        |-> objects[item.check].uid,
                  generation |-> objects[item.check].generation,
                  condition  |-> ConditionOf(objects[item.check])]
  BY DEF GetBase, GenerationOf
<1>1. ObjectsTyped' /\ ObservedGenerationIsBetween'
  BY <1>0, ApiUnchanged
<1>2. QueueInv' /\ ItemInv' /\ BuiltInv' /\ CopyInv' /\ PlanInv' /\ ControlInv' /\ TrackerInv'
  BY <1>0 DEF IInv, QueueInv, ItemInv, BuiltInv, CopyInv, PlanInv, ControlInv, TrackerInv, Shows,
              Snapshot, Behind, Exists, apiVars, reconcilerVars
<1>3. BaseInv'
  BY <1>0, ManagerAssumption DEF IInv, ObjectsTyped, ItemInv, BaseInv, Snapshot, Items, Exists, apiVars, Stored,
                   ConditionOf, NoCondition
<1>4. WaitedInv'
  BY <1>0, WaitedKept DEF apiVars
<1> QED
  BY <1>1, <1>2, <1>3, <1>4 DEF IInv

\* A step that moves the controller without storing anything.
LEMMA ControlMoves ==
    ASSUME IInv, UNCHANGED <<apiVars, reconcilerVars, queue, item, base, built, copy, attempts, plan>>,
           network' \in Matrices, tick' \in BOOLEAN,
           \/ pc' = pc /\ waited' = waited
           \/ pc \in {"base", "probe", "fetch", "write"} /\ pc' = "next" /\ waited' = 0
           \/ pc = "write" /\ pc' = "fetch" /\ waited' = waited /\ attempts < RetrySteps
    PROVE  IInv'
<1>1. ObjectsTyped' /\ ObservedGenerationIsBetween'
  BY ApiUnchanged
<1>2. QueueInv' /\ ItemInv'
  BY DEF IInv, QueueInv, ItemInv, Snapshot, Behind, Exists, apiVars
<1>3. BaseInv' /\ BuiltInv' /\ CopyInv'
  BY DEF IInv, BaseInv, BuiltInv, CopyInv, Exists, apiVars, reconcilerVars
<1>4. PlanInv' /\ ControlInv' /\ TrackerInv'
  BY DEF IInv, PlanInv, ControlInv, TrackerInv, Shows, Exists, apiVars, reconcilerVars
<1>5. WaitedInv'
  BY WaitedKept, WaitedOver DEF apiVars
<1> QED
  BY <1>1, <1>2, <1>3, <1>4, <1>5 DEF IInv

\* An item is dropped, or an update tried again.
LEMMA DropSteps ==
    ASSUME IInv, BaseNotFound \/ FetchNotFound \/ WriteNotFound \/ Conflict
    PROVE  IInv'
<1>1. network' \in Matrices /\ tick' \in BOOLEAN
  BY DEF IInv, ControlInv, BaseNotFound, FetchNotFound, WriteNotFound, Conflict, DropItem
<1> QED
  BY <1>1, ControlMoves DEF BaseNotFound, FetchNotFound, WriteNotFound, Conflict, AfterConflict, DropItem

\* A request fails.
LEMMA FailureSteps ==
    ASSUME IInv, ListFails \/ RequestFails
    PROVE  IInv'
<1>1. network' \in Matrices /\ tick' \in BOOLEAN
  BY DEF IInv, ControlInv, ListFails, RequestFails
<1> QED
  BY <1>1, ControlMoves DEF ListFails, RequestFails, AfterFailure

\* The ticker and the network.
LEMMA OutsideSteps ==
    ASSUME IInv, TickerFires \/ \E m \in Matrices : NetworkChanges(m)
    PROVE  IInv'
<1>1. network' \in Matrices /\ tick' \in BOOLEAN
  BY DEF IInv, ControlInv, TickerFires, NetworkChanges, controllerVars
<1> QED
  BY <1>1, ControlMoves DEF TickerFires, NetworkChanges, controllerVars

\* A new item, the end of a round or of the process: nothing is known of an
\* object, and no plan is left.
LEMMA EndRoundStep == ASSUME IInv, EndRound PROVE IInv'
<1>0. /\ UNCHANGED <<apiVars, reconcilerVars, network, tick, queue>>
      /\ pc' = "idle" /\ attempts' = 0 /\ plan' = NoPlan /\ waited' = 0 /\ copy' = NoCopy
  BY DEF EndRound
<1>1. ObjectsTyped' /\ ObservedGenerationIsBetween'
  BY <1>0, ApiUnchanged
<1>2. QueueInv' /\ ItemInv'
  BY <1>0 DEF IInv, QueueInv, ItemInv, Snapshot, Behind, Exists, apiVars
<1>3. BaseInv' /\ BuiltInv' /\ CopyInv' /\ PlanInv' /\ ControlInv' /\ TrackerInv'
  BY <1>0, ManagerAssumption DEF IInv, BaseInv, BuiltInv, CopyInv, PlanInv, ControlInv, TrackerInv,
              NoCopy, NoPlan, apiVars, reconcilerVars, ObjectsTyped
<1>4. WaitedInv'
  BY <1>0, WaitedOver
<1> QED
  BY <1>1, <1>2, <1>3, <1>4 DEF IInv

\* A restart forgets all the controller knew.
LEMMA RestartStep == ASSUME IInv, Restart PROVE IInv'
<1>0. /\ UNCHANGED <<apiVars, network>>
      /\ pc' = "idle" /\ tick' = TRUE /\ queue' = <<>> /\ attempts' = 0 /\ plan' = NoPlan
      /\ waited' = 0 /\ copy' = NoCopy /\ tracker' = NoTracker
  BY DEF Restart, ReconcilerRestart
<1>1. ObjectsTyped' /\ ObservedGenerationIsBetween'
  BY <1>0, ApiUnchanged
<1>2. QueueInv' /\ ItemInv'
  BY <1>0, FS_CardinalityType, ManagerAssumption DEF QueueInv, ItemInv
<1>3. BaseInv' /\ BuiltInv' /\ CopyInv' /\ PlanInv' /\ ControlInv'
  BY <1>0, ManagerAssumption DEF IInv, BaseInv, BuiltInv, CopyInv, PlanInv, ControlInv,
              NoCopy, NoPlan, apiVars, ObjectsTyped
<1>4. TrackerInv'
  BY <1>0 DEF TrackerInv, NoTracker
<1>5. WaitedInv'
  BY <1>0, WaitedOver
<1> QED
  BY <1>1, <1>2, <1>3, <1>4, <1>5 DEF IInv

\* Fetch takes a current copy.
LEMMA FetchStep == ASSUME IInv, Fetch PROVE IInv'
<1>0. /\ UNCHANGED <<apiVars, reconcilerVars, network, tick, queue, item, base, built, waited, plan>>
      /\ pc = "fetch" /\ pc' = "write" /\ Exists(item.check) /\ attempts' = attempts + 1
      /\ copy' = [uid |-> objects[item.check].uid, current |-> TRUE]
  BY DEF Fetch
<1>1. ObjectsTyped' /\ ObservedGenerationIsBetween'
  BY <1>0, ApiUnchanged
<1>2. QueueInv' /\ ItemInv' /\ BaseInv' /\ BuiltInv' /\ TrackerInv'
  BY <1>0 DEF IInv, QueueInv, ItemInv, BaseInv, BuiltInv, TrackerInv, Snapshot, Behind, Exists,
              apiVars, reconcilerVars
<1>3. CopyInv'
  BY <1>0 DEF IInv, ObjectsTyped, ItemInv, CopyInv, Snapshot, Items, Exists, apiVars
<1>4. PlanInv' /\ ControlInv'
  BY <1>0, ManagerAssumption DEF IInv, PlanInv, ControlInv
<1>5. WaitedInv'
  BY <1>0, WaitedKept DEF apiVars
<1> QED
  BY <1>1, <1>2, <1>3, <1>4, <1>5 DEF IInv

\* Plan makes the plan of the verdict that is published.
LEMMA PlanStep == ASSUME IInv, Plan PROVE IInv'
<1>0. /\ UNCHANGED <<apiVars, reconcilerVars, network, tick, queue, item, base, built, waited, copy, attempts>>
      /\ pc = "plan" /\ pc' = "next"
      /\ plan' = PlanRemediation(lastVerdict, item.spec.dryRun)
  BY DEF Plan
<1>1. ObjectsTyped' /\ ObservedGenerationIsBetween'
  BY <1>0, ApiUnchanged
<1>2. QueueInv' /\ ItemInv' /\ BaseInv' /\ BuiltInv' /\ CopyInv' /\ ControlInv' /\ TrackerInv'
  BY <1>0 DEF IInv, QueueInv, ItemInv, BaseInv, BuiltInv, CopyInv, ControlInv, TrackerInv, Snapshot, Behind, Exists,
              apiVars, reconcilerVars
<1>3. PlanInv'
  <2>1. item.check \in Checks
    BY <1>0 DEF IInv, ItemInv, Snapshot, Items
  <2>2. /\ plan'.action \in {"NoAction", "AlertOnly"} /\ ~plan'.execute
        /\ plan'.action = "AlertOnly" <=> /\ lastVerdict.class \in FaultClasses
                                          /\ AtLeastPercent(lastVerdict.confidence, MinimumConfidence)
    BY <1>0 DEF PlanRemediation
  <2>3. plan'.action = "AlertOnly" <=> built.verdict.class \in FaultClasses
    BY <1>0, <2>2 DEF IInv, BuiltInv
  <2>4. Shows'
    BY <1>0 DEF IInv, PlanInv, Shows, Exists, apiVars
  <2> QED
    BY <1>0, <2>1, <2>2, <2>3, <2>4 DEF PlanInv
<1>4. WaitedInv'
  BY <1>0, WaitedKept DEF apiVars
<1> QED
  BY <1>1, <1>2, <1>3, <1>4 DEF IInv

\* One evaluation keeps the tracker typed and gives a verdict of a known class
\* that names no fault below the confidence an alert asks for.
LEMMA ReconcileTyped ==
    ASSUME TrackerInv, NEW cfg, NEW m \in Matrices, Reconcile(cfg, m)
    PROVE  /\ TrackerInv'
           /\ lastVerdict'.class \in Classes
           /\ lastVerdict'.class \in FaultClasses => AtLeastPercent(lastVerdict'.confidence, MinimumConfidence)
<1>1. IsFiniteSet(DOMAIN m)
  BY ManagerAssumption
<1>2. /\ TrackerInv'
      /\ lastVerdict' \in Verdicts(lastMatrix')
      /\ lastVerdict'.class \in Classes /\ lastVerdict'.confidence \in Confidence
  BY <1>1, Evaluation
<1>3. ASSUME lastVerdict'.class \in FaultClasses
      PROVE  AtLeastPercent(lastVerdict'.confidence, MinimumConfidence)
  <2> DEFINE num == lastVerdict'.confidence.num
             den == lastVerdict'.confidence.den
  <2>1. num \in Nat /\ den \in Nat
    BY <1>2 DEF Confidence
  <2>2. 100 * num >= Floor * den
    BY <1>2, <1>3, FaultsAreConfident DEF FaultClasses, AtLeastPercent
  <2>3. Floor * den >= MinimumConfidence * den
    <3> HIDE DEF den
    <3> QED
      BY <2>1, FloorAssumption, FloorPositive DEF MinimumConfidence
  <2> QED
    BY <2>1, <2>2, <2>3, FloorPositive DEF AtLeastPercent, MinimumConfidence
<1> QED
  BY <1>2, <1>3

\* Probe builds the status from the base read before.
LEMMA ProbeStep == ASSUME IInv, Probe PROVE IInv'
<1>0. /\ UNCHANGED <<apiVars, network, tick, queue, item, base, copy, attempts, plan>>
      /\ pc = "probe" /\ pc' = "fetch" /\ Reconcile(item.spec.cfg, network)
      /\ built' = BuildStatus(base.generation, base.condition, lastVerdict', lastMatrix') /\ waited' = 0
  BY DEF Probe
<1>1. ObjectsTyped' /\ ObservedGenerationIsBetween'
  BY <1>0, ApiUnchanged
<1>2. QueueInv' /\ ItemInv' /\ BaseInv' /\ CopyInv' /\ PlanInv' /\ ControlInv'
  BY <1>0 DEF IInv, QueueInv, ItemInv, BaseInv, CopyInv, PlanInv, ControlInv, Snapshot, Behind, Exists,
              apiVars
<1>3. /\ TrackerInv'
      /\ lastVerdict'.class \in Classes
      /\ lastVerdict'.class \in FaultClasses => AtLeastPercent(lastVerdict'.confidence, MinimumConfidence)
  BY <1>0, ReconcileTyped DEF IInv, ControlInv
<1>4. BuiltInv'
  BY <1>0, <1>3 DEF BuiltInv, BuildStatus
<1>5. WaitedInv'
  BY <1>0, ManagerAssumption DEF IInv, ObjectsTyped, ItemInv, Snapshot, Items, WaitedInv, Exists, apiVars
<1> QED
  BY <1>1, <1>2, <1>3, <1>4, <1>5 DEF IInv

\* What storing a status changes: of one object the status and the due time.
LEMMA Storing ==
    ASSUME IInv, Accepted, StoreStatus
    PROVE  /\ item.check \in Checks /\ Exists(item.check) /\ pc = "write" /\ uids' = uids
           /\ objects' = [c \in Checks |-> objects'[c]] /\ origin' = [c \in Checks |-> origin'[c]]
           /\ shortest' = [c \in Checks |-> shortest'[c]] /\ waited' = 0
           /\ \A c \in Checks : c # item.check =>
                 objects'[c] = objects[c] /\ origin'[c] = origin[c] /\ shortest'[c] = shortest[c]
           /\ \A c \in Checks : Exists(c) =>
                 /\ objects'[c] # NoObject
                 /\ DOMAIN objects'[c] = {"uid", "generation", "spec", "status", "age"}
                 /\ objects'[c].uid = objects[c].uid
                 /\ objects'[c].generation = objects[c].generation
                 /\ objects'[c].spec = objects[c].spec
           /\ \A c \in Checks : ~Exists(c) => objects'[c] = NoObject
           /\ objects'[item.check].status = built /\ objects'[item.check].age = waited
           /\ shortest'[item.check] = objects[item.check].spec.interval
           /\ origin'[item.check] = [listed |-> item.uid, base |-> base.uid, used |-> item.generation]
<1>1. item.check \in Checks /\ Exists(item.check) /\ pc = "write"
  BY DEF IInv, ItemInv, Snapshot, Items, Accepted
<1>2. DOMAIN objects = Checks /\ DOMAIN origin = Checks /\ DOMAIN shortest = Checks
  BY DEF IInv, ObjectsTyped
<1>3. DOMAIN objects[item.check] = {"uid", "generation", "spec", "status", "age"}
  BY <1>1 DEF IInv, ObjectsTyped
<1>4. /\ objects' = [c \in Checks |-> IF c = item.check THEN objects'[item.check] ELSE objects[c]]
      /\ origin' = [c \in Checks |-> IF c = item.check
                     THEN [listed |-> item.uid, base |-> base.uid, used |-> item.generation] ELSE origin[c]]
      /\ shortest' = [c \in Checks |-> IF c = item.check
                       THEN objects[item.check].spec.interval ELSE shortest[c]]
  BY <1>1, <1>2 DEF StoreStatus
<1>5. objects'[item.check] = [[objects[item.check] EXCEPT !.status = built] EXCEPT !.age = waited]
  BY <1>1, <1>2 DEF StoreStatus
<1>6. /\ DOMAIN objects'[item.check] = {"uid", "generation", "spec", "status", "age"}
      /\ objects'[item.check].uid = objects[item.check].uid
      /\ objects'[item.check].generation = objects[item.check].generation
      /\ objects'[item.check].spec = objects[item.check].spec
      /\ objects'[item.check].status = built /\ objects'[item.check].age = waited
  BY <1>3, <1>5
<1>7. \A c \in Checks : Exists(c) => DOMAIN objects[c] = {"uid", "generation", "spec", "status", "age"}
  BY DEF IInv, ObjectsTyped
<1>8. objects'[item.check] # NoObject
  BY <1>6 DEF NoObject
<1> QED
  BY <1>1, <1>4, <1>6, <1>7, <1>8 DEF StoreStatus, Exists

\* The update is stored, with or without an answer.
LEMMA StoreStatusSteps == ASSUME IInv, WriteStatus \/ ResponseLost PROVE IInv'
<1>0. /\ Accepted /\ StoreStatus /\ pc' \in {"plan", "next"}
      /\ UNCHANGED <<reconcilerVars, network, tick, queue, item, base, built, copy, attempts, plan>>
  BY DEF WriteStatus, ResponseLost, AfterLostResponse
<1>1. /\ built.observedGeneration = base.generation /\ base.generation \in Nat
      /\ built.verdict.class \in Classes
      /\ built.condition.reason = built.verdict.class
      /\ built.condition.since \in Int
  <2>1. /\ base.condition.since \in Int /\ base.generation \in Nat
        /\ built.observedGeneration = base.generation
        /\ built.verdict.class \in Classes
        /\ built.condition = [reason |-> built.verdict.class,
                              since  |-> TransitionTime(base.condition, built.verdict.class)]
    BY <1>0, Storing DEF IInv, BaseInv, BuiltInv
  <2>2. TransitionTime(base.condition, built.verdict.class) \in Int
    BY <2>1 DEF TransitionTime
  <2> QED
    BY <2>1, <2>2
<1>2. ObjectsTyped'
  <2>1. Stored(built)
    BY <1>1 DEF Stored
  <2>2. ASSUME NEW c \in Checks, Exists(c)'
        PROVE  /\ DOMAIN objects'[c] = {"uid", "generation", "spec", "status", "age"}
               /\ objects'[c].uid \in 1..uids'
               /\ objects'[c].generation \in 1..MaxGeneration
               /\ objects'[c].spec \in Specs[c]
               /\ objects'[c].age \in 0..MaxAge
               /\ Stored(objects'[c].status)
               /\ shortest'[c] \in Int /\ shortest'[c] <= objects'[c].spec.interval
    <3>1. Exists(c)
      BY <1>0, <2>2, Storing DEF Exists
    <3>2. CASE c = item.check
      <4>1. objects[c].spec.interval \in Int /\ waited \in 0..MaxAge
        BY <3>1, ManagerAssumption DEF IInv, ObjectsTyped, WaitedInv
      <4> QED
        BY <1>0, <2>1, <3>1, <3>2, <4>1, Storing DEF IInv, ObjectsTyped
    <3>3. CASE c # item.check
      BY <1>0, <3>1, <3>3, Storing DEF IInv, ObjectsTyped
    <3> QED
      BY <3>2, <3>3
  <2>3. (\A c \in Checks : Exists(c) => Stored(objects[c].status))'
    BY <2>2 DEF Stored
  <2> QED
    BY <1>0, <2>2, <2>3, Storing DEF IInv, ObjectsTyped
<1>3. ObservedGenerationIsBetween'
  <2> SUFFICES ASSUME NEW c \in Checks, Exists(c)', objects'[c].status # NoStatus
               PROVE  /\ origin'[c].listed <= origin'[c].base /\ origin'[c].base <= objects'[c].uid
                      /\ origin'[c].listed = origin'[c].base =>
                            origin'[c].used <= objects'[c].status.observedGeneration
                      /\ origin'[c].base = objects'[c].uid =>
                            objects'[c].status.observedGeneration <= objects'[c].generation
    BY DEF ObservedGenerationIsBetween
  <2>1. CASE c = item.check
    <3>1. /\ item.uid <= base.uid /\ base.uid <= objects[c].uid
          /\ base.uid = item.uid => item.generation <= base.generation
          /\ objects[c].uid = base.uid => base.generation <= objects[c].generation
      BY <1>0, <2>1, Storing DEF IInv, BaseInv
    <3>2. /\ origin'[c].listed = item.uid /\ origin'[c].base = base.uid /\ origin'[c].used = item.generation
          /\ objects'[c].status = built
          /\ objects'[c].uid = objects[c].uid /\ objects'[c].generation = objects[c].generation
      BY <1>0, <2>1, Storing
    <3> QED
      BY <1>1, <3>1, <3>2
  <2>2. CASE c # item.check
    <3>1. Exists(c) /\ objects'[c] = objects[c] /\ origin'[c] = origin[c]
      BY <1>0, <2>2, Storing DEF Exists
    <3> QED
      BY <3>1 DEF IInv, ObservedGenerationIsBetween
  <2> QED
    BY <2>1, <2>2
<1>4. QueueInv'
  <2>1. queue \in Seq(Items) /\ queue' = queue /\ pc = "write"
    BY <1>0, Storing DEF IInv, QueueInv
  <2>2. ASSUME NEW i \in DOMAIN queue
        PROVE  (Snapshot(queue[i]) /\ Behind(queue[i]))'
    <3>1. /\ Snapshot(queue[i]) /\ Behind(queue[i])
          /\ queue[i].check \in Checks /\ queue[i].check # item.check
      BY <2>1 DEF IInv, QueueInv, Snapshot, Items
    <3>2. /\ objects'[queue[i].check] = objects[queue[i].check]
          /\ shortest'[queue[i].check] = shortest[queue[i].check]
          /\ queue'[i] = queue[i] /\ uids' = uids
      BY <1>0, <2>1, <3>1, Storing
    <3> QED
      BY <3>1, <3>2 DEF Snapshot, Behind, Exists
  <2>3. queue' \in Seq(Items) /\ DOMAIN queue' = DOMAIN queue /\ Len(queue') <= Cardinality(Checks)
    BY <2>1 DEF IInv, QueueInv
  <2> QED
    BY <1>0, <2>1, <2>2, <2>3 DEF IInv, QueueInv
<1>5. ItemInv'
  BY <1>0, Storing DEF IInv, ItemInv, Snapshot, Exists
<1>6. BaseInv'
  BY <1>0, Storing DEF IInv, BaseInv, Exists
<1>7. BuiltInv' /\ CopyInv' /\ ControlInv' /\ TrackerInv'
  BY <1>0, Storing DEF IInv, BuiltInv, CopyInv, ControlInv, TrackerInv, reconcilerVars
<1>8. PlanInv'
  BY <1>0, Storing DEF IInv, PlanInv, Shows
<1>9. WaitedInv'
  BY <1>0, Storing, WaitedOver
<1> QED
  BY <1>2, <1>3, <1>4, <1>5, <1>6, <1>7, <1>8, <1>9 DEF IInv

-----------------------------------------------------------------------------
(* Users, and time. *)

\* A fetched copy may become stale, and nothing else of it changes.
LEMMA Touched ==
    ASSUME CopyInv, NEW c, Touch(c)
    PROVE  copy' \in [uid : Nat, current : BOOLEAN] /\ copy'.uid = copy.uid
BY DEF CopyInv, Touch

\* A user creates an object.
LEMMA CreateStep ==
    ASSUME IInv, NEW c \in Checks, NEW spec \in Specs[c], Create(c, spec)
    PROVE  IInv'
<1>0. /\ ~Exists(c) /\ uids \in Nat /\ uids' = uids + 1
      /\ objects' = [d \in Checks |-> IF d = c THEN NewObject(uids + 1, spec) ELSE objects[d]]
      /\ shortest' = [d \in Checks |-> IF d = c THEN spec.interval ELSE shortest[d]]
      /\ copy' \in [uid : Nat, current : BOOLEAN] /\ copy'.uid = copy.uid
      /\ UNCHANGED <<reconcilerVars, network, pc, tick, queue, item, base, built, waited, attempts, plan, origin>>
  BY Touched DEF IInv, ObjectsTyped, Create, OthersUnchanged
<1>1. /\ \A d \in Checks : d # c => objects'[d] = objects[d] /\ shortest'[d] = shortest[d]
      /\ objects'[c] = NewObject(uids + 1, spec) /\ objects[c] = NoObject /\ shortest'[c] = spec.interval
      /\ \A d \in Checks : Exists(d) => d # c
  BY <1>0 DEF Exists
<1>2. /\ DOMAIN objects'[c] = {"uid", "generation", "spec", "status", "age"}
      /\ objects'[c].uid = uids + 1 /\ objects'[c].generation = 1 /\ objects'[c].spec = spec
      /\ objects'[c].status = NoStatus /\ objects'[c].age = MaxAge
  BY <1>1 DEF NewObject
<1>3. \A d \in Checks : Exists(d) => objects[d].uid <= uids
  BY DEF IInv, ObjectsTyped
<1>4. ObjectsTyped'
  <2>1. ASSUME NEW d \in Checks, Exists(d)'
        PROVE  /\ DOMAIN objects'[d] = {"uid", "generation", "spec", "status", "age"}
               /\ objects'[d].uid \in 1..uids'
               /\ objects'[d].generation \in 1..MaxGeneration
               /\ objects'[d].spec \in Specs[d]
               /\ objects'[d].age \in 0..MaxAge
               /\ shortest'[d] \in Int /\ shortest'[d] <= objects'[d].spec.interval
    <3>1. CASE d = c
      <4>1. /\ 1 \in 1..MaxGeneration /\ uids + 1 \in 1..uids' /\ MaxAge \in 0..MaxAge
            /\ spec.interval \in Int /\ spec.interval <= spec.interval
        BY <1>0, ManagerAssumption
      <4> QED
        BY <1>1, <1>2, <3>1, <4>1
    <3>2. CASE d # c
      BY <1>0, <1>1, <2>1, <3>2 DEF IInv, ObjectsTyped, Exists
    <3> QED
      BY <3>1, <3>2
  <2>2. (\A d \in Checks : Exists(d) => Stored(objects[d].status))'
    BY <1>0, <1>1, <1>2 DEF IInv, ObjectsTyped, Exists, Stored
  <2> QED
    BY <1>0, <2>1, <2>2 DEF IInv, ObjectsTyped
<1>5. ObservedGenerationIsBetween'
  BY <1>0, <1>1, <1>2 DEF IInv, ObservedGenerationIsBetween, Exists
<1>6. \A q : /\ Snapshot(q) => Snapshot(q)'
             /\ q \in Items /\ Behind(q) => Behind(q)'
  <2> SUFFICES ASSUME NEW q, q \in Items
               PROVE  (Snapshot(q) => Snapshot(q)') /\ (Behind(q) => Behind(q)')
    BY DEF Snapshot
  <2>0. q.check \in Checks /\ q.uid \in Nat /\ q.age \in 0..MaxAge
    BY DEF Items
  <2>1. CASE q.check = c
    BY <1>0, <1>2, <2>0, <2>1, ManagerAssumption DEF Snapshot, Behind
  <2>2. CASE q.check # c
    BY <1>0, <1>1, <2>0, <2>2 DEF Snapshot, Behind, Exists
  <2> QED
    BY <2>1, <2>2
<1>7. QueueInv'
  BY <1>0, <1>6 DEF IInv, QueueInv, Snapshot
<1>8. ItemInv'
  BY <1>0, <1>6 DEF IInv, ItemInv, Snapshot
<1>9. BaseInv'
  <2> SUFFICES ASSUME pc \in {"probe", "fetch", "write", "plan"} PROVE BaseInv'
    BY <1>0 DEF BaseInv
  <2>0. /\ item.check \in Checks /\ base.uid \in 0..uids
        /\ base.uid <= uids + 1 /\ base.uid # uids + 1 /\ base.uid \in 0..(uids + 1)
    BY <1>0 DEF IInv, ItemInv, BaseInv, Snapshot, Items
  <2>1. CASE item.check = c
    BY <1>0, <1>2, <2>0, <2>1 DEF IInv, BaseInv
  <2>2. CASE item.check # c
    BY <1>0, <1>1, <2>0, <2>2 DEF IInv, BaseInv, Exists
  <2> QED
    BY <2>1, <2>2
<1>10. BuiltInv' /\ CopyInv' /\ ControlInv' /\ TrackerInv'
  BY <1>0 DEF IInv, BuiltInv, CopyInv, ControlInv, TrackerInv, reconcilerVars
<1>11. WaitedInv'
  BY <1>0, <1>1, <1>2, ManagerAssumption DEF IInv, WaitedInv, ItemInv, Snapshot, Items, Exists
<1>12. PlanInv'
  BY <1>0, <1>1, <1>2 DEF IInv, PlanInv, ItemInv, CopyInv, Snapshot, Items, Shows, Exists
<1> QED
  BY <1>4, <1>5, <1>7, <1>8, <1>9, <1>10, <1>11, <1>12 DEF IInv

\* A user edits an object.
LEMMA EditStep ==
    ASSUME IInv, NEW c \in Checks, NEW spec \in Specs[c], Edit(c, spec)
    PROVE  IInv'
<1>0. /\ Exists(c) /\ uids' = uids /\ objects[c].generation < MaxGeneration
      /\ copy' \in [uid : Nat, current : BOOLEAN] /\ copy'.uid = copy.uid
      /\ UNCHANGED <<reconcilerVars, network, pc, tick, queue, item, base, built, waited, attempts, plan, origin>>
  BY Touched DEF IInv, Edit, OthersUnchanged
<1>1. /\ objects' = [d \in Checks |-> objects'[d]]
      /\ shortest' = [d \in Checks |-> shortest'[d]]
      /\ \A d \in Checks : d # c => objects'[d] = objects[d] /\ shortest'[d] = shortest[d]
      /\ shortest'[c] = IF spec.interval < shortest[c] THEN spec.interval ELSE shortest[c]
      /\ objects'[c] = [[objects[c] EXCEPT !.spec = spec] EXCEPT !.generation = objects[c].generation + 1]
  BY DEF IInv, ObjectsTyped, Edit
<1>2. /\ DOMAIN objects[c] = {"uid", "generation", "spec", "status", "age"}
      /\ objects[c].generation \in 1..MaxGeneration
      /\ shortest[c] \in Int /\ spec.interval \in Int
  BY <1>0, ManagerAssumption DEF IInv, ObjectsTyped
<1>3. /\ DOMAIN objects'[c] = {"uid", "generation", "spec", "status", "age"}
      /\ objects'[c].uid = objects[c].uid /\ objects'[c].generation = objects[c].generation + 1
      /\ objects'[c].spec = spec /\ objects'[c].status = objects[c].status /\ objects'[c].age = objects[c].age
  BY <1>1, <1>2
<1>4. objects'[c] # NoObject
  BY <1>3 DEF NoObject
<1>5. /\ \A d \in Checks : Exists(d)' <=> Exists(d)
      /\ \A d \in Checks : Exists(d) =>
            /\ DOMAIN objects'[d] = {"uid", "generation", "spec", "status", "age"}
            /\ objects'[d].uid = objects[d].uid /\ objects'[d].status = objects[d].status
            /\ objects'[d].age = objects[d].age /\ objects'[d].spec \in Specs[d]
            /\ shortest'[d] \in Int /\ shortest'[d] <= objects'[d].spec.interval
            /\ shortest[d] \in Int /\ shortest'[d] <= shortest[d]
            /\ objects'[d].generation \in 1..MaxGeneration
            /\ objects[d].generation <= objects'[d].generation
            /\ objects[d].generation \in 1..MaxGeneration
  <2>1. /\ objects[c].generation + 1 \in 1..MaxGeneration
        /\ objects[c].generation <= objects[c].generation + 1
        /\ shortest'[c] \in Int /\ shortest'[c] <= spec.interval /\ shortest'[c] <= shortest[c]
    BY <1>0, <1>1, <1>2, ManagerAssumption
  <2>2. \A d \in Checks : Exists(d) =>
            /\ DOMAIN objects[d] = {"uid", "generation", "spec", "status", "age"}
            /\ objects[d].generation \in 1..MaxGeneration /\ objects[d].spec \in Specs[d]
            /\ objects[d].generation <= objects[d].generation
            /\ shortest[d] \in Int /\ shortest[d] <= objects[d].spec.interval /\ shortest[d] <= shortest[d]
    BY ManagerAssumption DEF IInv, ObjectsTyped
  <2> QED
    BY <1>0, <1>1, <1>2, <1>3, <1>4, <2>1, <2>2 DEF Exists
<1>6. ObjectsTyped'
  BY <1>0, <1>1, <1>5 DEF IInv, ObjectsTyped, Exists, Stored
<1>7. ObservedGenerationIsBetween'
  BY <1>0, <1>5 DEF IInv, ObjectsTyped, ObservedGenerationIsBetween, Exists, Stored
<1>8. \A q : /\ Snapshot(q) => Snapshot(q)'
             /\ q \in Items /\ Behind(q) => Behind(q)'
  <2> SUFFICES ASSUME NEW q, q \in Items
               PROVE  (Snapshot(q) => Snapshot(q)') /\ (Behind(q) => Behind(q)')
    BY DEF Snapshot
  <2>1. /\ q.check \in Checks /\ q.uid \in Nat /\ q.generation \in Nat
        /\ q.spec.interval \in Int
    BY ManagerAssumption DEF Items, AllSpecs
  <2>2. Snapshot(q) => Snapshot(q)'
    BY <1>0, <1>5, <2>1, ManagerAssumption DEF Snapshot
  <2>3. Behind(q) => Behind(q)'
    BY <1>0, <1>5, <2>1 DEF Behind
  <2> QED
    BY <2>2, <2>3
<1>9. QueueInv'
  BY <1>0, <1>8 DEF IInv, QueueInv, Snapshot
<1>10. ItemInv'
  BY <1>0, <1>8 DEF IInv, ItemInv, Snapshot
<1>11. BaseInv'
  BY <1>0, <1>5, ManagerAssumption DEF IInv, ItemInv, BaseInv, Snapshot, Items
<1>12. BuiltInv' /\ CopyInv' /\ ControlInv' /\ TrackerInv'
  BY <1>0 DEF IInv, BuiltInv, CopyInv, ControlInv, TrackerInv, reconcilerVars
<1>13. PlanInv'
  BY <1>0, <1>5 DEF IInv, PlanInv, ItemInv, Snapshot, Items, Shows, Exists
<1>14. WaitedInv'
  BY <1>0, <1>5 DEF IInv, WaitedInv, ItemInv, Snapshot, Items
<1> QED
  BY <1>6, <1>7, <1>9, <1>10, <1>11, <1>12, <1>13, <1>14 DEF IInv

\* A user deletes an object.
LEMMA DeleteStep ==
    ASSUME IInv, NEW c \in Checks, Delete(c)
    PROVE  IInv'
<1>0. /\ uids' = uids
      /\ objects' = [d \in Checks |-> IF d = c THEN NoObject ELSE objects[d]]
      /\ shortest' = [d \in Checks |-> IF d = c THEN 0 ELSE shortest[d]]
      /\ copy' \in [uid : Nat, current : BOOLEAN] /\ copy'.uid = copy.uid
      /\ UNCHANGED <<reconcilerVars, network, pc, tick, queue, item, base, built, waited, attempts, plan, origin>>
  BY Touched DEF IInv, ObjectsTyped, Delete, OthersUnchanged
<1>1. \A d \in Checks : Exists(d)' =>
          objects'[d] = objects[d] /\ shortest'[d] = shortest[d] /\ Exists(d)
  BY <1>0 DEF Exists
<1>2. ObjectsTyped'
  BY <1>0, <1>1 DEF IInv, ObjectsTyped, Stored
<1>3. ObservedGenerationIsBetween'
  BY <1>0, <1>1 DEF IInv, ObservedGenerationIsBetween
<1>4. QueueInv'
  BY <1>0, <1>1 DEF IInv, QueueInv, Snapshot, Behind, Items
<1>5. ItemInv' /\ BaseInv'
  BY <1>0, <1>1 DEF IInv, ItemInv, BaseInv, Snapshot, Behind, Items
<1>6. BuiltInv' /\ CopyInv' /\ ControlInv' /\ TrackerInv'
  BY <1>0 DEF IInv, BuiltInv, CopyInv, ControlInv, TrackerInv, reconcilerVars
<1>7. PlanInv'
  BY <1>0, <1>1 DEF IInv, PlanInv, ItemInv, Snapshot, Items, Shows
<1>8. WaitedInv'
  BY <1>0, <1>1 DEF IInv, WaitedInv, ItemInv, Snapshot, Items
<1> QED
  BY <1>2, <1>3, <1>4, <1>5, <1>6, <1>7, <1>8 DEF IInv

\* Ages keep their range and their order.
LEMMA Ageing ==
    ASSUME NEW a \in 0..MaxAge, NEW b \in 0..MaxAge
    PROVE  /\ Older(a) \in 0..MaxAge /\ a <= Older(a)
           /\ a <= b => Older(a) <= Older(b)
           /\ b = MaxAge => Older(b) = MaxAge
BY ManagerAssumption DEF Older

LEMMA SameLength ==
    ASSUME NEW S, NEW q \in Seq(S), NEW r, r = [i \in DOMAIN q |-> r[i]],
           \A i \in DOMAIN q : r[i] \in S
    PROVE  r \in Seq(S) /\ Len(r) = Len(q) /\ DOMAIN r = DOMAIN q
OBVIOUS

\* Time passes: the copies age with the object.
LEMMA TimePassesStep == ASSUME IInv, TimePasses PROVE IInv'
<1>0. /\ UNCHANGED <<reconcilerVars, uids, origin, shortest, network, pc, tick, item, base, built,
                     copy, attempts, plan>>
      /\ objects' = [c \in Checks |-> IF Exists(c) THEN [objects[c] EXCEPT !.age = Older(objects[c].age)]
                                      ELSE NoObject]
      /\ queue' = [i \in DOMAIN queue |-> [queue[i] EXCEPT !.age = Older(queue[i].age)]]
      /\ waited' = IF pc \in {"fetch", "write"} THEN Older(waited) ELSE waited
  BY DEF TimePasses
<1>1. ASSUME NEW c \in Checks, Exists(c)
      PROVE  /\ DOMAIN objects'[c] = {"uid", "generation", "spec", "status", "age"}
             /\ objects'[c].uid = objects[c].uid /\ objects'[c].status = objects[c].status
             /\ objects'[c].spec = objects[c].spec /\ objects'[c].generation = objects[c].generation
             /\ objects[c].age \in 0..MaxAge /\ objects'[c].age = Older(objects[c].age)
             /\ objects'[c].age \in 0..MaxAge
  <2>1. DOMAIN objects[c] = {"uid", "generation", "spec", "status", "age"} /\ objects[c].age \in 0..MaxAge
    BY <1>1 DEF IInv, ObjectsTyped
  <2>2. objects'[c] = [objects[c] EXCEPT !.age = Older(objects[c].age)]
    BY <1>0, <1>1
  <2> QED
    BY <2>1, <2>2, Ageing
<1>2. \A c \in Checks : Exists(c)' <=> Exists(c)
  <2> SUFFICES ASSUME NEW c \in Checks PROVE Exists(c)' <=> Exists(c)
    OBVIOUS
  <2>1. CASE Exists(c)
    BY <1>1, <2>1 DEF Exists, NoObject
  <2>2. CASE ~Exists(c)
    BY <1>0, <2>2 DEF Exists
  <2> QED
    BY <2>1, <2>2
<1>3. ObjectsTyped'
  <2>1. objects' = [c \in Checks |-> objects'[c]]
    BY <1>0
  <2>2. ASSUME NEW c \in Checks, Exists(c)'
        PROVE  /\ DOMAIN objects'[c] = {"uid", "generation", "spec", "status", "age"}
               /\ objects'[c].uid \in 1..uids'
               /\ objects'[c].generation \in 1..MaxGeneration
               /\ objects'[c].spec \in Specs[c]
               /\ objects'[c].age \in 0..MaxAge
               /\ objects'[c].status = objects[c].status /\ Stored(objects[c].status)
               /\ shortest'[c] \in Int /\ shortest'[c] <= objects'[c].spec.interval
    <3>1. Exists(c) /\ shortest' = shortest /\ uids' = uids
      BY <1>0, <1>2, <2>2
    <3>2. /\ objects[c].uid \in 1..uids /\ objects[c].generation \in 1..MaxGeneration
          /\ objects[c].spec \in Specs[c] /\ Stored(objects[c].status)
          /\ shortest[c] \in Int /\ shortest[c] <= objects[c].spec.interval
      BY <3>1 DEF IInv, ObjectsTyped
    <3> QED
      BY <1>1, <3>1, <3>2
  <2>3. (\A c \in Checks : Exists(c) => Stored(objects[c].status))'
    BY <2>2 DEF Stored, Exists
  <2>4. uids' \in Nat /\ origin' = [c \in Checks |-> origin'[c]] /\ shortest' = [c \in Checks |-> shortest'[c]]
    BY <1>0 DEF IInv, ObjectsTyped
  <2> QED
    BY <2>1, <2>2, <2>3, <2>4 DEF ObjectsTyped
<1>4. ObservedGenerationIsBetween'
  BY <1>0, <1>1, <1>2 DEF IInv, ObservedGenerationIsBetween
<1>5. \A q : Snapshot(q) => Snapshot(q)'
  BY <1>0, <1>1, <1>2 DEF Snapshot, Items
<1>6. \A q : q \in Items /\ Behind(q) => Behind(q)'
  <2> SUFFICES ASSUME NEW q \in Items, Behind(q), Exists(q.check)' PROVE Behind(q)'
    BY DEF Behind
  <2>1. q.check \in Checks /\ q.age \in 0..MaxAge
    BY DEF Items
  <2>2. Exists(q.check) /\ objects[q.check].age \in 0..MaxAge
        /\ objects'[q.check].age = Older(objects[q.check].age)
    BY <1>1, <1>2, <2>1
  <2>3. objects[q.check].age <= objects'[q.check].age /\ objects'[q.check].age \in 0..MaxAge
    BY <2>2, Ageing
  <2>4. q.age <= objects'[q.check].age
    BY <2>1, <2>2, <2>3 DEF Behind
  <2>5. objects[q.check].age = MaxAge => objects'[q.check].age = MaxAge
    BY <2>2, Ageing
  <2> QED
    BY <1>0, <2>2, <2>4, <2>5 DEF Behind
<1>7. QueueInv'
  <2>1. queue \in Seq(Items) /\ DOMAIN queue = 1..Len(queue)
    BY DEF IInv, QueueInv
  <2>2. \A i \in DOMAIN queue :
           /\ queue[i] \in Items /\ queue'[i] \in Items
           /\ queue'[i].check = queue[i].check /\ queue'[i].uid = queue[i].uid
           /\ queue'[i].generation = queue[i].generation /\ queue'[i].spec = queue[i].spec
           /\ queue[i].age \in 0..MaxAge /\ queue'[i].age = Older(queue[i].age)
    <3> SUFFICES ASSUME NEW i \in DOMAIN queue
                 PROVE  /\ queue[i] \in Items /\ queue'[i] \in Items
                        /\ queue'[i].check = queue[i].check /\ queue'[i].uid = queue[i].uid
                        /\ queue'[i].generation = queue[i].generation /\ queue'[i].spec = queue[i].spec
                        /\ queue[i].age \in 0..MaxAge /\ queue'[i].age = Older(queue[i].age)
      OBVIOUS
    <3>1. queue[i] \in Items
      BY <2>1
    <3>2. queue'[i] = [queue[i] EXCEPT !.age = Older(queue[i].age)]
      BY <1>0
    <3>3. queue[i].age \in 0..MaxAge /\ Older(queue[i].age) \in 0..MaxAge
      BY <3>1, Ageing DEF Items
    <3> QED
      BY <3>1, <3>2, <3>3 DEF Items
  <2>3. queue' \in Seq(Items) /\ Len(queue') = Len(queue) /\ DOMAIN queue' = DOMAIN queue
    <3>1. queue' = [i \in DOMAIN queue |-> queue'[i]]
      BY <1>0
    <3> QED
      BY <2>1, <2>2, <3>1, SameLength
  <2>4. ASSUME NEW i \in DOMAIN queue'
        PROVE  (Snapshot(queue[i]) /\ Behind(queue[i]))'
    <3>0. /\ i \in DOMAIN queue /\ queue[i].check \in Checks
          /\ Snapshot(queue[i]) /\ Behind(queue[i])
      BY <2>2, <2>3, <2>4 DEF IInv, QueueInv, Items
    <3>1. Snapshot(queue[i])'
      BY <1>0, <1>1, <1>2, <2>2, <3>0 DEF Snapshot
    <3>2. Behind(queue[i])'
      <4> SUFFICES ASSUME Exists(queue[i].check)' PROVE Behind(queue[i])'
        BY DEF Behind
      <4>1. /\ Exists(queue[i].check) /\ objects[queue[i].check].age \in 0..MaxAge
            /\ objects'[queue[i].check].age = Older(objects[queue[i].check].age)
            /\ queue'[i].check = queue[i].check
        BY <1>1, <1>2, <2>2, <3>0
      <4>2. queue[i].age <= objects[queue[i].check].age /\ queue[i].age \in 0..MaxAge
        BY <2>2, <3>0, <4>1 DEF Behind
      <4>3. queue'[i].age <= objects'[queue[i].check].age
        BY <2>2, <3>0, <4>1, <4>2, Ageing
      <4>4. objects[queue[i].check].age = MaxAge => objects'[queue[i].check].age = MaxAge
        BY <4>1, Ageing
      <4> QED
        <5>1. /\ shortest[queue[i].check] <= queue[i].spec.interval
                 \/ objects[queue[i].check].age = MaxAge
              /\ queue'[i].spec = queue[i].spec
          BY <2>2, <3>0, <4>1 DEF Behind
        <5> QED
          BY <1>0, <4>1, <4>3, <4>4, <5>1 DEF Behind
    <3> QED
      BY <3>1, <3>2
  <2>5. \A i, j \in DOMAIN queue' : queue'[i].check = queue'[j].check => i = j
    BY <2>2, <2>3 DEF IInv, QueueInv
  <2>6. pc' \notin {"idle", "next"} => \A i \in DOMAIN queue' : queue'[i].check # item'.check
    BY <1>0, <2>2, <2>3 DEF IInv, QueueInv
  <2>7. Len(queue') <= Cardinality(Checks)
    BY <2>3 DEF IInv, QueueInv
  <2> QED
    BY <2>3, <2>4, <2>5, <2>6, <2>7 DEF QueueInv
<1>8. ItemInv'
  BY <1>0, <1>5, <1>6 DEF IInv, ItemInv, Snapshot
<1>9. BaseInv'
  BY <1>0, <1>1, <1>2 DEF IInv, ItemInv, BaseInv, Snapshot, Items
<1>10. BuiltInv' /\ CopyInv' /\ ControlInv' /\ TrackerInv'
  BY <1>0 DEF IInv, BuiltInv, CopyInv, ControlInv, TrackerInv, reconcilerVars
<1>11. WaitedInv'
  <2>1. waited \in 0..MaxAge /\ waited' \in 0..MaxAge
    BY <1>0, Ageing DEF IInv, WaitedInv
  <2>2. ASSUME pc \in {"fetch", "write"}, Exists(item.check)' PROVE waited' <= objects'[item.check].age
    <3>1. item.check \in Checks
      BY <2>2 DEF IInv, ItemInv, Snapshot, Items
    <3>2. /\ objects[item.check].age \in 0..MaxAge /\ objects'[item.check].age = Older(objects[item.check].age)
          /\ waited <= objects[item.check].age /\ waited' = Older(waited)
      BY <1>0, <1>1, <1>2, <2>2, <3>1 DEF IInv, WaitedInv
    <3> QED
      BY <2>1, <3>2, Ageing
  <2> QED
    BY <1>0, <2>1, <2>2 DEF WaitedInv
<1>12. PlanInv'
  BY <1>0, <1>1, <1>2 DEF IInv, PlanInv, ItemInv, Snapshot, Items, Shows
<1> QED
  BY <1>3, <1>4, <1>7, <1>8, <1>9, <1>10, <1>11, <1>12 DEF IInv

\* ListChecks takes a snapshot of all objects, in any order.
LEMMA ListChecksStep == ASSUME IInv, ListChecks PROVE IInv'
<1> DEFINE existing == {c \in Checks : Exists(c)}
<1>0. /\ UNCHANGED <<apiVars, reconcilerVars, network, item, base, built, waited, copy, attempts, plan>>
      /\ pc = "idle" /\ pc' = "next" /\ tick' = FALSE
  BY DEF ListChecks
<1>1. PICK names \in SetToSeqs(existing) : queue' = [i \in DOMAIN names |-> Listed(names[i])]
  BY DEF ListChecks
<1>2. IsFiniteSet(existing) /\ Cardinality(existing) \in Nat /\ Cardinality(existing) <= Cardinality(Checks)
  BY ManagerAssumption, FS_Subset, FS_CardinalityType
<1>3. /\ names \in [1..Cardinality(existing) -> existing]
      /\ \A i, j \in DOMAIN names : names[i] = names[j] => i = j
  BY <1>1 DEF SetToSeqs
<1> HIDE DEF existing
<1>4. \A c \in existing : /\ Listed(c) \in Items /\ Listed(c).check = c
                          /\ Snapshot(Listed(c)) /\ Behind(Listed(c))
  <2> SUFFICES ASSUME NEW c \in existing
               PROVE  /\ Listed(c) \in Items /\ Listed(c).check = c
                      /\ Snapshot(Listed(c)) /\ Behind(Listed(c))
    OBVIOUS
  <2>1. /\ c \in Checks /\ Exists(c) /\ uids \in Nat
        /\ objects[c].uid \in 1..uids /\ objects[c].generation \in 1..MaxGeneration
        /\ objects[c].spec \in Specs[c] /\ objects[c].age \in 0..MaxAge
        /\ shortest[c] <= objects[c].spec.interval
    BY DEF IInv, ObjectsTyped, existing
  <2>2. /\ objects[c].uid \in Nat /\ objects[c].uid <= uids /\ objects[c].uid <= objects[c].uid
        /\ objects[c].generation \in Nat /\ objects[c].generation <= objects[c].generation
        /\ objects[c].age <= objects[c].age
    BY <2>1, ManagerAssumption
  <2>3. objects[c].spec \in AllSpecs
    BY <2>1 DEF AllSpecs
  <2> QED
    BY <2>1, <2>2, <2>3 DEF Listed, Items, Snapshot, Behind
<1>5. \A i \in DOMAIN names : queue'[i] = Listed(names[i]) /\ names[i] \in existing
  BY <1>1, <1>3
<1>6. queue' \in Seq(Items) /\ Len(queue') = Cardinality(existing) /\ DOMAIN queue' = DOMAIN names
  BY <1>1, <1>2, <1>3, <1>4
<1>7. ObjectsTyped' /\ ObservedGenerationIsBetween'
  BY <1>0, ApiUnchanged
<1>8. QueueInv'
  <2>1. \A i, j \in DOMAIN queue' : queue'[i].check = queue'[j].check => i = j
    BY <1>3, <1>4, <1>5, <1>6
  <2>2. (\A i \in DOMAIN queue : Snapshot(queue[i]) /\ Behind(queue[i]))'
    BY <1>0, <1>4, <1>5, <1>6 DEF Snapshot, Behind, Exists, apiVars
  <2> QED
    BY <1>0, <1>2, <1>6, <2>1, <2>2 DEF QueueInv
<1>9. ItemInv' /\ BaseInv' /\ BuiltInv' /\ CopyInv' /\ PlanInv' /\ ControlInv' /\ TrackerInv'
  BY <1>0 DEF IInv, ItemInv, BaseInv, BuiltInv, CopyInv, PlanInv, ControlInv, TrackerInv, NoPlan,
              apiVars, reconcilerVars
<1>10. WaitedInv'
  BY <1>0, WaitedKept DEF apiVars
<1> QED
  BY <1>7, <1>8, <1>9, <1>10 DEF IInv

\* The invariant holds at the start.
LEMMA InitHolds == Init => IInv
<1> SUFFICES ASSUME Init PROVE IInv
  OBVIOUS
<1>1. \A c \in Checks : ~Exists(c)
  BY DEF Init, Exists
<1>2. ObjectsTyped
  BY <1>1 DEF Init, ObjectsTyped
<1>3. WaitedInv
  BY ManagerAssumption DEF Init, WaitedInv
<1>4. ObservedGenerationIsBetween
  BY <1>1 DEF ObservedGenerationIsBetween
<1>5. QueueInv
  BY FS_CardinalityType, ManagerAssumption DEF Init, QueueInv
<1>6. ItemInv /\ BaseInv /\ BuiltInv /\ CopyInv /\ PlanInv /\ ControlInv
  BY ManagerAssumption DEF Init, ItemInv, BaseInv, BuiltInv, CopyInv, PlanInv, ControlInv, NoCopy, NoPlan
<1>7. TrackerInv
  BY DEF Init, ReconcilerInit, TrackerInv, NoTracker
<1> QED
  BY <1>2, <1>3, <1>4, <1>5, <1>6, <1>7 DEF IInv

-----------------------------------------------------------------------------
\* Every copy the controller holds says of the API server's object what IInv
\* says of it, in every reachable state.
THEOREM InductiveInvariant == Spec => []IInv
<1>1. IInv /\ [Next]_vars => IInv'
  <2> SUFFICES ASSUME IInv, [Next]_vars PROVE IInv'
    OBVIOUS
  <2>1. CASE Controller
    BY <2>1, ListChecksStep, SkipItemStep, StartItemStep, EndRoundStep, GetBaseStep, DropSteps, ProbeStep,
       FetchStep, StoreStatusSteps, PlanStep, FailureSteps DEF Controller
  <2>2. CASE Environment
    BY <2>2, CreateStep, EditStep, DeleteStep, OutsideSteps, RestartStep DEF Environment
  <2>3. CASE TickerFires
    BY <2>3, OutsideSteps
  <2>4. CASE TimePasses
    BY <2>4, TimePassesStep
  <2>5. CASE UNCHANGED vars
    <3>1. network' \in Matrices /\ tick' \in BOOLEAN
      BY <2>5 DEF IInv, ControlInv, vars
    <3> QED
      BY <2>5, <3>1, ControlMoves DEF vars, apiVars, reconcilerVars
  <2> QED
    BY <2>1, <2>2, <2>3, <2>4, <2>5 DEF Next
<1> QED
  BY <1>1, InitHolds, PTL DEF Spec

\* The state is well typed: what the API server holds, what the controller
\* holds, and the tracker.
THEOREM ManagerTypeCorrect == Spec => []TypeOK
<1>1. IInv => TypeOK
  <2> SUFFICES ASSUME IInv PROVE TypeOK
    OBVIOUS
  <2>1. \A c \in Checks : Exists(c) =>
          /\ objects[c].uid \in 1..uids
          /\ objects[c].generation \in 1..MaxGeneration
          /\ objects[c].spec \in Specs[c]
          /\ objects[c].age \in 0..MaxAge
    BY DEF IInv, ObjectsTyped
  <2>2. \A c \in Checks : Exists(c) => objects[c].status.verdict.class \in Classes \cup {"none"}
    BY DEF IInv, ObjectsTyped, Stored, NoStatus, NoVerdict
  <2>3. pc \notin {"idle", "next"} => item.check \in Checks /\ item.spec.valid
    BY DEF IInv, ItemInv, Snapshot, Items
  <2>4. pc \in {"write", "plan"} => copy.uid \in 1..uids
    BY DEF IInv, CopyInv, ObjectsTyped
  <2>5. waited \in 0..MaxAge
    BY DEF IInv, WaitedInv
  <2> QED
    BY <2>1, <2>2, <2>3, <2>4, <2>5 DEF TypeOK, IInv, QueueInv, ControlInv, TrackerInv
<1> QED
  BY <1>1, InductiveInvariant, PTL

\* The generation a status claims lies between the one whose spec its round
\* used and the object's own.
THEOREM GenerationIsBetween == Spec => []ObservedGenerationIsBetween
BY InductiveInvariant, PTL DEF IInv

\* A plan is made of a published verdict only, and alerts only if that names a
\* fault.
THEOREM PlansFollow == Spec => []PlanFollowsPublished
<1>1. IInv => PlanFollowsPublished
  BY DEF IInv, PlanInv, Shows, PlanFollowsPublished
<1> QED
  BY <1>1, InductiveInvariant, PTL

\* However old the listing, no object is probed before the interval that the
\* round goes by is over.
THEOREM IntervalRespected == Spec => ProbesRespectInterval
<1>1. IInv /\ Probe => ~Exists(item.check) \/ shouldRun(objects[item.check].age, item.spec.interval)
  <2> SUFFICES ASSUME IInv, pc = "probe", Exists(item.check)
               PROVE  shouldRun(objects[item.check].age, item.spec.interval)
    BY DEF Probe
  <2>1. /\ item \in Items /\ shouldRun(item.age, item.spec.interval)
        /\ item.age <= objects[item.check].age
    BY DEF IInv, ItemInv, Snapshot, Behind
  <2>2. item.check \in Checks /\ item.spec.interval \in Int /\ item.age \in 0..MaxAge
    BY <2>1, ManagerAssumption DEF Items, AllSpecs
  <2>3. objects[item.check].age \in 0..MaxAge
    BY <2>2 DEF IInv, ObjectsTyped
  <2> QED
    BY <2>1, <2>2, <2>3, ManagerAssumption DEF shouldRun
<1> QED
  BY <1>1, InductiveInvariant, PTL DEF ProbesRespectInterval

\* Steps that write no status leave every object its status, or make it new.
LEMMA StatusKept ==
    ASSUME IInv, [Next]_vars, ~(WriteStatus \/ ResponseLost), NEW c \in Checks, SameObject(c)
    PROVE  objects'[c].status = objects[c].status
<1>0. objects = [d \in Checks |-> objects[d]]
  BY DEF IInv, ObjectsTyped
<1>1. CASE UNCHANGED objects
  BY <1>1
<1>2. CASE \E d \in Checks : \E spec \in Specs[d] : Create(d, spec)
  BY <1>0, <1>2 DEF SameObject, Create, Exists
<1>3. CASE \E d \in Checks : \E spec \in Specs[d] : Edit(d, spec)
  <2>1. PICK d \in Checks : \E spec \in Specs[d] : Edit(d, spec)
    BY <1>3
  <2>0. PICK spec \in Specs[d] : Edit(d, spec)
    BY <2>1
  <2>2. CASE c = d
    <3>1. DOMAIN objects[c] = {"uid", "generation", "spec", "status", "age"}
      BY DEF SameObject, IInv, ObjectsTyped
    <3>2. objects'[c] = [[objects[c] EXCEPT !.spec = spec] EXCEPT !.generation = objects[c].generation + 1]
      BY <1>0, <2>0, <2>2 DEF Edit
    <3> QED
      BY <3>1, <3>2
  <2>3. CASE c # d
    BY <1>0, <2>0, <2>3 DEF Edit
  <2> QED
    BY <2>2, <2>3
<1>4. CASE \E d \in Checks : Delete(d)
  BY <1>0, <1>4 DEF SameObject, Delete, Exists
<1>5. CASE TimePasses
  <2>1. DOMAIN objects[c] = {"uid", "generation", "spec", "status", "age"}
    BY DEF SameObject, IInv, ObjectsTyped
  <2>2. objects'[c] = [objects[c] EXCEPT !.age = Older(objects[c].age)]
    BY <1>5 DEF TimePasses, SameObject
  <2> QED
    BY <2>1, <2>2
<1> QED
  BY <1>1, <1>2, <1>3, <1>4, <1>5
     DEF Next, Controller, Environment, vars, apiVars, ListChecks, SkipItem, StartItem, EndRound, GetBase,
         BaseNotFound, Probe, Fetch, FetchNotFound, Conflict, WriteNotFound, Plan, ListFails, RequestFails,
         Restart, NetworkChanges, TickerFires

\* The transition time of the Healthy condition stays exactly if the class
\* stays.
THEOREM TransitionsMarked == Spec => TransitionTimeMarksChange
<1>1. ASSUME IInv, [Next]_vars, NEW c \in Checks, SameObject(c), objects[c].status # NoStatus
      PROVE  objects'[c].status.condition.since = objects[c].status.condition.since
                <=> objects'[c].status.verdict.class = objects[c].status.verdict.class
  <2>1. CASE ~(WriteStatus \/ ResponseLost)
    BY <1>1, <2>1, StatusKept
  <2>2. CASE WriteStatus \/ ResponseLost
    <3>1. Accepted /\ StoreStatus
      BY <2>2 DEF WriteStatus, ResponseLost
    <3>2. CASE c # item.check
      BY <1>1, <3>1, <3>2, Storing
    <3>3. CASE c = item.check
      <4>1. /\ objects'[c].status = built /\ pc = "write" /\ Exists(item.check)
        BY <1>1, <3>1, <3>3, Storing
      <4>2. /\ base.condition = objects[c].status.condition
            /\ base.condition.since \in Int
            /\ built.condition.since = TransitionTime(base.condition, built.verdict.class)
        BY <1>1, <3>3, <4>1 DEF IInv, BaseInv, BuiltInv
      <4>3. objects[c].status.condition.reason = objects[c].status.verdict.class
        BY <1>1, <3>3, <4>1 DEF IInv, ObjectsTyped, Stored
      <4> QED
        BY <4>1, <4>2, <4>3 DEF TransitionTime
    <3> QED
      BY <3>2, <3>3
  <2> QED
    BY <2>1, <2>2
<1>2. IInv /\ [Next]_vars =>
        [\A c \in Checks : SameObject(c) /\ objects[c].status # NoStatus =>
          LET old == objects[c].status
              new == objects'[c].status
          IN  new.condition.since = old.condition.since <=> new.verdict.class = old.verdict.class]_vars
  BY <1>1
<1> QED
  BY <1>2, InductiveInvariant, PTL DEF Spec, TransitionTimeMarksChange

-----------------------------------------------------------------------------
(* What a status says. *)

\* A verdict fit to be published: its suspects are nodes of a mesh that was
\* probed, its confidence is a share and never 0/0, and a fault, hard or
\* degraded, has the confidence the classifier asks for.
Proper(verdict) ==
    /\ \E m \in Matrices : verdict \in Verdict(NodesOf(m))
    /\ verdict.confidence.num <= verdict.confidence.den
    /\ verdict.class \in HardFailureClasses \cup {"Degraded"} => AtLeastPercent(verdict.confidence, Floor)

\* Every status in the API server.
PublishedIsProper ==
    \A c \in Checks : Exists(c) /\ objects[c].status # NoStatus => Proper(objects[c].status.verdict)

\* With the status that is still to be written.
BuiltIsProper == pc \in {"fetch", "write", "plan"} => Proper(built.verdict)

\* What an evaluation records is fit to be published: the filter changes
\* results and no pairs, so the nodes are those of the round.
LEMMA EvaluatesProperly ==
    ASSUME IInv, Probe
    PROVE  Proper(built'.verdict)
<1>1. /\ network \in Matrices /\ Reconcile(item.spec.cfg, network)
      /\ built'.verdict = lastVerdict'
  BY DEF IInv, ControlInv, Probe, BuildStatus
<1>2. IsFiniteSet(DOMAIN network)
  BY <1>1, ManagerAssumption
<1>3. DOMAIN lastMatrix' = DOMAIN network /\ lastVerdict' \in Verdicts(lastMatrix')
  BY <1>1, <1>2, Evaluation DEF IInv
<1>4. lastVerdict' \in Verdict(NodesOf(lastMatrix')) /\ lastVerdict'.confidence.num <= lastVerdict'.confidence.den
  BY <1>2, <1>3, VerdictTyped
<1>5. NodesOf(lastMatrix') = NodesOf(network)
  BY <1>3 DEF NodesOf
<1>6. lastVerdict'.class \in HardFailureClasses \cup {"Degraded"} => AtLeastPercent(lastVerdict'.confidence, Floor)
  BY <1>3, FaultsAreConfident
<1> QED
  BY <1>1, <1>4, <1>5, <1>6 DEF Proper

\* Only Probe builds a status; between it and the plan nothing else does.
LEMMA BuiltKept ==
    ASSUME [Next]_vars, ~Probe, pc' \in {"fetch", "write", "plan"}
    PROVE  pc \in {"fetch", "write", "plan"} /\ built' = built
<1>1. CASE Environment
  BY <1>1 DEF Environment, Create, Edit, Delete, OthersUnchanged, NetworkChanges, controllerVars, Restart
<1>2. CASE TickerFires \/ UNCHANGED vars \/ TimePasses
  BY <1>2 DEF TickerFires, vars, TimePasses
<1>3. CASE ListChecks \/ SkipItem \/ StartItem \/ EndRound \/ GetBase \/ BaseNotFound \/ ListFails
  BY <1>3 DEF ListChecks, SkipItem, StartItem, EndRound, GetBase, BaseNotFound, DropItem, ListFails
<1>4. CASE Fetch \/ FetchNotFound \/ WriteStatus \/ Conflict \/ WriteNotFound \/ Plan
  BY <1>4 DEF Fetch, FetchNotFound, WriteStatus, Accepted, Conflict, WriteNotFound, Plan, DropItem
<1>5. CASE RequestFails \/ ResponseLost
  BY <1>5 DEF RequestFails, AfterFailure, ResponseLost, AfterLostResponse
<1> QED
  BY <1>1, <1>2, <1>3, <1>4, <1>5 DEF Next, Controller

\* An object that a step brings into being has no status.
LEMMA NewWithoutStatus ==
    ASSUME IInv, [Next]_vars, NEW c \in Checks, Exists(c)', ~SameObject(c)
    PROVE  objects'[c].status = NoStatus
<1>0. objects = [d \in Checks |-> objects[d]]
  BY DEF IInv, ObjectsTyped
<1>1. CASE UNCHANGED objects
  BY <1>1 DEF SameObject, Exists
<1>2. CASE \E d \in Checks : \E spec \in Specs[d] : Create(d, spec)
  <2>0. PICK d \in Checks : \E spec \in Specs[d] : Create(d, spec)
    BY <1>2
  <2>1. PICK spec \in Specs[d] : Create(d, spec)
    BY <2>0
  <2>2. CASE c = d
    BY <1>0, <2>1, <2>2 DEF Create, NewObject
  <2>3. CASE c # d
    BY <1>0, <2>1, <2>3 DEF Create, SameObject, Exists
  <2> QED
    BY <2>2, <2>3
<1>3. CASE \E d \in Checks : \E spec \in Specs[d] : Edit(d, spec)
  <2>0. PICK d \in Checks : \E spec \in Specs[d] : Edit(d, spec)
    BY <1>3
  <2>1. PICK spec \in Specs[d] : Edit(d, spec)
    BY <2>0
  <2>2. CASE c = d
    <3>1. DOMAIN objects[c] = {"uid", "generation", "spec", "status", "age"} /\ Exists(c)
      BY <2>1, <2>2 DEF IInv, ObjectsTyped, Edit
    <3>2. objects'[c] = [[objects[c] EXCEPT !.spec = spec] EXCEPT !.generation = objects[c].generation + 1]
      BY <1>0, <2>1, <2>2 DEF Edit
    <3> QED
      BY <3>1, <3>2 DEF SameObject
  <2>3. CASE c # d
    BY <1>0, <2>1, <2>3 DEF Edit, SameObject, Exists
  <2> QED
    BY <2>2, <2>3
<1>4. CASE \E d \in Checks : Delete(d)
  <2>1. PICK d \in Checks : Delete(d)
    BY <1>4
  <2> QED
    BY <1>0, <2>1 DEF Delete, SameObject, Exists
<1>5. CASE TimePasses
  <2>1. CASE Exists(c)
    <3>1. DOMAIN objects[c] = {"uid", "generation", "spec", "status", "age"}
      BY <2>1 DEF IInv, ObjectsTyped
    <3>2. objects'[c] = [objects[c] EXCEPT !.age = Older(objects[c].age)]
      BY <1>5, <2>1 DEF TimePasses
    <3> QED
      BY <2>1, <3>1, <3>2 DEF SameObject
  <2>2. CASE ~Exists(c)
    BY <1>5, <2>2 DEF TimePasses, Exists
  <2> QED
    BY <2>1, <2>2
<1>6. CASE WriteStatus \/ ResponseLost
  <2>1. Accepted /\ StoreStatus
    BY <1>6 DEF WriteStatus, ResponseLost
  <2>2. Exists(c) /\ objects'[c].uid = objects[c].uid
    BY <2>1, Storing DEF Exists
  <2> QED
    BY <2>2 DEF SameObject
<1> QED
  BY <1>1, <1>2, <1>3, <1>4, <1>5, <1>6
     DEF Next, Controller, Environment, vars, apiVars, ListChecks, SkipItem, StartItem, EndRound, GetBase,
         BaseNotFound, Probe, Fetch, FetchNotFound, Conflict, WriteNotFound, Plan, ListFails, RequestFails,
         Restart, NetworkChanges, TickerFires

\* No status ever says what no round found: no verdict but one the classifier
\* gives to a mesh that was probed, whatever failed, was lost or was restarted
\* before it was written.
THEOREM PublishedVerdictsProper == Spec => []PublishedIsProper
<1>1. Init => PublishedIsProper /\ BuiltIsProper
  BY DEF Init, PublishedIsProper, BuiltIsProper, Exists, NewObject, NoObject
<1>2. IInv /\ PublishedIsProper /\ BuiltIsProper /\ [Next]_vars => (PublishedIsProper /\ BuiltIsProper)'
  <2> SUFFICES ASSUME IInv, PublishedIsProper, BuiltIsProper, [Next]_vars
               PROVE  PublishedIsProper' /\ BuiltIsProper'
    OBVIOUS
  <2>1. BuiltIsProper'
    <3>1. CASE Probe
      BY <3>1, EvaluatesProperly DEF BuiltIsProper
    <3>2. CASE ~Probe
      BY <3>2, BuiltKept DEF BuiltIsProper
    <3> QED
      BY <3>1, <3>2
  <2>2. ASSUME NEW c \in Checks, Exists(c)', objects'[c].status # NoStatus
        PROVE  Proper(objects'[c].status.verdict)
    <3>1. SameObject(c)
      BY <2>2, NewWithoutStatus
    <3>2. CASE ~(WriteStatus \/ ResponseLost)
      BY <2>2, <3>1, <3>2, StatusKept DEF PublishedIsProper, SameObject
    <3>3. CASE WriteStatus \/ ResponseLost
      <4>1. Accepted /\ StoreStatus
        BY <3>3 DEF WriteStatus, ResponseLost
      <4>2. CASE c = item.check
        BY <4>1, <4>2, Storing DEF BuiltIsProper
      <4>3. CASE c # item.check
        BY <2>2, <3>1, <4>1, <4>3, Storing DEF PublishedIsProper, SameObject
      <4> QED
        BY <4>2, <4>3
    <3> QED
      BY <3>2, <3>3
  <2>3. PublishedIsProper'
    BY <2>2 DEF PublishedIsProper, Exists
  <2> QED
    BY <2>1, <2>3
<1> QED
  BY <1>1, <1>2, InductiveInvariant, PTL DEF Spec

-----------------------------------------------------------------------------
(* The bound of a polling round. *)

\* The bound is a number: what the item in work takes and what the listing
\* behind it does.
LEMMA StepsTyped ==
    ASSUME IInv
    PROVE  /\ Len(queue) \in Nat /\ StepsPerItem \in Nat /\ Len(queue) * StepsPerItem \in Nat
           /\ pc # "idle" => StepsOfItem \in Nat \ {0}
           /\ StepsLeft \in Nat
<1>1. RetrySteps \in Nat /\ Len(queue) \in Nat
  BY ManagerAssumption DEF IInv, QueueInv
<1>2. StepsPerItem \in Nat
  BY <1>1 DEF StepsPerItem
<1>3. Len(queue) * StepsPerItem \in Nat
  BY <1>1, <1>2
<1>4. pc # "idle" => StepsOfItem \in Nat \ {0}
  <2>1. /\ pc \in {"idle", "next", "base", "probe", "fetch", "write", "plan"}
        /\ attempts \in Nat /\ attempts <= RetrySteps
    BY <1>1 DEF IInv, ControlInv
  <2> QED
    BY <1>1, <2>1 DEF StepsOfItem
<1> QED
  BY <1>1, <1>2, <1>3, <1>4 DEF StepsLeft

\* A step within the polling round that leaves the listing its length: it is
\* enough to look at the item in work.
LEMMA SameListing ==
    ASSUME IInv, IInv', pc # "idle", pc' # "idle", Len(queue') = Len(queue)
    PROVE  /\ StepsOfItem' = StepsOfItem \/ StepsOfItem' < StepsOfItem => StepsLeft' \in 0..StepsLeft
           /\ StepsOfItem' < StepsOfItem => StepsLeft' < StepsLeft
<1>1. StepsPerItem' = StepsPerItem
  BY DEF StepsPerItem
<1>2. PICK behind \in Nat : behind = Len(queue) * StepsPerItem
  BY StepsTyped
<1>3. StepsLeft = StepsOfItem + behind /\ StepsLeft' = StepsOfItem' + behind
  BY <1>1, <1>2 DEF StepsLeft
<1>4. StepsOfItem \in Nat \ {0} /\ StepsOfItem' \in Nat \ {0}
  <2>1. StepsOfItem \in Nat \ {0}
    BY StepsTyped
  <2>2. (pc # "idle" => StepsOfItem \in Nat \ {0})'
    BY StepsTyped, PTL
  <2> QED
    BY <2>1, <2>2
<1> QED
  BY <1>2, <1>3, <1>4

\* A step that ends the polling round.
LEMMA RoundEnds ==
    ASSUME IInv, pc # "idle", pc' = "idle"
    PROVE  StepsLeft' \in 0..StepsLeft /\ StepsLeft' < StepsLeft
<1>1. StepsLeft' = 0
  BY DEF StepsLeft
<1>2. StepsLeft = StepsOfItem + Len(queue) * StepsPerItem
  BY DEF StepsLeft
<1> QED
  BY <1>1, <1>2, StepsTyped

\* What SkipItem and StartItem take off the listing pays for the steps of one
\* item.
LEMMA ItemBehind ==
    ASSUME IInv, queue # <<>>
    PROVE  Len(queue) * StepsPerItem = Len(Tail(queue)) * StepsPerItem + StepsPerItem
<1>1. PICK n \in Nat : Len(queue) = n + 1 /\ Len(Tail(queue)) = n
  <2>1. Len(queue) \in Nat /\ Len(Tail(queue)) = Len(queue) - 1 /\ 1 \in DOMAIN queue
    BY QueueRest DEF IInv
  <2>2. Len(queue) # 0
    BY <2>1 DEF IInv, QueueInv
  <2>3. Len(Tail(queue)) \in Nat /\ Len(queue) = Len(Tail(queue)) + 1
    BY <2>1, <2>2
  <2> QED
    BY <2>3
<1>2. StepsPerItem \in Nat
  BY StepsTyped
<1>3. \A k \in Nat : (n + 1) * k = n * k + k
  OBVIOUS
<1> QED
  BY <1>1, <1>2, <1>3

\* The next item of the listing is skipped or taken up.
LEMMA ListingShrinks ==
    ASSUME IInv, IInv', SkipItem \/ StartItem
    PROVE  StepsLeft' \in 0..StepsLeft /\ StepsLeft' < StepsLeft
<1>1. pc = "next" /\ queue # <<>> /\ queue' = Tail(queue) /\ pc' \in {"next", "base"}
  BY DEF SkipItem, AfterSkipped, StartItem
<1>2. PICK behind \in Nat : behind = Len(queue') * StepsPerItem
  <2>1. (Len(queue) * StepsPerItem \in Nat)'
    BY StepsTyped, PTL
  <2> QED
    BY <2>1 DEF StepsPerItem
<1>3. StepsLeft = 1 + behind + StepsPerItem
  BY <1>1, <1>2, ItemBehind, StepsTyped DEF StepsLeft, StepsOfItem
<1>4. StepsLeft' = StepsOfItem' + behind
  BY <1>1, <1>2 DEF StepsLeft, StepsPerItem
<1>5. StepsPerItem \in Nat /\ StepsPerItem = 2 * RetrySteps + 4 /\ RetrySteps \in Nat
  BY StepsTyped, ManagerAssumption DEF StepsPerItem
<1>6. StepsOfItem' = IF pc' = "next" THEN 1 ELSE StepsPerItem
  BY <1>1 DEF StepsOfItem, StepsPerItem
<1> QED
  BY <1>2, <1>3, <1>4, <1>5, <1>6

\* Every step of the controller on the item in work uses up some of its bound;
\* an attempt of the update as well, whatever comes of it.
LEMMA ItemAdvances ==
    ASSUME IInv, pc # "idle",
           \/ GetBase \/ BaseNotFound \/ Probe \/ Fetch \/ FetchNotFound
           \/ WriteStatus \/ Conflict \/ WriteNotFound \/ Plan \/ RequestFails \/ ResponseLost
    PROVE  queue' = queue /\ pc' # "idle" /\ StepsOfItem' < StepsOfItem
<1>1. /\ RetrySteps \in Nat /\ attempts \in Nat /\ attempts <= RetrySteps
      /\ pc \in {"base", "probe", "fetch"} => attempts < RetrySteps
  BY ManagerAssumption DEF IInv, ControlInv
<1>2. CASE GetBase \/ Probe
  BY <1>1, <1>2 DEF GetBase, Probe, StepsOfItem
<1>3. CASE Fetch
  BY <1>1, <1>3 DEF Fetch, StepsOfItem
<1>4. CASE BaseNotFound \/ FetchNotFound \/ WriteNotFound
  BY <1>1, <1>4 DEF BaseNotFound, FetchNotFound, WriteNotFound, DropItem, StepsOfItem
<1>5. CASE WriteStatus \/ Plan
  BY <1>1, <1>5 DEF WriteStatus, Accepted, Plan, StepsOfItem
<1>6. CASE Conflict
  BY <1>1, <1>6 DEF Conflict, AfterConflict, StepsOfItem
<1>7. CASE RequestFails
  BY <1>1, <1>7 DEF RequestFails, AfterFailure, StepsOfItem
<1>8. CASE ResponseLost
  BY <1>1, <1>8 DEF ResponseLost, AfterLostResponse, Accepted, StepsOfItem
<1> QED
  BY <1>2, <1>3, <1>4, <1>5, <1>6, <1>7, <1>8

\* What users, the network and time do leaves the round its bound.
LEMMA RoundKept ==
    ASSUME IInv,
           \/ \E c \in Checks : \E spec \in Specs[c] : Create(c, spec) \/ Edit(c, spec)
           \/ \E c \in Checks : Delete(c)
           \/ \E m \in Matrices : NetworkChanges(m)
           \/ TickerFires
           \/ TimePasses
    PROVE  Len(queue') = Len(queue) /\ pc' = pc /\ StepsOfItem' = StepsOfItem
<1>1. pc' = pc /\ attempts' = attempts
  BY DEF Create, Edit, Delete, OthersUnchanged, NetworkChanges, controllerVars, TickerFires, TimePasses
<1>2. StepsOfItem' = StepsOfItem
  BY <1>1 DEF StepsOfItem
<1>3. CASE queue' = queue
  BY <1>1, <1>2, <1>3
<1>4. CASE TimePasses
  <2>1. queue \in Seq(Items)
    BY DEF IInv, QueueInv
  <2>2. DOMAIN queue' = 1..Len(queue)
    BY <1>4, <2>1 DEF TimePasses
  <2>3. queue' = [i \in 1..Len(queue) |-> queue'[i]]
    BY <1>4, <2>1 DEF TimePasses
  <2>4. Len(queue') = Len(queue)
    BY <2>1, <2>2, <2>3
  <2> QED
    BY <1>1, <1>2, <2>4
<1> QED
  BY <1>3, <1>4 DEF Create, Edit, Delete, OthersUnchanged, NetworkChanges, controllerVars, TickerFires

\* A polling round takes no more steps than its listing and the attempts
\* allow, whatever happens in between.
THEOREM PollingBounded == Spec => PollingRoundIsBounded
<1>1. ASSUME IInv, IInv', [Next]_vars, pc # "idle"
      PROVE  \/ UNCHANGED vars
             \/ /\ StepsLeft' \in 0..StepsLeft
                /\ Controller => StepsLeft' < StepsLeft
  <2>1. CASE SkipItem \/ StartItem
    BY <1>1, <2>1, ListingShrinks
  <2>2. CASE \/ GetBase \/ BaseNotFound \/ Probe \/ Fetch \/ FetchNotFound
             \/ WriteStatus \/ Conflict \/ WriteNotFound \/ Plan \/ RequestFails \/ ResponseLost
    <3>1. queue' = queue /\ pc' # "idle" /\ StepsOfItem' < StepsOfItem
      BY <1>1, <2>2, ItemAdvances
    <3> QED
      BY <1>1, <3>1, SameListing
  <2>3. CASE EndRound \/ Restart
    BY <1>1, <2>3, RoundEnds DEF EndRound, Restart
  <2>4. CASE /\ ~Controller
             /\ \/ \E c \in Checks : \E spec \in Specs[c] : Create(c, spec) \/ Edit(c, spec)
                \/ \E c \in Checks : Delete(c)
                \/ \E m \in Matrices : NetworkChanges(m)
                \/ TickerFires
                \/ TimePasses
    <3>1. Len(queue') = Len(queue) /\ pc' = pc /\ StepsOfItem' = StepsOfItem
      BY <1>1, <2>4, RoundKept
    <3> QED
      BY <1>1, <2>4, <3>1, SameListing
  <2>5. ~ListChecks /\ ~ListFails
    BY <1>1 DEF ListChecks, ListFails
  <2> QED
    BY <1>1, <2>1, <2>2, <2>3, <2>4, <2>5 DEF Next, Controller, Environment
<1>2. IInv /\ IInv' /\ [Next]_vars =>
        [pc # "idle" => /\ StepsLeft' \in 0..StepsLeft
                        /\ Controller => StepsLeft' < StepsLeft]_vars
  BY <1>1
<1> QED
  BY <1>2, InductiveInvariant, PTL DEF Spec, PollingRoundIsBounded

-----------------------------------------------------------------------------
(* The refinement. *)

\* A step that readers see nothing of.
LEMMA Unseen ==
    ASSUME UNCHANGED <<objects, shortest, built, plan>>, pc # "plan" /\ pc' # "plan"
    PROVE  UNCHANGED Readers!contractVars
BY DEF shown, announced, planned, Exists, Readers!contractVars

\* Taking up the next item, and starting again.
LEMMA Forgets ==
    ASSUME UNCHANGED <<objects, shortest>>, pc' # "plan", plan' = NoPlan
    PROVE  Readers!Forget
BY DEF shown, announced, planned, Exists, NoPlan, Readers!Forget

\* Storing a status is a publication, whether or not its answer arrives.
LEMMA Publishes ==
    ASSUME IInv, WriteStatus \/ ResponseLost
    PROVE  \E class \in Readers!Classes : Readers!Publish(item.check, class)
<1> DEFINE c == item.check
<1>0. /\ Accepted /\ StoreStatus /\ pc' \in {"plan", "next"} /\ UNCHANGED <<built, plan>>
  BY DEF WriteStatus, ResponseLost, AfterLostResponse
<1>1. /\ c \in Checks /\ Exists(c) /\ pc = "write"
      /\ built.verdict.class \in Classes
  BY <1>0, Storing DEF IInv, BuiltInv
<1>2. shown[c] = [uid |-> objects[c].uid, age |-> objects[c].age, interval |-> objects[c].spec.interval,
                  shortest |-> shortest[c], class |-> objects[c].status.verdict.class]
  BY <1>1 DEF shown
<1>3. /\ shown'[c] = [uid |-> objects[c].uid, age |-> waited, interval |-> objects[c].spec.interval,
                      shortest |-> objects[c].spec.interval, class |-> built.verdict.class]
      /\ \A d \in Checks : d # c => shown'[d] = shown[d]
      /\ DOMAIN shown' = Checks
  BY <1>0, <1>1, Storing DEF shown, Exists
<1>4. shown' = [shown EXCEPT ![c] = Readers!View(shown[c].uid, waited, shown[c].interval, shown[c].interval,
                                                 built.verdict.class)]
  <2>1. shown = [d \in Checks |-> shown[d]] /\ shown' = [d \in Checks |-> shown'[d]]
    BY DEF shown
  <2>2. shown'[c] = Readers!View(shown[c].uid, waited, shown[c].interval, shown[c].interval, built.verdict.class)
    BY <1>2, <1>3 DEF Readers!View
  <2> HIDE DEF c, shown
  <2> QED
    BY <1>1, <1>3, <2>1, <2>2
<1>5. Readers!Present(c)
  BY <1>1, <1>2 DEF IInv, ObjectsTyped, Readers!Present, Readers!Absent, Readers!View
<1>6. shown[c].age >= shown[c].shortest /\ waited \in 0..shown[c].age
  <2>1. /\ item \in Items /\ shouldRun(item.age, item.spec.interval) /\ Behind(item)
        /\ waited \in 0..MaxAge /\ waited <= objects[c].age
    BY <1>1 DEF IInv, ItemInv, Snapshot, WaitedInv
  <2>2. item.spec.interval \in Int /\ item.age \in 0..MaxAge
    BY <2>1, ManagerAssumption DEF Items, AllSpecs
  <2>3. /\ objects[c].age \in 0..MaxAge /\ shortest[c] \in Int
        /\ shortest[c] <= objects[c].spec.interval /\ objects[c].spec.interval \in Int
        /\ objects[c].spec.interval <= MaxAge
    BY <1>1, ManagerAssumption DEF IInv, ObjectsTyped
  <2>4. /\ item.age <= objects[c].age
        /\ shortest[c] <= item.spec.interval \/ objects[c].age = MaxAge
    BY <1>1, <2>1 DEF Behind
  <2>5. objects[c].age >= shortest[c] /\ waited \in 0..objects[c].age
    BY <2>1, <2>2, <2>3, <2>4, ManagerAssumption DEF shouldRun
  <2> QED
    BY <1>2, <2>5
<1>7. announced = "none" /\ announced' \in {built.verdict.class, "none"} /\ UNCHANGED planned
  BY <1>0, <1>1 DEF announced, planned
<1> QED
  BY <1>1, <1>4, <1>5, <1>6, <1>7 DEF Readers!Publish, Classes, Readers!Classes

\* Planning is a plan for the published class.
LEMMA MakesPlan ==
    ASSUME IInv, Plan
    PROVE  Readers!MakePlan
<1>1. /\ pc = "plan" /\ pc' = "next" /\ UNCHANGED <<objects, shortest, built>>
      /\ plan'.action \in {"NoAction", "AlertOnly"}
      /\ plan'.action = "AlertOnly" => built.verdict.class \in FaultClasses
      /\ built.verdict.class \in Classes
  BY DEF Plan, apiVars, PlanRemediation, IInv, BuiltInv
<1>2. FaultClasses = Readers!AlertClasses
  BY DEF FaultClasses, HardFailureClasses, Readers!AlertClasses, Readers!HardFailureClasses
<1>3. announced # "none" /\ announced' = "none" /\ announced = built.verdict.class
  BY <1>1 DEF announced, Classes
<1>4. UNCHANGED shown
  BY <1>1 DEF shown, Exists
<1> QED
  BY <1>1, <1>2, <1>3, <1>4 DEF Readers!MakePlan, planned

\* A new object.
LEMMA Appears ==
    ASSUME IInv, NEW c \in Checks, NEW spec \in Specs[c], Create(c, spec)
    PROVE  \E uid \in 1..MaxUid : Readers!Appear(c, uid, spec.interval)
<1>1. /\ ~Exists(c) /\ uids \in Nat /\ uids + 1 \in 1..MaxUid
      /\ objects' = [d \in Checks |-> IF d = c THEN NewObject(uids + 1, spec) ELSE objects[d]]
      /\ shortest' = [d \in Checks |-> IF d = c THEN spec.interval ELSE shortest[d]]
      /\ UNCHANGED <<pc, built, plan>>
  <2>1. uids \in Nat /\ uids < MaxUid /\ MaxUid \in Nat
    BY ManagerAssumption DEF IInv, ObjectsTyped, Create
  <2>2. uids + 1 \in 1..MaxUid
    BY <2>1
  <2> QED
    BY <2>1, <2>2 DEF IInv, ObjectsTyped, Create, OthersUnchanged
<1>2. /\ objects'[c] # NoObject /\ objects'[c].uid = uids + 1 /\ objects'[c].age = MaxAge
      /\ objects'[c].status = NoStatus /\ objects'[c].spec = spec
      /\ shortest'[c] = spec.interval
  BY <1>1 DEF NewObject, NoObject
<1>3. shown'[c] = Readers!Fresh(uids + 1, spec.interval)
  <2>1. NoStatus.verdict.class = "none"
    BY DEF NoStatus, NoVerdict
  <2> QED
    BY <1>2, <2>1 DEF shown, Exists, Readers!Fresh, Readers!View
<1>4. shown' = [shown EXCEPT ![c] = Readers!Fresh(uids + 1, spec.interval)]
  BY <1>1, <1>3 DEF shown, Exists
<1>5. ~Readers!Present(c)
  BY <1>1 DEF shown, Unshown, Readers!Present, Readers!Absent, Readers!View
<1>6. UNCHANGED <<announced, planned>>
  BY <1>1 DEF announced, planned
<1> QED
  BY <1>1, <1>4, <1>5, <1>6 DEF Readers!Appear

\* A name is shown exactly if its object exists.
LEMMA PresentExists ==
    ASSUME IInv, NEW c \in Checks
    PROVE  Readers!Present(c) <=> Exists(c)
<1>1. Exists(c) => objects[c].uid # 0
  BY DEF IInv, ObjectsTyped
<1> QED
  BY <1>1 DEF shown, Unshown, Readers!Present, Readers!Absent, Readers!View

\* A deleted object.
LEMMA Disappears ==
    ASSUME IInv, NEW c \in Checks, Delete(c)
    PROVE  Readers!Disappear(c)
<1>1. /\ Exists(c) /\ UNCHANGED <<pc, built, plan>>
      /\ objects' = [d \in Checks |-> IF d = c THEN NoObject ELSE objects[d]]
      /\ shortest' = [d \in Checks |-> IF d = c THEN 0 ELSE shortest[d]]
  BY DEF IInv, ObjectsTyped, Delete, OthersUnchanged
<1>2. shown' = [shown EXCEPT ![c] = Readers!Absent]
  BY <1>1 DEF shown, Unshown, Exists, Readers!Absent, Readers!View
<1>3. UNCHANGED <<announced, planned>>
  BY <1>1 DEF announced, planned
<1> QED
  BY <1>1, <1>2, <1>3, PresentExists DEF Readers!Disappear

\* An edit gives the check its interval, and shows nothing else.
LEMMA Asks ==
    ASSUME IInv, NEW c \in Checks, NEW spec \in Specs[c], Edit(c, spec)
    PROVE  Readers!Ask(c, spec.interval)
<1>1. /\ Exists(c) /\ UNCHANGED <<pc, built, plan>>
      /\ \A d \in Checks : d # c => objects'[d] = objects[d] /\ shortest'[d] = shortest[d]
      /\ shortest'[c] = IF spec.interval < shortest[c] THEN spec.interval ELSE shortest[c]
      /\ objects'[c] = [[objects[c] EXCEPT !.spec = spec] EXCEPT !.generation = objects[c].generation + 1]
  BY DEF IInv, ObjectsTyped, Edit, OthersUnchanged
<1>2. DOMAIN objects[c] = {"uid", "generation", "spec", "status", "age"}
  BY <1>1 DEF IInv, ObjectsTyped
<1>3. /\ objects'[c].uid = objects[c].uid /\ objects'[c].status = objects[c].status
      /\ objects'[c].age = objects[c].age /\ objects'[c].spec = spec
      /\ DOMAIN objects'[c] = {"uid", "generation", "spec", "status", "age"}
  BY <1>1, <1>2
<1>4. objects'[c] # NoObject
  BY <1>3 DEF NoObject
<1>5. /\ shown[c] = [uid |-> objects[c].uid, age |-> objects[c].age, interval |-> objects[c].spec.interval,
                     shortest |-> shortest[c], class |-> objects[c].status.verdict.class]
      /\ shown'[c] = [uid |-> objects[c].uid, age |-> objects[c].age, interval |-> spec.interval,
                      shortest |-> shortest'[c], class |-> objects[c].status.verdict.class]
      /\ \A d \in Checks : d # c => shown'[d] = shown[d]
  BY <1>1, <1>3, <1>4 DEF shown, Exists
<1>6. shown' = [shown EXCEPT ![c] =
                  Readers!View(shown[c].uid, shown[c].age, spec.interval,
                               IF spec.interval < shown[c].shortest THEN spec.interval ELSE shown[c].shortest,
                               shown[c].class)]
  <2>1. shown' = [d \in Checks |-> shown'[d]] /\ shown = [d \in Checks |-> shown[d]]
    BY DEF shown
  <2>2. shown'[c] = Readers!View(shown[c].uid, shown[c].age, spec.interval,
                               IF spec.interval < shown[c].shortest THEN spec.interval ELSE shown[c].shortest,
                               shown[c].class)
    BY <1>1, <1>5 DEF Readers!View
  <2> HIDE DEF shown
  <2> QED
    BY <1>5, <2>1, <2>2
<1>7. UNCHANGED <<announced, planned>>
  BY <1>1 DEF announced, planned
<1> QED
  BY <1>1, <1>6, <1>7, PresentExists DEF Readers!Ask

\* Time passes.
LEMMA Ages == ASSUME IInv, TimePasses PROVE Readers!Age
<1>1. /\ UNCHANGED <<shortest, pc, built, plan>>
      /\ objects' = [c \in Checks |-> IF Exists(c) THEN [objects[c] EXCEPT !.age = Older(objects[c].age)]
                                      ELSE NoObject]
  BY DEF TimePasses
<1>2. ASSUME NEW c \in Checks
      PROVE  shown'[c] = IF Readers!Present(c) /\ shown[c].age < MaxAge
                         THEN [shown[c] EXCEPT !.age = shown[c].age + 1] ELSE shown[c]
  <2>1. CASE ~Exists(c)
    BY <1>1, <2>1, PresentExists DEF shown, Exists
  <2>2. CASE Exists(c)
    <3>1. /\ DOMAIN objects[c] = {"uid", "generation", "spec", "status", "age"}
          /\ objects[c].age \in 0..MaxAge
      BY <2>2 DEF IInv, ObjectsTyped
    <3>2. objects'[c] = [objects[c] EXCEPT !.age = Older(objects[c].age)]
      BY <1>1, <2>2
    <3>3. /\ DOMAIN objects'[c] = {"uid", "generation", "spec", "status", "age"}
          /\ objects'[c].uid = objects[c].uid /\ objects'[c].status = objects[c].status
          /\ objects'[c].age = Older(objects[c].age) /\ objects'[c].spec = objects[c].spec
      BY <3>1, <3>2
    <3>4. Exists(c)'
      BY <3>3 DEF Exists, NoObject
    <3>5. /\ shown[c] = [uid |-> objects[c].uid, age |-> objects[c].age, interval |-> objects[c].spec.interval,
                         shortest |-> shortest[c], class |-> objects[c].status.verdict.class]
          /\ shown'[c] = [uid |-> objects[c].uid, age |-> Older(objects[c].age),
                          interval |-> objects[c].spec.interval,
                          shortest |-> shortest[c], class |-> objects[c].status.verdict.class]
      BY <1>1, <2>2, <3>3, <3>4 DEF shown
    <3>6. Readers!Present(c)
      BY <2>2, PresentExists
    <3>7. CASE objects[c].age < MaxAge
      BY <3>5, <3>6, <3>7 DEF Older
    <3>8. CASE ~(objects[c].age < MaxAge)
      BY <3>5, <3>6, <3>8 DEF Older
    <3> QED
      BY <3>7, <3>8
  <2> QED
    BY <2>1, <2>2
<1>3. shown' = [c \in Checks |-> shown'[c]]
  BY DEF shown
<1>4. UNCHANGED <<announced, planned>>
  BY <1>1 DEF announced, planned
<1> HIDE DEF shown
<1> QED
  BY <1>2, <1>3, <1>4 DEF Readers!Age

\* The intervals that users may give are those of the contract.
LEMMA OfferedInterval ==
    ASSUME NEW c \in Checks, NEW spec \in Specs[c]
    PROVE  spec.interval \in {s.interval : s \in UNION {Specs[d] : d \in Checks}}
OBVIOUS

\* What readers of statuses and alerts see is a behaviour of StatusContract:
\* each step of the manager is a step of it or is not seen.
THEOREM ManagerImplements == Spec => ImplementsStatusContract
<1>1. Init => Readers!ContractInit
  <2> SUFFICES ASSUME Init PROVE Readers!ContractInit
    OBVIOUS
  <2>1. shown = [c \in Checks |-> Readers!Absent]
    BY DEF Init, shown, Exists, Unshown, Readers!Absent, Readers!View
  <2> QED
    BY <2>1 DEF Init, announced, planned, NoPlan, Readers!ContractInit
<1>2. IInv /\ [Next]_vars => [Readers!ContractNext]_(Readers!contractVars)
  <2> SUFFICES ASSUME IInv, [Next]_vars PROVE Readers!ContractNext \/ UNCHANGED Readers!contractVars
    OBVIOUS
  <2>1. CASE \/ ListChecks \/ SkipItem \/ GetBase \/ BaseNotFound \/ Fetch \/ FetchNotFound
             \/ Conflict \/ WriteNotFound \/ ListFails \/ RequestFails
    BY <2>1, Unseen DEF ListChecks, SkipItem, GetBase, BaseNotFound, Fetch, FetchNotFound, Conflict, AfterConflict,
       WriteNotFound, ListFails, RequestFails, DropItem, AfterFailure, apiVars
  <2>2. CASE Probe
    BY <2>2 DEF Probe, apiVars, shown, announced, planned, Exists, Readers!contractVars
  <2>3. CASE StartItem \/ EndRound \/ Restart
    BY <2>3, Forgets DEF StartItem, EndRound, Restart, apiVars, Readers!ContractNext
  <2>4. CASE WriteStatus \/ ResponseLost
    <3>1. item.check \in Checks
      BY <2>4, Storing DEF WriteStatus, ResponseLost
    <3> QED
      BY <2>4, <3>1, Publishes DEF Readers!ContractNext
  <2>5. CASE Plan
    BY <2>5, MakesPlan DEF Readers!ContractNext
  <2>6. CASE \E c \in Checks : \E spec \in Specs[c] : Create(c, spec)
    <3>1. PICK c \in Checks : \E spec \in Specs[c] : Create(c, spec)
      BY <2>6
    <3>2. PICK spec \in Specs[c] : Create(c, spec)
      BY <3>1
    <3>3. \E uid \in 1..MaxUid : Readers!Appear(c, uid, spec.interval)
      BY <3>2, Appears
    <3> QED
      BY <3>3, OfferedInterval DEF Readers!ContractNext
  <2>7. CASE \E c \in Checks : \E spec \in Specs[c] : Edit(c, spec)
    <3>1. PICK c \in Checks : \E spec \in Specs[c] : Edit(c, spec)
      BY <2>7
    <3>2. PICK spec \in Specs[c] : Edit(c, spec)
      BY <3>1
    <3>3. Readers!Ask(c, spec.interval)
      BY <3>2, Asks
    <3> QED
      BY <3>3, OfferedInterval DEF Readers!ContractNext
  <2>8. CASE \E c \in Checks : Delete(c)
    BY <2>8, Disappears DEF Readers!ContractNext
  <2>9. CASE TimePasses
    BY <2>9, Ages DEF Readers!ContractNext
  <2>10. CASE TickerFires \/ (\E m \in Matrices : NetworkChanges(m)) \/ UNCHANGED vars
    BY <2>10 DEF TickerFires, NetworkChanges, vars, controllerVars, apiVars, shown, announced, planned, Exists,
       Readers!contractVars
  <2> QED
    BY <2>1, <2>2, <2>3, <2>4, <2>5, <2>6, <2>7, <2>8, <2>9, <2>10 DEF Next, Controller, Environment
<1> QED
  BY <1>1, <1>2, InductiveInvariant, PTL DEF Spec, ImplementsStatusContract, Readers!ContractSpec
=============================================================================
