----------------------------- MODULE Classifier -----------------------------
(***************************************************************************)
(* The blast-radius classifier (code/pkg/analysis/classifier.go): one      *)
(* matrix in, one verdict out, no memory.  The code ranks candidate nodes  *)
(* while it iterates over a Go map, whose order is random, and keeps the   *)
(* first best one; Verdicts(m) is therefore the SET of verdicts an         *)
(* evaluation of m may return.                                             *)
(***************************************************************************)
EXTENDS Contract

CONSTANTS
    DegradedLossThreshold,   \* percent; zero or less means unset
    ConfidenceFloor          \* percent; zero or less means unset

ASSUME ClassifierAssumption ==
    DegradedLossThreshold \in 0..100 /\ ConfidenceFloor \in 0..100

LossThreshold == IF DegradedLossThreshold <= 0 THEN 5 ELSE DegradedLossThreshold
Floor == IF ConfidenceFloor <= 0 THEN 80 ELSE ConfidenceFloor

NodesOf(m) == {p[1] : p \in DOMAIN m} \cup {p[2] : p \in DOMAIN m}

AgentErrors(m) == {p \in DOMAIN m : m[p].agentError}

\* Hard failures.  Loss on a pair that answered is never one.
Failed(m) == {p \in DOMAIN m : ~m[p].success}

Lossy(m) == {p \in DOMAIN m : m[p].success /\ m[p].loss >= LossThreshold}

\* The pairs of S out of node n, and into it.
Row(S, n) == {p \in S : p[1] = n}
Col(S, n) == {p \in S : p[2] = n}

\* Mutant of RowDown: one failed probe out of the node is enough.
RowTouched(m, n) == Row(Failed(m), n) # {}

\* Every probe out of n failed, and there was one; likewise into n.
RowDown(m, n) == Row(DOMAIN m, n) # {} /\ Row(DOMAIN m, n) \subseteq Failed(m)
ColDown(m, n) == Col(DOMAIN m, n) # {} /\ Col(DOMAIN m, n) \subseteq Failed(m)

-----------------------------------------------------------------------------
(* The hypotheses about hard failures, in the order the code tries them.    *)
(* Each is the set of verdicts it may give: empty if it does not apply.     *)

\* Exactly one pair failed, and neither its row nor its column is down.
PairLocal(m) ==
    {[class |-> "PairLocalFailure", confidence |-> Certain, suspects |-> {p[1], p[2]}] :
        p \in {q \in Failed(m) : /\ Failed(m) = {q}
                                 /\ ~RowDown(m, q[1])
                                 /\ ~ColDown(m, q[2])}}

\* Mutant of AtMost: the confidence is not capped.
Uncapped(a, b) == a

AtMost(a, b) == IF a < b THEN a ELSE b

\* Mutant of Blame: the best candidate is returned even below the floor.
BlameBelowFloor(class, m, explained) ==
    {[class      |-> class,
      confidence |-> [num |-> explained[n], den |-> Cardinality(Failed(m))],
      suspects   |-> {n}] :
        n \in {c \in DOMAIN explained : \A d \in DOMAIN explained : explained[d] <= explained[c]}}

\* The candidates that explain most of the failures, if that is at least the
\* confidence floor; map order decides between equals.  explained[n] counts
\* the failures that candidate n accounts for.
Blame(class, m, explained) ==
    LET verdict(n) == [class      |-> class,
                       confidence |-> [num |-> explained[n], den |-> Cardinality(Failed(m))],
                       suspects   |-> {n}]
    IN  {verdict(n) : n \in
            {c \in DOMAIN explained :
                /\ AtLeastPercent(verdict(c).confidence, Floor)
                /\ \A d \in DOMAIN explained : explained[d] <= explained[c]}}

\* A probe of a node to itself (two agents on one node) counts twice; the
\* confidence is capped at 1.
Isolated(m) ==
    Blame("NodeIsolated", m,
        [n \in {n \in NodesOf(m) : RowDown(m, n) /\ ColDown(m, n)} |->
            AtMost(Cardinality(Row(Failed(m), n)) + Cardinality(Col(Failed(m), n)),
                   Cardinality(Failed(m)))])

Egress(m) ==
    Blame("NodeEgressFailure", m,
        [n \in {n \in NodesOf(m) : RowDown(m, n) /\ ~ColDown(m, n)} |->
            Cardinality(Row(Failed(m), n))])

\* Mutant of Ingress: the row's count is used where the column's is meant.
IngressByRow(m) ==
    Blame("NodeIngressFailure", m,
        [n \in {n \in NodesOf(m) : ColDown(m, n) /\ ~RowDown(m, n)} |->
            Cardinality(Row(Failed(m), n))])

Ingress(m) ==
    Blame("NodeIngressFailure", m,
        [n \in {n \in NodesOf(m) : ColDown(m, n) /\ ~RowDown(m, n)} |->
            Cardinality(Col(Failed(m), n))])

PolicyScoped(m) ==
    IF \A p \in DOMAIN m : ~m[p].success /\ m[p].error = "refused"
    THEN {[class |-> "PolicyScopedFailure", confidence |-> Certain, suspects |-> NodesOf(m)]}
    ELSE {}

FailedFraction(m) == [num |-> Cardinality(Failed(m)), den |-> Cardinality(DOMAIN m)]

Partition(m) ==
    IF AtLeastPercent(FailedFraction(m), Floor)
    THEN {[class |-> "ClusterPartition", confidence |-> FailedFraction(m), suspects |-> NodesOf(m)]}
    ELSE {}

NoHypothesis(m) ==
    {[class |-> "Unknown", confidence |-> FailedFraction(m), suspects |-> {}]}

FirstNonEmpty(sets) ==
    LET nonEmpty == {i \in DOMAIN sets : sets[i] # {}}
    IN  sets[CHOOSE i \in nonEmpty : \A j \in nonEmpty : i <= j]

HardFailureVerdicts(m) ==
    FirstNonEmpty(<<PairLocal(m), Isolated(m), Egress(m), Ingress(m),
                    PolicyScoped(m), Partition(m), NoHypothesis(m)>>)

-----------------------------------------------------------------------------
\* No evidence, then the control channel, then hard failures, then loss.
Verdicts(m) ==
    CASE DOMAIN m = {} ->
            {[class |-> "NoData", confidence |-> NoConfidence, suspects |-> {}]}
      [] DOMAIN m # {} /\ AgentErrors(m) # {} ->
            {[class |-> "Unknown", confidence |-> NoConfidence, suspects |-> {}]}
      [] DOMAIN m # {} /\ AgentErrors(m) = {} /\ Failed(m) # {} ->
            HardFailureVerdicts(m)
      [] DOMAIN m # {} /\ AgentErrors(m) = {} /\ Failed(m) = {} /\ Lossy(m) # {} ->
            {[class      |-> "Degraded",
              confidence |-> Certain,
              suspects   |-> {p[1] : p \in Lossy(m)} \cup {p[2] : p \in Lossy(m)}]}
      [] OTHER ->
            {[class |-> "Healthy", confidence |-> Certain, suspects |-> {}]}
=============================================================================
