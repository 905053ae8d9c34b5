---------------------------- MODULE VerdictProofs ----------------------------
(***************************************************************************)
(* What every verdict of the classifier is, for every matrix and every     *)
(* setting of the thresholds: which branch and which hypothesis gave it,   *)
(* that it is well formed, and that it names no fault below the floor.     *)
(* The proofs about Manager, MeshRounds and Classification rest on these   *)
(* facts.                                                                  *)
(***************************************************************************)
EXTENDS Classifier, FiniteSetTheorems, TLAPS

\* The hypotheses in the order the classifier tries them.
Hypotheses(m) == <<PairLocal(m), Isolated(m), Egress(m), Ingress(m),
                   PolicyScoped(m), Partition(m), NoHypothesis(m)>>

\* The seven hypotheses by their rank.
LEMMA HypothesisNumber ==
    ASSUME NEW m
    PROVE  /\ Hypotheses(m)[1] = PairLocal(m)
           /\ Hypotheses(m)[2] = Isolated(m)
           /\ Hypotheses(m)[3] = Egress(m)
           /\ Hypotheses(m)[4] = Ingress(m)
           /\ Hypotheses(m)[5] = PolicyScoped(m)
           /\ Hypotheses(m)[6] = Partition(m)
           /\ Hypotheses(m)[7] = NoHypothesis(m)
BY DEF Hypotheses

\* The verdicts about hard failures are those of the first hypothesis, in the
\* code's order, that has any; the last one always has.
LEMMA FirstApplies ==
    ASSUME NEW m
    PROVE  \E i \in 1..7 :
              /\ HardFailureVerdicts(m) = Hypotheses(m)[i]
              /\ Hypotheses(m)[i] # {}
              /\ \A j \in 1..(i - 1) : Hypotheses(m)[j] = {}
<1> DEFINE sets == Hypotheses(m)
           nonEmpty == {i \in DOMAIN sets : sets[i] # {}}
<1>1. DOMAIN sets = 1..7 /\ sets[7] # {}
  <2>1. DOMAIN sets = 1..7
    BY DEF Hypotheses
  <2>2. sets[7] # {}
    BY HypothesisNumber DEF NoHypothesis
  <2> QED
    BY <2>1, <2>2
<1>2. HardFailureVerdicts(m) = FirstNonEmpty(sets)
  BY DEF HardFailureVerdicts, Hypotheses
<1> HIDE DEF sets
<1>3. 7 \in nonEmpty /\ nonEmpty \subseteq 1..7
  BY <1>1
<1>4. \E i \in nonEmpty : \A j \in nonEmpty : i <= j
  <2> HIDE DEF nonEmpty
  <2>1. nonEmpty \subseteq {1, 2, 3, 4, 5, 6, 7}
    BY <1>3
  <2> QED
    BY <2>1, <1>3
<1> DEFINE first == CHOOSE i \in nonEmpty : \A j \in nonEmpty : i <= j
<1>5. first \in nonEmpty /\ \A j \in nonEmpty : first <= j
  BY <1>4
<1>6. FirstNonEmpty(sets) = sets[first]
  BY DEF FirstNonEmpty
<1> HIDE DEF first
<1>7. \A j \in 1..(first - 1) : sets[j] = {}
  BY <1>1, <1>3, <1>5
<1> QED
  BY <1>1, <1>2, <1>3, <1>5, <1>6, <1>7 DEF sets

\* Every verdict comes from one of the five branches of the classifier, and
\* each branch says what the matrix is like.
LEMMA VerdictOrigin ==
    ASSUME NEW m, NEW v \in Verdicts(m)
    PROVE  \/ /\ DOMAIN m = {}
              /\ v = [class |-> "NoData", confidence |-> NoConfidence, suspects |-> {}]
           \/ /\ DOMAIN m # {} /\ AgentErrors(m) # {}
              /\ v = [class |-> "Unknown", confidence |-> NoConfidence, suspects |-> {}]
           \/ /\ DOMAIN m # {} /\ AgentErrors(m) = {} /\ Failed(m) # {}
              /\ v \in HardFailureVerdicts(m)
           \/ /\ DOMAIN m # {} /\ AgentErrors(m) = {} /\ Failed(m) = {} /\ Lossy(m) # {}
              /\ v = [class      |-> "Degraded",
                      confidence |-> Certain,
                      suspects   |-> {p[1] : p \in Lossy(m)} \cup {p[2] : p \in Lossy(m)}]
           \/ /\ DOMAIN m # {} /\ AgentErrors(m) = {} /\ Failed(m) = {} /\ Lossy(m) = {}
              /\ v = [class |-> "Healthy", confidence |-> Certain, suspects |-> {}]
<1>1. CASE DOMAIN m = {}
  BY <1>1 DEF Verdicts
<1>2. CASE DOMAIN m # {} /\ AgentErrors(m) # {}
  BY <1>2 DEF Verdicts
<1>3. CASE DOMAIN m # {} /\ AgentErrors(m) = {} /\ Failed(m) # {}
  BY <1>3 DEF Verdicts
<1>4. CASE DOMAIN m # {} /\ AgentErrors(m) = {} /\ Failed(m) = {} /\ Lossy(m) # {}
  BY <1>4 DEF Verdicts
<1>5. CASE DOMAIN m # {} /\ AgentErrors(m) = {} /\ Failed(m) = {} /\ Lossy(m) = {}
  BY <1>5 DEF Verdicts
<1> QED
  BY <1>1, <1>2, <1>3, <1>4, <1>5

\* A blamed node explains at least the floor's share of the failures, and no
\* other candidate explains more.
LEMMA Blamed ==
    ASSUME NEW class, NEW m, NEW explained, NEW v \in Blame(class, m, explained)
    PROVE  \E n \in DOMAIN explained :
              /\ v = [class      |-> class,
                      confidence |-> [num |-> explained[n], den |-> Cardinality(Failed(m))],
                      suspects   |-> {n}]
              /\ AtLeastPercent(v.confidence, Floor)
              /\ \A d \in DOMAIN explained : explained[d] <= explained[n]
<1> DEFINE verdict(n) == [class      |-> class,
                          confidence |-> [num |-> explained[n], den |-> Cardinality(Failed(m))],
                          suspects   |-> {n}]
           best == {c \in DOMAIN explained :
                      /\ AtLeastPercent(verdict(c).confidence, Floor)
                      /\ \A d \in DOMAIN explained : explained[d] <= explained[c]}
<1>1. Blame(class, m, explained) = {verdict(n) : n \in best}
  BY DEF Blame
<1>2. PICK n \in best : v = verdict(n)
  BY <1>1
<1> QED
  BY <1>2

\* What is left of Blamed where the node does not matter.
LEMMA BlameClass ==
    ASSUME NEW class, NEW m, NEW explained, NEW v \in Blame(class, m, explained)
    PROVE  v.class = class /\ AtLeastPercent(v.confidence, Floor)
<1>1. PICK n \in DOMAIN explained :
              /\ v = [class      |-> class,
                      confidence |-> [num |-> explained[n], den |-> Cardinality(Failed(m))],
                      suspects   |-> {n}]
              /\ AtLeastPercent(v.confidence, Floor)
  BY Blamed
<1> QED
  BY <1>1

\* The candidates for an isolated node and the failures each explains.
LEMMA IsolatedBlames ==
    ASSUME NEW m
    PROVE  \E explained :
              /\ Isolated(m) = Blame("NodeIsolated", m, explained)
              /\ DOMAIN explained = {n \in NodesOf(m) : RowDown(m, n) /\ ColDown(m, n)}
              /\ \A n \in DOMAIN explained :
                    explained[n] = AtMost(Cardinality(Row(Failed(m), n)) + Cardinality(Col(Failed(m), n)),
                                        Cardinality(Failed(m)))
BY DEF Isolated

\* The candidates for a node that cannot send.
LEMMA EgressBlames ==
    ASSUME NEW m
    PROVE  \E explained :
              /\ Egress(m) = Blame("NodeEgressFailure", m, explained)
              /\ DOMAIN explained = {n \in NodesOf(m) : RowDown(m, n) /\ ~ColDown(m, n)}
              /\ \A n \in DOMAIN explained :
                    explained[n] = Cardinality(Row(Failed(m), n))
BY DEF Egress

\* The candidates for a node that cannot be reached.
LEMMA IngressBlames ==
    ASSUME NEW m
    PROVE  \E explained :
              /\ Ingress(m) = Blame("NodeIngressFailure", m, explained)
              /\ DOMAIN explained = {n \in NodesOf(m) : ColDown(m, n) /\ ~RowDown(m, n)}
              /\ \A n \in DOMAIN explained :
                    explained[n] = Cardinality(Col(Failed(m), n))
BY DEF Ingress

\* Each hypothesis has a class of its own.
LEMMA ClassOfHypothesis ==
    ASSUME NEW m, NEW v
    PROVE  /\ v \in PairLocal(m) => v.class = "PairLocalFailure"
           /\ v \in Isolated(m) => v.class = "NodeIsolated"
           /\ v \in Egress(m) => v.class = "NodeEgressFailure"
           /\ v \in Ingress(m) => v.class = "NodeIngressFailure"
           /\ v \in PolicyScoped(m) => v.class = "PolicyScopedFailure"
           /\ v \in Partition(m) => v.class = "ClusterPartition"
           /\ v \in NoHypothesis(m) => v.class = "Unknown"
<1>1. v \in PairLocal(m) => v.class = "PairLocalFailure"
  BY DEF PairLocal
<1>2. v \in Isolated(m) => v.class = "NodeIsolated"
  <2>1. PICK e : Isolated(m) = Blame("NodeIsolated", m, e)
    BY IsolatedBlames
  <2> QED
    BY <2>1, BlameClass
<1>3. v \in Egress(m) => v.class = "NodeEgressFailure"
  <2>1. PICK e : Egress(m) = Blame("NodeEgressFailure", m, e)
    BY EgressBlames
  <2> QED
    BY <2>1, BlameClass
<1>4. v \in Ingress(m) => v.class = "NodeIngressFailure"
  <2>1. PICK e : Ingress(m) = Blame("NodeIngressFailure", m, e)
    BY IngressBlames
  <2> QED
    BY <2>1, BlameClass
<1>5. v \in PolicyScoped(m) => v.class = "PolicyScopedFailure"
  BY DEF PolicyScoped
<1>6. v \in Partition(m) => v.class = "ClusterPartition"
  BY DEF Partition
<1>7. v \in NoHypothesis(m) => v.class = "Unknown"
  BY DEF NoHypothesis
<1> QED
  BY <1>1, <1>2, <1>3, <1>4, <1>5, <1>6, <1>7

\* The class of a verdict about hard failures tells which hypothesis gave it.
LEMMA HardFailureOrigin ==
    ASSUME NEW m, NEW v \in HardFailureVerdicts(m)
    PROVE  \/ v \in PairLocal(m) /\ v.class = "PairLocalFailure"
           \/ v \in Isolated(m) /\ v.class = "NodeIsolated"
           \/ v \in Egress(m) /\ v.class = "NodeEgressFailure"
           \/ v \in Ingress(m) /\ v.class = "NodeIngressFailure"
           \/ v \in PolicyScoped(m) /\ v.class = "PolicyScopedFailure"
           \/ v \in Partition(m) /\ v.class = "ClusterPartition"
           \/ v \in NoHypothesis(m) /\ v.class = "Unknown"
<1>1. v \in PairLocal(m) \/ v \in Isolated(m) \/ v \in Egress(m) \/ v \in Ingress(m)
        \/ v \in PolicyScoped(m) \/ v \in Partition(m) \/ v \in NoHypothesis(m)
  <2>1. PICK i \in 1..7 : HardFailureVerdicts(m) = Hypotheses(m)[i]
    BY FirstApplies
  <2>2. i \in {1, 2, 3, 4, 5, 6, 7}
    BY <2>1
  <2> QED
    BY <2>1, <2>2, HypothesisNumber
<1> QED
  BY <1>1, ClassOfHypothesis

\* The class of every verdict is one of the contract's.
LEMMA VerdictClass ==
    ASSUME NEW m, NEW v \in Verdicts(m)
    PROVE  v.class \in Classes
BY VerdictOrigin, HardFailureOrigin DEF Classes

\* The floor in force is a positive percentage, whatever is configured.
LEMMA FloorPositive == Floor \in 1..100
BY ClassifierAssumption DEF Floor

\* Classify gives no verdict that names a fault below its confidence floor.
THEOREM FaultsAreConfident ==
    ASSUME NEW m, NEW v \in Verdicts(m), v.class \in HardFailureClasses \cup {"Degraded"}
    PROVE  AtLeastPercent(v.confidence, Floor)
<1>1. AtLeastPercent(Certain, Floor)
  BY FloorPositive DEF AtLeastPercent, Certain
<1>2. CASE v.class = "Degraded"
  BY <1>1, <1>2, VerdictOrigin, HardFailureOrigin
<1>3. CASE v \in HardFailureVerdicts(m)
  <2>1. CASE v \in PairLocal(m) \/ v \in PolicyScoped(m)
    BY <1>1, <2>1 DEF PairLocal, PolicyScoped
  <2>2. CASE v \in Isolated(m) \/ v \in Egress(m) \/ v \in Ingress(m)
    <3>1. PICK e1 : Isolated(m) = Blame("NodeIsolated", m, e1)
      BY IsolatedBlames
    <3>2. PICK e2 : Egress(m) = Blame("NodeEgressFailure", m, e2)
      BY EgressBlames
    <3>3. PICK e3 : Ingress(m) = Blame("NodeIngressFailure", m, e3)
      BY IngressBlames
    <3> QED
      BY <2>2, <3>1, <3>2, <3>3, BlameClass
  <2>3. CASE v \in Partition(m)
    BY <2>3 DEF Partition
  <2> QED
    BY <1>3, <2>1, <2>2, <2>3, HardFailureOrigin DEF HardFailureClasses
<1> QED
  BY <1>2, <1>3, VerdictOrigin DEF HardFailureClasses

\* The counts of failures that verdicts compare.
LEMMA CountsFinite ==
    ASSUME NEW m, IsFiniteSet(DOMAIN m), NEW S, S \subseteq Failed(m)
    PROVE  /\ IsFiniteSet(Failed(m)) /\ Cardinality(Failed(m)) \in Nat
           /\ Cardinality(DOMAIN m) \in Nat /\ Cardinality(Failed(m)) <= Cardinality(DOMAIN m)
           /\ Failed(m) # {} => Cardinality(Failed(m)) # 0
           /\ IsFiniteSet(S) /\ Cardinality(S) \in Nat /\ Cardinality(S) <= Cardinality(Failed(m))
<1>1. Failed(m) \subseteq DOMAIN m
  BY DEF Failed
<1>2. IsFiniteSet(Failed(m)) /\ Cardinality(Failed(m)) <= Cardinality(DOMAIN m)
  BY <1>1, FS_Subset
<1>3. IsFiniteSet(S) /\ Cardinality(S) <= Cardinality(Failed(m))
  BY <1>2, FS_Subset
<1> QED
  BY <1>2, <1>3, FS_CardinalityType, FS_EmptySet

\* Every verdict of a finite matrix is well formed: its suspects are nodes of
\* the matrix, and its confidence is a fraction between 0 and 1, never 0/0.
THEOREM VerdictTyped ==
    ASSUME NEW m, IsFiniteSet(DOMAIN m), NEW v \in Verdicts(m)
    PROVE  v \in Verdict(NodesOf(m)) /\ v.confidence.num <= v.confidence.den
<1> DEFINE all == Cardinality(Failed(m))
<1>1. /\ NoConfidence \in Confidence /\ NoConfidence.num <= NoConfidence.den
      /\ Certain \in Confidence /\ Certain.num <= Certain.den
  BY DEF Confidence, NoConfidence, Certain
<1>2. CASE v \in HardFailureVerdicts(m) /\ Failed(m) # {}
  <2>0. all \in Nat \ {0} /\ Cardinality(DOMAIN m) \in Nat \ {0} /\ all <= Cardinality(DOMAIN m)
    BY <1>2, CountsFinite
  <2>1. \A n : /\ Cardinality(Row(Failed(m), n)) \in 0..all
               /\ Cardinality(Col(Failed(m), n)) \in 0..all
    <3> SUFFICES ASSUME NEW n
                 PROVE  /\ Cardinality(Row(Failed(m), n)) \in 0..all
                        /\ Cardinality(Col(Failed(m), n)) \in 0..all
      OBVIOUS
    <3>1. Row(Failed(m), n) \subseteq Failed(m) /\ Col(Failed(m), n) \subseteq Failed(m)
      BY DEF Row, Col
    <3> QED
      BY <3>1, CountsFinite
  <2>2. CASE v \in PairLocal(m)
    <3>1. PICK p \in Failed(m) :
             v = [class |-> "PairLocalFailure", confidence |-> Certain, suspects |-> {p[1], p[2]}]
      BY <2>2 DEF PairLocal
    <3> QED
      BY <3>1, <1>1 DEF Verdict, Classes, NodesOf, Failed
  <2>3. ASSUME NEW class \in Classes, NEW e, v \in Blame(class, m, e),
               DOMAIN e \subseteq NodesOf(m), \A n \in DOMAIN e : e[n] \in 0..all
        PROVE  v \in Verdict(NodesOf(m)) /\ v.confidence.num <= v.confidence.den
    <3>1. PICK n \in DOMAIN e :
             v = [class |-> class, confidence |-> [num |-> e[n], den |-> all], suspects |-> {n}]
      BY <2>3, Blamed
    <3>2. [num |-> e[n], den |-> all] \in Confidence /\ e[n] <= all
      BY <2>0, <2>3 DEF Confidence
    <3> QED
      BY <2>3, <3>1, <3>2 DEF Verdict
  <2>4. CASE v \in Isolated(m)
    <3>1. PICK e : /\ Isolated(m) = Blame("NodeIsolated", m, e)
                   /\ DOMAIN e = {n \in NodesOf(m) : RowDown(m, n) /\ ColDown(m, n)}
                   /\ \A n \in DOMAIN e :
                         e[n] = AtMost(Cardinality(Row(Failed(m), n)) + Cardinality(Col(Failed(m), n)), all)
      BY IsolatedBlames
    <3>2. \A n \in DOMAIN e : e[n] \in 0..all
      BY <2>0, <2>1, <3>1 DEF AtMost
    <3> QED
      BY <2>3, <2>4, <3>1, <3>2 DEF Classes
  <2>5. CASE v \in Egress(m)
    <3>1. PICK e : /\ Egress(m) = Blame("NodeEgressFailure", m, e)
                   /\ DOMAIN e = {n \in NodesOf(m) : RowDown(m, n) /\ ~ColDown(m, n)}
                   /\ \A n \in DOMAIN e : e[n] = Cardinality(Row(Failed(m), n))
      BY EgressBlames
    <3> QED
      BY <2>1, <2>3, <2>5, <3>1 DEF Classes
  <2>6. CASE v \in Ingress(m)
    <3>1. PICK e : /\ Ingress(m) = Blame("NodeIngressFailure", m, e)
                   /\ DOMAIN e = {n \in NodesOf(m) : ColDown(m, n) /\ ~RowDown(m, n)}
                   /\ \A n \in DOMAIN e : e[n] = Cardinality(Col(Failed(m), n))
      BY IngressBlames
    <3> QED
      BY <2>1, <2>3, <2>6, <3>1 DEF Classes
  <2>7. CASE v \in PolicyScoped(m)
    BY <2>7, <1>1 DEF PolicyScoped, Verdict, Classes
  <2>8. FailedFraction(m) \in Confidence /\ FailedFraction(m).num <= FailedFraction(m).den
    BY <2>0 DEF FailedFraction, Confidence
  <2>9. CASE v \in Partition(m) \/ v \in NoHypothesis(m)
    BY <2>9, <2>8 DEF Partition, NoHypothesis, Verdict, Classes
  <2> QED
    BY <1>2, <2>2, <2>4, <2>5, <2>6, <2>7, <2>9, HardFailureOrigin
<1>3. CASE v = [class      |-> "Degraded",
                confidence |-> Certain,
                suspects   |-> {p[1] : p \in Lossy(m)} \cup {p[2] : p \in Lossy(m)}]
  <2>1. Lossy(m) \subseteq DOMAIN m
    BY DEF Lossy
  <2>2. {p[1] : p \in Lossy(m)} \cup {p[2] : p \in Lossy(m)} \subseteq NodesOf(m)
    BY <2>1 DEF NodesOf
  <2> QED
    BY <1>1, <1>3, <2>2 DEF Verdict, Classes
<1>4. CASE \/ v = [class |-> "NoData", confidence |-> NoConfidence, suspects |-> {}]
           \/ v = [class |-> "Unknown", confidence |-> NoConfidence, suspects |-> {}]
           \/ v = [class |-> "Healthy", confidence |-> Certain, suspects |-> {}]
  BY <1>1, <1>4 DEF Verdict, Classes
<1> QED
  BY <1>2, <1>3, <1>4, VerdictOrigin

=============================================================================
