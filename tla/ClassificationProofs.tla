------------------------ MODULE ClassificationProofs ------------------------
(***************************************************************************)
(* The promises of the classifier's verdicts, for every cluster, every     *)
(* matrix of a probe round, every setting of the loss threshold and every  *)
(* confidence floor of at least the documented 80%.                        *)
(***************************************************************************)
EXTENDS Classification, VerdictProofs, WellFoundedInduction

\* The matrices of the rounds: complete over the nodes that have an agent.
RoundMatrix(m) ==
    /\ m \in [DOMAIN m -> Results]
    /\ \E agents \in SUBSET Nodes : \E doubled \in SUBSET agents :
          DOMAIN m = PairsProbed(agents, doubled)

\* The evaluation leaves the matrix alone, and its outcome is what Verdicts gives.
IInv == RoundMatrix(matrix) /\ verdicts \in {{}, Verdicts(matrix)}

\* Classify holds on to the matrix it is given.
THEOREM InductiveInvariant == Spec => []IInv
<1>1. Init => IInv
  <2> SUFFICES ASSUME Init PROVE IInv
    OBVIOUS
  <2>1. PICK agents \in SUBSET Nodes : \E doubled \in SUBSET agents :
           matrix \in [PairsProbed(agents, doubled) -> Results]
    BY DEF Init
  <2>2. PICK doubled \in SUBSET agents : matrix \in [PairsProbed(agents, doubled) -> Results]
    BY <2>1
  <2>3. DOMAIN matrix = PairsProbed(agents, doubled)
    BY <2>2
  <2> QED
    BY <2>2, <2>3 DEF Init, IInv, RoundMatrix
<1>2. IInv /\ [Next]_vars => IInv'
  BY DEF IInv, Next, Evaluate, vars
<1> QED
  BY <1>1, <1>2, PTL DEF Spec

\* The pairs and the nodes of a round.
LEMMA RoundFinite ==
    ASSUME NEW m, RoundMatrix(m)
    PROVE  /\ DOMAIN m \subseteq Nodes \X Nodes /\ IsFiniteSet(DOMAIN m)
           /\ NodesOf(m) \subseteq Nodes /\ IsFiniteSet(NodesOf(m))
           /\ \A p \in DOMAIN m : p = <<p[1], p[2]>> /\ p[1] \in NodesOf(m) /\ p[2] \in NodesOf(m)
<1>1. DOMAIN m \subseteq Nodes \X Nodes
  BY DEF RoundMatrix, PairsProbed
<1>2. IsFiniteSet(Nodes \X Nodes)
  BY ClassificationAssumption, FS_Product
<1>3. IsFiniteSet(DOMAIN m)
  BY <1>1, <1>2, FS_Subset
<1>4. NodesOf(m) \subseteq Nodes
  BY <1>1 DEF NodesOf
<1>5. IsFiniteSet(NodesOf(m))
  BY <1>4, ClassificationAssumption, FS_Subset
<1>6. \A p \in DOMAIN m : p = <<p[1], p[2]>> /\ p[1] \in NodesOf(m) /\ p[2] \in NodesOf(m)
  BY <1>1 DEF NodesOf
<1> QED
  BY <1>1, <1>3, <1>4, <1>5, <1>6

\* With three nodes every pair of nodes was probed, and there is always a
\* node besides any two.
LEMMA ThirdNode ==
    ASSUME NEW m, RoundMatrix(m), AtLeastThreeNodes(m)
    PROVE  /\ \A x, y \in NodesOf(m) : x # y => <<x, y>> \in DOMAIN m
           /\ \A x, y : \E z \in NodesOf(m) : z # x /\ z # y
<1>1. ASSUME NEW x \in NodesOf(m), NEW y \in NodesOf(m), x # y
      PROVE  <<x, y>> \in DOMAIN m
  <2>1. PICK agents \in SUBSET Nodes : \E doubled \in SUBSET agents :
           DOMAIN m = PairsProbed(agents, doubled)
    BY DEF RoundMatrix
  <2>2. x \in agents /\ y \in agents
    BY <2>1 DEF NodesOf, PairsProbed
  <2> QED
    BY <1>1, <2>1, <2>2 DEF PairsProbed
<1>2. ASSUME NEW x, NEW y
      PROVE  \E z \in NodesOf(m) : z # x /\ z # y
  <2> SUFFICES ASSUME NodesOf(m) \subseteq {x, y} PROVE FALSE
    OBVIOUS
  <2>1. IsFiniteSet({x}) /\ Cardinality({x}) = 1
    BY FS_Singleton
  <2>2. IsFiniteSet({x} \cup {y})
          /\ Cardinality({x} \cup {y}) = IF y \in {x} THEN Cardinality({x}) ELSE Cardinality({x}) + 1
    BY <2>1, FS_AddElement
  <2>. {x} \cup {y} = {x, y}
    OBVIOUS
  <2>3. IsFiniteSet({x, y}) /\ Cardinality({x, y}) <= 2 /\ Cardinality({x, y}) \in Nat
    BY <2>1, <2>2
  <2>4. Cardinality(NodesOf(m)) <= Cardinality({x, y})
    BY <2>3, FS_Subset
  <2> QED
    BY <2>3, <2>4, RoundFinite, FS_CardinalityType DEF AtLeastThreeNodes
<1> QED
  BY <1>1, <1>2

-----------------------------------------------------------------------------
\* Every verdict is well formed.
THEOREM ClassificationTypeCorrect == Spec => []TypeOK
<1>1. IInv => TypeOK
  <2> SUFFICES ASSUME IInv PROVE TypeOK
    OBVIOUS
  <2>1. RoundMatrix(matrix)
    BY DEF IInv
  <2>2. \A v \in verdicts : v \in Verdict(NodesOf(matrix)) /\ v.confidence.num <= v.confidence.den
    BY <2>1, RoundFinite, VerdictTyped DEF IInv
  <2> QED
    BY <2>1, <2>2, RoundFinite DEF TypeOK, RoundMatrix
<1> QED
  BY <1>1, InductiveInvariant, PTL

\* A row or a column that is down has no pair that succeeded.
LEMMA DownMeans ==
    ASSUME NEW m, NEW n, NEW p \in DOMAIN m
    PROVE  /\ RowDown(m, n) /\ p[1] = n => ~m[p].success
           /\ ColDown(m, n) /\ p[2] = n => ~m[p].success
BY DEF RowDown, ColDown, Row, Col, Failed

\* An isolated node is cut off in both directions, and with its row and its
\* column explains enough of the failures.
LEMMA IsolatedNode ==
    ASSUME NEW m, IsFiniteSet(DOMAIN m), NEW v \in Isolated(m)
    PROVE  \E n \in NodesOf(m) :
              /\ v.class = "NodeIsolated" /\ v.suspects = {n} /\ RowDown(m, n) /\ ColDown(m, n)
              /\ 100 * (Cardinality(Row(Failed(m), n)) + Cardinality(Col(Failed(m), n)))
                    >= Floor * Cardinality(Failed(m))
<1> DEFINE F == Failed(m)
<1>1. PICK e : /\ Isolated(m) = Blame("NodeIsolated", m, e)
               /\ DOMAIN e = {n \in NodesOf(m) : RowDown(m, n) /\ ColDown(m, n)}
               /\ \A n \in DOMAIN e :
                     e[n] = AtMost(Cardinality(Row(F, n)) + Cardinality(Col(F, n)), Cardinality(F))
  BY IsolatedBlames
<1>2. PICK n \in DOMAIN e :
         /\ v = [class      |-> "NodeIsolated",
                 confidence |-> [num |-> e[n], den |-> Cardinality(F)], suspects |-> {n}]
         /\ AtLeastPercent(v.confidence, Floor)
  BY <1>1, Blamed
<1>3. 100 * e[n] >= Floor * Cardinality(F) /\ v.class = "NodeIsolated" /\ v.suspects = {n}
  BY <1>2 DEF AtLeastPercent
<1>4. Row(F, n) \subseteq F /\ Col(F, n) \subseteq F
  BY DEF Row, Col
<1>5. /\ Cardinality(Row(F, n)) \in Nat /\ Cardinality(Col(F, n)) \in Nat
      /\ Cardinality(F) \in Nat
  BY <1>4, CountsFinite
<1>6. 100 * (Cardinality(Row(F, n)) + Cardinality(Col(F, n))) >= Floor * Cardinality(F)
  BY <1>1, <1>3, <1>5, FloorPositive DEF AtMost
<1> QED
  BY <1>1, <1>3, <1>6

\* A node that cannot send explains enough of the failures with its row.
LEMMA EgressNode ==
    ASSUME NEW m, NEW v \in Egress(m)
    PROVE  \E n \in NodesOf(m) :
              /\ v.class = "NodeEgressFailure" /\ v.suspects = {n} /\ RowDown(m, n) /\ ~ColDown(m, n)
              /\ 100 * Cardinality(Row(Failed(m), n)) >= Floor * Cardinality(Failed(m))
<1>1. PICK e : /\ Egress(m) = Blame("NodeEgressFailure", m, e)
               /\ DOMAIN e = {n \in NodesOf(m) : RowDown(m, n) /\ ~ColDown(m, n)}
               /\ \A n \in DOMAIN e : e[n] = Cardinality(Row(Failed(m), n))
  BY EgressBlames
<1>2. PICK n \in DOMAIN e :
         /\ v = [class      |-> "NodeEgressFailure",
                 confidence |-> [num |-> e[n], den |-> Cardinality(Failed(m))], suspects |-> {n}]
         /\ AtLeastPercent(v.confidence, Floor)
  BY <1>1, Blamed
<1> QED
  BY <1>1, <1>2 DEF AtLeastPercent

\* A node that cannot be reached explains enough of them with its column.
LEMMA IngressNode ==
    ASSUME NEW m, NEW v \in Ingress(m)
    PROVE  \E n \in NodesOf(m) :
              /\ v.class = "NodeIngressFailure" /\ v.suspects = {n} /\ ColDown(m, n) /\ ~RowDown(m, n)
              /\ 100 * Cardinality(Col(Failed(m), n)) >= Floor * Cardinality(Failed(m))
<1>1. PICK e : /\ Ingress(m) = Blame("NodeIngressFailure", m, e)
               /\ DOMAIN e = {n \in NodesOf(m) : ColDown(m, n) /\ ~RowDown(m, n)}
               /\ \A n \in DOMAIN e : e[n] = Cardinality(Col(Failed(m), n))
  BY IngressBlames
<1>2. PICK n \in DOMAIN e :
         /\ v = [class      |-> "NodeIngressFailure",
                 confidence |-> [num |-> e[n], den |-> Cardinality(Failed(m))], suspects |-> {n}]
         /\ AtLeastPercent(v.confidence, Floor)
  BY <1>1, Blamed
<1> QED
  BY <1>1, <1>2 DEF AtLeastPercent

\* Of finitely many counts one is the greatest.
LEMMA GreatestCount ==
    ASSUME NEW S, S # {}, NEW f, NEW N \in Nat, \A c \in S : f[c] \in 0..N
    PROVE  \E c \in S : \A d \in S : f[d] <= f[c]
<1> DEFINE T == {N - f[c] : c \in S}
<1>1. T \subseteq Nat /\ T # {}
  OBVIOUS
<1>2. \E x \in T : \A y \in T : ~(<<y, x>> \in OpToRel(<, Nat))
  <2> HIDE DEF T
  <2> QED
    BY <1>1, WFMin, NatLessThanWellFounded, Zenon
<1>3. PICK x \in T : \A y \in T : ~(<<y, x>> \in OpToRel(<, Nat))
  BY <1>2
<1>4. \A y \in T : ~(y < x)
  BY <1>1, <1>3, Zenon DEF OpToRel
<1>5. PICK c \in S : x = N - f[c]
  OBVIOUS
<1>6. ASSUME NEW d \in S PROVE f[d] <= f[c]
  <2>1. ~(N - f[d] < N - f[c])
    BY <1>4, <1>5
  <2>2. f[d] \in 0..N /\ f[c] \in 0..N
    OBVIOUS
  <2> QED
    BY <2>1, <2>2
<1> QED
  BY <1>6

\* If some candidate explains the floor's share of the failures, one is blamed.
LEMMA SomeoneBlamed ==
    ASSUME NEW class, NEW m, NEW explained, NEW c \in DOMAIN explained,
           Cardinality(Failed(m)) \in Nat,
           \A d \in DOMAIN explained : explained[d] \in 0..Cardinality(Failed(m)),
           100 * explained[c] >= Floor * Cardinality(Failed(m))
    PROVE  Blame(class, m, explained) # {}
<1> DEFINE verdict(d) == [class      |-> class,
                          confidence |-> [num |-> explained[d], den |-> Cardinality(Failed(m))],
                          suspects   |-> {d}]
           best == {b \in DOMAIN explained :
                      /\ AtLeastPercent(verdict(b).confidence, Floor)
                      /\ \A d \in DOMAIN explained : explained[d] <= explained[b]}
<1>1. Blame(class, m, explained) = {verdict(b) : b \in best}
  BY DEF Blame
<1>2. PICK b \in DOMAIN explained : \A d \in DOMAIN explained : explained[d] <= explained[b]
  BY GreatestCount
<1>3. 100 * explained[b] >= Floor * Cardinality(Failed(m))
  <2>1. explained[c] <= explained[b] /\ explained[b] \in Nat /\ explained[c] \in Nat
    BY <1>2
  <2> HIDE DEF best, verdict
  <2>2. 100 * explained[b] >= 100 * explained[c]
    BY <2>1
  <2>3. Floor * Cardinality(Failed(m)) \in Int
    BY FloorPositive
  <2> QED
    BY <2>1, <2>2, <2>3
<1>4. AtLeastPercent(verdict(b).confidence, Floor)
  BY <1>3 DEF AtLeastPercent
<1> QED
  BY <1>1, <1>2, <1>4

\* Only the last hypothesis says Unknown.
LEMMA HypothesisClasses ==
    ASSUME NEW m, NEW i \in 1..7, NEW v \in Hypotheses(m)[i], v.class = "Unknown"
    PROVE  i = 7
<1>1. i \in {1, 2, 3, 4, 5, 6, 7}
  OBVIOUS
<1>2. \/ v \in PairLocal(m) \/ v \in Isolated(m) \/ v \in Egress(m) \/ v \in Ingress(m)
      \/ v \in PolicyScoped(m) \/ v \in Partition(m) \/ i = 7
  BY <1>1, HypothesisNumber
<1> QED
  BY <1>2, ClassOfHypothesis

\* The verdict that no hypothesis holds is given only if none does.
LEMMA Unaccounted ==
    ASSUME NEW m, RoundMatrix(m), Failed(m) # {},
           NEW v \in HardFailureVerdicts(m), v.class = "Unknown"
    PROVE  ~Explained(m)
<1> DEFINE F == Failed(m)
<1>1. PICK i \in 1..7 : /\ HardFailureVerdicts(m) = Hypotheses(m)[i]
                       /\ \A j \in 1..(i - 1) : Hypotheses(m)[j] = {}
  BY FirstApplies
<1>2. i = 7
  BY <1>1, HypothesisNumber, HypothesisClasses
<1>3. PairLocal(m) = {} /\ Isolated(m) = {} /\ Egress(m) = {} /\ Ingress(m) = {} /\ Partition(m) = {}
  <2>1. 1 \in 1..6 /\ 2 \in 1..6 /\ 3 \in 1..6 /\ 4 \in 1..6 /\ 6 \in 1..6
    OBVIOUS
  <2> QED
    BY <1>1, <1>2, <2>1, HypothesisNumber
<1>4. IsFiniteSet(DOMAIN m) /\ IsFiniteSet(F) /\ Cardinality(F) \in Nat /\ Cardinality(F) # 0
  BY RoundFinite, CountsFinite, FS_EmptySet, FS_CardinalityType
<1>5. ASSUME NEW n \in NodesOf(m), NEW probes \in {Row(DOMAIN m, n), Col(DOMAIN m, n)},
             probes # {}, probes \subseteq F, 100 * Cardinality(probes) >= Floor * Cardinality(F)
      PROVE  FALSE
  <2>1. /\ \A k : Row(F, k) \subseteq F /\ Col(F, k) \subseteq F
        /\ \A k : Cardinality(Row(F, k)) \in 0..Cardinality(F) /\ Cardinality(Col(F, k)) \in 0..Cardinality(F)
    <3>1. \A k : Row(F, k) \subseteq F /\ Col(F, k) \subseteq F
      BY DEF Row, Col
    <3>2. ASSUME NEW S, S \subseteq F PROVE Cardinality(S) \in 0..Cardinality(F)
      BY <1>4, <3>2, FS_Subset, FS_CardinalityType
    <3> QED
      BY <3>1, <3>2
  <2>2. PICK e : /\ Isolated(m) = Blame("NodeIsolated", m, e)
                 /\ DOMAIN e = {k \in NodesOf(m) : RowDown(m, k) /\ ColDown(m, k)}
                 /\ \A k \in DOMAIN e :
                       e[k] = AtMost(Cardinality(Row(F, k)) + Cardinality(Col(F, k)), Cardinality(F))
    BY IsolatedBlames
  <2>3. ASSUME RowDown(m, n), ColDown(m, n),
               \/ 100 * Cardinality(Row(F, n)) >= Floor * Cardinality(F)
               \/ 100 * Cardinality(Col(F, n)) >= Floor * Cardinality(F)
        PROVE  FALSE
    <3>1. n \in DOMAIN e
      BY <2>2, <2>3
    <3>2. \A k \in DOMAIN e : e[k] \in 0..Cardinality(F)
      <4> SUFFICES ASSUME NEW k \in DOMAIN e PROVE e[k] \in 0..Cardinality(F)
        OBVIOUS
      <4>1. e[k] = AtMost(Cardinality(Row(F, k)) + Cardinality(Col(F, k)), Cardinality(F))
        BY <2>2
      <4>2. Cardinality(Row(F, k)) \in Nat /\ Cardinality(Col(F, k)) \in Nat
        BY <2>1
      <4> QED
        BY <1>4, <4>1, <4>2 DEF AtMost
    <3>3. 100 * e[n] >= Floor * Cardinality(F)
      <4>1. e[n] = AtMost(Cardinality(Row(F, n)) + Cardinality(Col(F, n)), Cardinality(F))
        BY <2>2, <3>1
      <4>2. Cardinality(Row(F, n)) \in Nat /\ Cardinality(Col(F, n)) \in Nat
        BY <2>1
      <4>3. 100 * Cardinality(F) >= Floor * Cardinality(F)
        BY <1>4, FloorPositive
      <4> HIDE DEF F
      <4>4. Floor * Cardinality(F) \in Int
        BY <1>4, FloorPositive
      <4> QED
        BY <1>4, <2>3, <4>1, <4>2, <4>3, <4>4 DEF AtMost
    <3> QED
      BY <1>3, <1>4, <2>2, <3>1, <3>2, <3>3, SomeoneBlamed
  <2>4. CASE probes = Row(DOMAIN m, n)
    <3>1. RowDown(m, n) /\ probes = Row(F, n)
      BY <1>5, <2>4 DEF RowDown, Row, Failed
    <3>2. ~ColDown(m, n)
      BY <1>5, <2>3, <3>1
    <3>3. PICK o : /\ Egress(m) = Blame("NodeEgressFailure", m, o)
                   /\ DOMAIN o = {k \in NodesOf(m) : RowDown(m, k) /\ ~ColDown(m, k)}
                   /\ \A k \in DOMAIN o : o[k] = Cardinality(Row(F, k))
      BY EgressBlames
    <3>4. n \in DOMAIN o
      BY <3>1, <3>2, <3>3
    <3>5. 100 * o[n] >= Floor * Cardinality(F)
      BY <1>5, <3>1, <3>3, <3>4
    <3>6. \A k \in DOMAIN o : o[k] \in 0..Cardinality(F)
      BY <2>1, <3>3
    <3> QED
      BY <1>3, <1>4, <3>3, <3>4, <3>5, <3>6, SomeoneBlamed
  <2>5. CASE probes = Col(DOMAIN m, n)
    <3>1. ColDown(m, n) /\ probes = Col(F, n)
      BY <1>5, <2>5 DEF ColDown, Col, Failed
    <3>2. ~RowDown(m, n)
      BY <1>5, <2>3, <3>1
    <3>3. PICK o : /\ Ingress(m) = Blame("NodeIngressFailure", m, o)
                   /\ DOMAIN o = {k \in NodesOf(m) : ColDown(m, k) /\ ~RowDown(m, k)}
                   /\ \A k \in DOMAIN o : o[k] = Cardinality(Col(F, k))
      BY IngressBlames
    <3>4. n \in DOMAIN o
      BY <3>1, <3>2, <3>3
    <3>5. 100 * o[n] >= Floor * Cardinality(F)
      BY <1>5, <3>1, <3>3, <3>4
    <3>6. \A k \in DOMAIN o : o[k] \in 0..Cardinality(F)
      BY <2>1, <3>3
    <3> QED
      BY <1>3, <1>4, <3>3, <3>4, <3>5, <3>6, SomeoneBlamed
  <2> QED
    BY <2>4, <2>5
<1>6. ASSUME Cardinality(F) = 1 PROVE FALSE
  <2>1. PICK p : F = {p}
    BY <1>4, <1>6, FS_Singleton
  <2>2. p \in DOMAIN m /\ p[1] \in NodesOf(m) /\ p[2] \in NodesOf(m)
    BY <2>1, RoundFinite DEF Failed
  <2>3. RowDown(m, p[1]) \/ ColDown(m, p[2])
    BY <1>3, <2>1 DEF PairLocal
  <2>4. \E n \in NodesOf(m) : \E probes \in {Row(DOMAIN m, n), Col(DOMAIN m, n)} :
           probes # {} /\ probes \subseteq F
    BY <2>2, <2>3 DEF RowDown, ColDown
  <2>5. PICK n \in NodesOf(m) : \E probes \in {Row(DOMAIN m, n), Col(DOMAIN m, n)} :
           probes # {} /\ probes \subseteq F
    BY <2>4
  <2>6. PICK probes \in {Row(DOMAIN m, n), Col(DOMAIN m, n)} : probes # {} /\ probes \subseteq F
    BY <2>5
  <2>7. probes = F
    BY <2>1, <2>6
  <2>8. 100 * Cardinality(probes) >= Floor * Cardinality(F)
    BY <1>6, <2>7, FloorPositive
  <2> QED
    BY <1>5, <2>6, <2>8
<1>7. ~(100 * Cardinality(F) >= Floor * Cardinality(DOMAIN m))
  BY <1>3 DEF Partition, AtLeastPercent, FailedFraction
<1> QED
  BY <1>5, <1>6, <1>7 DEF Explained

\* Each verdict is true of its matrix.
LEMMA TrueVerdict ==
    ASSUME NEW m, RoundMatrix(m), NEW v \in Verdicts(m)
    PROVE  Means(v, m) /\ (AgentErrors(m) # {} => v.class = "Unknown")
<1>1. IsFiniteSet(DOMAIN m) /\ IsFiniteSet(Failed(m))
  BY RoundFinite, CountsFinite
<1>3. AgentErrors(m) # {} => v.class = "Unknown"
  <2>1. AgentErrors(m) # {} => DOMAIN m # {}
    BY DEF AgentErrors
  <2> QED
    BY <2>1, VerdictOrigin
<1> SUFFICES Means(v, m)
  BY <1>3
<1>4. CASE v.class = "NoData"
  BY <1>4, VerdictOrigin, HardFailureOrigin DEF Means
<1>5. CASE v.class = "Unknown"
  <2>1. AgentErrors(m) # {} \/ (Failed(m) # {} /\ v \in HardFailureVerdicts(m))
    BY <1>5, VerdictOrigin
  <2> QED
    BY <1>5, <2>1, Unaccounted DEF Means
<1>6. CASE v.class = "Healthy"
  <2>1. Failed(m) = {} /\ Lossy(m) = {}
    BY <1>6, VerdictOrigin, HardFailureOrigin
  <2>2. \A p \in DOMAIN m : m[p].loss \in Int
    BY ClassificationAssumption DEF RoundMatrix, ProbeResult
  <2>3. \A p \in DOMAIN m : m[p].success /\ m[p].loss < LossThreshold
    BY <2>1, <2>2, ClassifierAssumption DEF Failed, Lossy, LossThreshold
  <2> QED
    BY <1>6, <2>3 DEF Means
<1>7. CASE v.class = "Degraded"
  BY <1>7, VerdictOrigin, HardFailureOrigin DEF Means
<1>8. CASE v.class = "PairLocalFailure"
  <2>1. v \in PairLocal(m)
    BY <1>8, VerdictOrigin, HardFailureOrigin
  <2>2. \E p \in Failed(m) : Failed(m) = {p}
    BY <2>1 DEF PairLocal
  <2> QED
    BY <1>8, <2>2 DEF Means
<1>9. CASE v.class = "NodeIsolated"
  <2>1. v \in Isolated(m)
    BY <1>9, VerdictOrigin, HardFailureOrigin
  <2>2. PICK n : v.suspects = {n} /\ RowDown(m, n) /\ ColDown(m, n)
    BY <1>1, <2>1, IsolatedNode
  <2> QED
    BY <1>9, <2>2, DownMeans DEF Means
<1>10. CASE v.class = "NodeEgressFailure"
  <2>1. v \in Egress(m)
    BY <1>10, VerdictOrigin, HardFailureOrigin
  <2>2. PICK n : v.suspects = {n} /\ RowDown(m, n)
    BY <1>1, <2>1, EgressNode
  <2> QED
    BY <1>10, <2>2, DownMeans DEF Means
<1>11. CASE v.class = "NodeIngressFailure"
  <2>1. v \in Ingress(m)
    BY <1>11, VerdictOrigin, HardFailureOrigin
  <2>2. PICK n : v.suspects = {n} /\ ColDown(m, n)
    BY <1>1, <2>1, IngressNode
  <2> QED
    BY <1>11, <2>2, DownMeans DEF Means
<1>12. CASE v.class = "PolicyScopedFailure"
  <2>1. v \in PolicyScoped(m)
    BY <1>12, VerdictOrigin, HardFailureOrigin
  <2>2. \A p \in DOMAIN m : ~m[p].success /\ m[p].error = "refused"
    BY <2>1 DEF PolicyScoped
  <2>3. Refused(m) = DOMAIN m
    BY <2>2 DEF Refused, Failed
  <2> QED
    BY <1>12, <2>3 DEF Means
<1>13. CASE v.class = "ClusterPartition"
  <2>1. v \in Partition(m)
    BY <1>13, VerdictOrigin, HardFailureOrigin
  <2>2. 100 * Cardinality(Failed(m)) >= Floor * Cardinality(DOMAIN m)
    BY <2>1 DEF Partition, AtLeastPercent, FailedFraction
  <2>3. Cardinality(Failed(m)) \in Nat /\ Cardinality(DOMAIN m) \in Nat
    BY <1>1, FS_CardinalityType
  <2>4. Floor * Cardinality(DOMAIN m) >= 80 * Cardinality(DOMAIN m)
    BY <2>3, FloorPositive, FloorAssumption
  <2>5. 5 * Cardinality(Failed(m)) >= 4 * Cardinality(DOMAIN m)
    BY <2>2, <2>3, <2>4, FloorPositive
  <2> QED
    BY <1>13, <2>5 DEF Means
<1> QED
  BY <1>4, <1>5, <1>6, <1>7, <1>8, <1>9, <1>10, <1>11, <1>12, <1>13, VerdictClass DEF Classes

\* Classify never says what its documentation does not mean by the class.
THEOREM VerdictsTrue == Spec => []VerdictsAreTrue
<1>1. IInv => VerdictsAreTrue
  BY TrueVerdict DEF IInv, VerdictsAreTrue
<1> QED
  BY <1>1, InductiveInvariant, PTL

-----------------------------------------------------------------------------
\* Cardinalities of disjoint sets add up.
LEMMA DisjointUnion ==
    ASSUME NEW S, NEW T, IsFiniteSet(S), IsFiniteSet(T), S \cap T = {}
    PROVE  /\ IsFiniteSet(S \cup T)
           /\ Cardinality(S \cup T) = Cardinality(S) + Cardinality(T)
<1>1. IsFiniteSet(S \cup T)
        /\ Cardinality(S \cup T) = Cardinality(S) + Cardinality(T) - Cardinality(S \cap T)
  BY FS_Union
<1>2. Cardinality(S \cap T) = 0
  BY FS_EmptySet
<1>3. Cardinality(S) \in Nat /\ Cardinality(T) \in Nat
  BY FS_CardinalityType
<1> QED
  BY <1>1, <1>2, <1>3

\* Two disjoint sets of failures cannot both reach the floor.
LEMMA FloorsDisjoint ==
    ASSUME NEW m, IsFiniteSet(Failed(m)), NEW S, NEW T, S \subseteq Failed(m), T \subseteq Failed(m),
           100 * Cardinality(S) >= Floor * Cardinality(Failed(m)),
           100 * Cardinality(T) >= Floor * Cardinality(Failed(m)),
           S \cap T = {}
    PROVE  Failed(m) = {}
<1> DEFINE all == Cardinality(Failed(m))
<1>1. /\ IsFiniteSet(S) /\ IsFiniteSet(T) /\ all \in Nat
      /\ Cardinality(S) \in Nat /\ Cardinality(T) \in Nat
  BY FS_Subset, FS_CardinalityType
<1>2. Cardinality(S \cup T) = Cardinality(S) + Cardinality(T)
  BY <1>1, DisjointUnion
<1>3. Cardinality(S \cup T) <= all
  BY FS_Subset
<1>4. Floor * all >= 80 * all
  BY <1>1, FloorPositive, FloorAssumption
<1>5. all = 0
  BY <1>1, <1>2, <1>3, <1>4, FloorPositive
<1> QED
  BY <1>5, FS_EmptySet

\* Sets of four.
LEMMA FourElements ==
    ASSUME NEW a, NEW b, NEW c, NEW d
    PROVE  /\ IsFiniteSet({a, b, c, d}) /\ Cardinality({a, b, c, d}) <= 4
           /\ Cardinality({a, b, c, d}) \in Nat
           /\ (a # b /\ a # c /\ a # d /\ b # c /\ b # d /\ c # d => Cardinality({a, b, c, d}) = 4)
<1>1. IsFiniteSet({a}) /\ Cardinality({a}) = 1
  BY FS_Singleton
<1>2. IsFiniteSet({a} \cup {b})
        /\ Cardinality({a} \cup {b}) = IF b \in {a} THEN Cardinality({a}) ELSE Cardinality({a}) + 1
  BY <1>1, FS_AddElement
<1> DEFINE two == {a} \cup {b}
<1>3. IsFiniteSet(two \cup {c})
        /\ Cardinality(two \cup {c}) = IF c \in two THEN Cardinality(two) ELSE Cardinality(two) + 1
  BY <1>2, FS_AddElement
<1> DEFINE three == two \cup {c}
<1>4. IsFiniteSet(three \cup {d})
        /\ Cardinality(three \cup {d}) = IF d \in three THEN Cardinality(three) ELSE Cardinality(three) + 1
  BY <1>3, FS_AddElement
<1>5. three \cup {d} = {a, b, c, d}
  OBVIOUS
<1>6. /\ b \in {a} <=> b = a
      /\ c \in two <=> c = a \/ c = b
      /\ d \in three <=> d = a \/ d = b \/ d = c
  OBVIOUS
<1> HIDE DEF two, three
<1>7. Cardinality(two) \in 1..2 /\ (a # b => Cardinality(two) = 2)
  BY <1>1, <1>2, <1>6 DEF two
<1>8. Cardinality(three) \in 1..3 /\ (a # b /\ a # c /\ b # c => Cardinality(three) = 3)
  BY <1>3, <1>6, <1>7 DEF three
<1> DEFINE four == three \cup {d}
<1>9. IsFiniteSet(four) /\ Cardinality(four) = IF d \in three THEN Cardinality(three) ELSE Cardinality(three) + 1
  BY <1>4
<1>10. four = {a, b, c, d}
  BY <1>5
<1> HIDE DEF four
<1>11. Cardinality(four) \in 1..4 /\ IsFiniteSet(four)
  BY <1>8, <1>9
<1>12. a # b /\ a # c /\ a # d /\ b # c /\ b # d /\ c # d => Cardinality(four) = 4
  BY <1>6, <1>8, <1>9
<1> QED
  BY <1>10, <1>11, <1>12

\* At most one node can be cut off from three or more: what two isolated
\* nodes have in common are the failures between them, at most four, and a
\* third node adds four that only one of them explains.
LEMMA OneIsolated ==
    ASSUME NEW m, RoundMatrix(m), AtLeastThreeNodes(m), Failed(m) # {},
           NEW c \in NodesOf(m), NEW d \in NodesOf(m),
           RowDown(m, c), ColDown(m, c), RowDown(m, d), ColDown(m, d),
           100 * (Cardinality(Row(Failed(m), c)) + Cardinality(Col(Failed(m), c)))
               >= Floor * Cardinality(Failed(m)),
           100 * (Cardinality(Row(Failed(m), d)) + Cardinality(Col(Failed(m), d)))
               >= Floor * Cardinality(Failed(m))
    PROVE  c = d
<1> SUFFICES ASSUME c # d PROVE FALSE
  OBVIOUS
<1> DEFINE F == Failed(m)
           Rc == Row(F, c)   Cc == Col(F, c)
           Rd == Row(F, d)   Cd == Col(F, d)
           D  == {p \in F : p[1] \in {c, d} /\ p[2] \in {c, d}}
<1>1. IsFiniteSet(F) /\ \A S \in SUBSET F : IsFiniteSet(S) /\ Cardinality(S) \in Nat
                                              /\ Cardinality(S) <= Cardinality(F)
  BY RoundFinite, CountsFinite, FS_Subset, FS_CardinalityType
<1>2. Cardinality(F) \in Nat
  BY <1>1, FS_CardinalityType
<1>3. /\ Rc \in SUBSET F /\ Cc \in SUBSET F /\ Rd \in SUBSET F /\ Cd \in SUBSET F
      /\ D \in SUBSET F /\ F \subseteq DOMAIN m
  BY DEF Row, Col, Failed
<1>4. \A p \in F : p = <<p[1], p[2]>>
  BY <1>3, RoundFinite
<1>5. PICK e \in NodesOf(m) : e # c /\ e # d
  BY ThirdNode
<1>6. /\ \A x \in NodesOf(m) : x # c => <<c, x>> \in F /\ <<x, c>> \in F
      /\ \A x \in NodesOf(m) : x # d => <<d, x>> \in F /\ <<x, d>> \in F
  BY ThirdNode DEF RowDown, ColDown, Row, Col
\* Rows are disjoint, columns are disjoint; a row and a column share what is
\* between the two nodes.
<1>7. Cardinality(Rc \cup Rd) = Cardinality(Rc) + Cardinality(Rd)
  <2>1. Rc \cap Rd = {}
    BY DEF Row
  <2> QED
    BY <1>1, <1>3, <2>1, DisjointUnion
<1>8. Cardinality(Cc \cup Cd) = Cardinality(Cc) + Cardinality(Cd)
  <2>1. Cc \cap Cd = {}
    BY DEF Col
  <2> QED
    BY <1>1, <1>3, <2>1, DisjointUnion
<1>9. Cardinality(Rc \cup Rd) + Cardinality(Cc \cup Cd) <= Cardinality(F) + Cardinality(D)
  <2>1. (Rc \cup Rd) \cap (Cc \cup Cd) = D
    BY DEF Row, Col
  <2>2. (Rc \cup Rd) \in SUBSET F /\ (Cc \cup Cd) \in SUBSET F
          /\ ((Rc \cup Rd) \cup (Cc \cup Cd)) \in SUBSET F
    BY <1>3
  <2> HIDE DEF F, Rc, Rd, Cc, Cd, D
  <2>3. Cardinality((Rc \cup Rd) \cup (Cc \cup Cd))
          = Cardinality(Rc \cup Rd) + Cardinality(Cc \cup Cd) - Cardinality(D)
    BY <1>1, <2>1, <2>2, FS_Union
  <2> QED
    BY <1>1, <1>2, <1>3, <2>2, <2>3
<1>10. Cardinality(D) <= 4
  <2>1. D \subseteq {<<c, c>>, <<c, d>>, <<d, c>>, <<d, d>>}
    BY <1>4
  <2> DEFINE among == {<<c, c>>, <<c, d>>, <<d, c>>, <<d, d>>}
  <2>2. IsFiniteSet(among) /\ Cardinality(among) <= 4 /\ Cardinality(among) \in Nat
    BY FourElements
  <2>3. Cardinality(D) \in Nat
    BY <1>1, <1>3
  <2> HIDE DEF D, among
  <2>4. Cardinality(D) <= Cardinality(among)
    BY <2>1, <2>2, FS_Subset DEF among
  <2> QED
    BY <2>2, <2>3, <2>4
<1>11. Cardinality(D) + 4 <= Cardinality(F)
  <2> DEFINE X == {<<c, e>>, <<e, c>>, <<d, e>>, <<e, d>>}
  <2>1. Cardinality(X) = 4 /\ IsFiniteSet(X)
    <3>1. /\ <<c, e>> # <<e, c>> /\ <<c, e>> # <<d, e>> /\ <<c, e>> # <<e, d>>
          /\ <<e, c>> # <<d, e>> /\ <<e, c>> # <<e, d>> /\ <<d, e>> # <<e, d>>
      BY <1>5
    <3> QED
      BY <3>1, FourElements
  <2>2. X \cap D = {} /\ X \cup D \in SUBSET F
    <3>1. X \subseteq F
      BY <1>5, <1>6
    <3>2. X \cap D = {}
      BY <1>5
    <3> QED
      BY <3>1, <3>2, <1>3
  <2> HIDE DEF X, D, F
  <2>3. Cardinality(X \cup D) = Cardinality(X) + Cardinality(D)
    BY <2>1, <2>2, <1>1, <1>3, DisjointUnion
  <2> QED
    BY <1>1, <2>1, <2>2, <2>3
<1>12. Floor * Cardinality(F) >= 80 * Cardinality(F)
  BY <1>2, FloorPositive, FloorAssumption
<1> HIDE DEF F, Rc, Rd, Cc, Cd, D
<1>13. 100 * (Cardinality(Rc) + Cardinality(Cc)) >= 80 * Cardinality(F)
  <2>1. 100 * (Cardinality(Rc) + Cardinality(Cc)) >= Floor * Cardinality(F)
    BY DEF F, Rc, Cc
  <2> QED
    BY <2>1, <1>1, <1>2, <1>3, <1>12, FloorPositive
<1>14. 100 * (Cardinality(Rd) + Cardinality(Cd)) >= 80 * Cardinality(F)
  <2>1. 100 * (Cardinality(Rd) + Cardinality(Cd)) >= Floor * Cardinality(F)
    BY DEF F, Rd, Cd
  <2> QED
    BY <2>1, <1>1, <1>2, <1>3, <1>12, FloorPositive
<1>15. /\ Cardinality(Rc) \in Nat /\ Cardinality(Rd) \in Nat /\ Cardinality(Cc) \in Nat
       /\ Cardinality(Cd) \in Nat /\ Cardinality(D) \in Nat
  BY <1>1, <1>3
<1> QED
  BY <1>2, <1>7, <1>8, <1>9, <1>10, <1>11, <1>13, <1>14, <1>15

\* On three or more nodes no node's row and another one's, nor its column and
\* another's, reach the floor together: one verdict at most.
LEMMA OneVerdict ==
    ASSUME NEW m, RoundMatrix(m), AtLeastThreeNodes(m),
           NEW v \in Verdicts(m), NEW w \in Verdicts(m)
    PROVE  v = w
<1> DEFINE F == Failed(m)
<1>0. IsFiniteSet(F) /\ IsFiniteSet(DOMAIN m)
  BY RoundFinite, CountsFinite
<1>1. CASE ~(DOMAIN m # {} /\ AgentErrors(m) = {} /\ F # {})
  <2>1. CASE DOMAIN m = {}
    BY <2>1 DEF Verdicts
  <2>2. CASE DOMAIN m # {} /\ AgentErrors(m) # {}
    BY <2>2 DEF Verdicts
  <2>3. CASE DOMAIN m # {} /\ AgentErrors(m) = {} /\ F = {}
    <3>1. CASE Lossy(m) = {}
      BY <2>3, <3>1 DEF Verdicts
    <3>2. CASE Lossy(m) # {}
      BY <2>3, <3>2 DEF Verdicts
    <3> QED
      BY <3>1, <3>2
  <2> QED
    BY <1>1, <2>1, <2>2, <2>3
<1>2. CASE DOMAIN m # {} /\ AgentErrors(m) = {} /\ F # {}
  <2>1. PICK i \in 1..7 : HardFailureVerdicts(m) = Hypotheses(m)[i]
    BY FirstApplies
  <2>2. v \in Hypotheses(m)[i] /\ w \in Hypotheses(m)[i]
    BY <1>2, <2>1, VerdictOrigin
  <2>3. CASE i = 1
    <3>1. v \in PairLocal(m) /\ w \in PairLocal(m)
      BY <2>2, <2>3, HypothesisNumber
    <3>2. PICK p : /\ Failed(m) = {p}
                   /\ v = [class |-> "PairLocalFailure", confidence |-> Certain, suspects |-> {p[1], p[2]}]
      BY <3>1 DEF PairLocal
    <3>3. PICK q : /\ Failed(m) = {q}
                   /\ w = [class |-> "PairLocalFailure", confidence |-> Certain, suspects |-> {q[1], q[2]}]
      BY <3>1 DEF PairLocal
    <3>4. p = q
      BY <3>2, <3>3
    <3> QED
      BY <3>2, <3>3, <3>4
  <2>4. CASE i = 2
    <3>1. PICK e : /\ Isolated(m) = Blame("NodeIsolated", m, e)
                   /\ DOMAIN e = {n \in NodesOf(m) : RowDown(m, n) /\ ColDown(m, n)}
                   /\ \A n \in DOMAIN e :
                         e[n] = AtMost(Cardinality(Row(F, n)) + Cardinality(Col(F, n)), Cardinality(F))
      BY IsolatedBlames
    <3>2. \A n \in DOMAIN e : 100 * e[n] >= Floor * Cardinality(F) =>
             100 * (Cardinality(Row(F, n)) + Cardinality(Col(F, n))) >= Floor * Cardinality(F)
      <4> SUFFICES ASSUME NEW n \in DOMAIN e
                   PROVE  100 * e[n] >= Floor * Cardinality(F) =>
             100 * (Cardinality(Row(F, n)) + Cardinality(Col(F, n))) >= Floor * Cardinality(F)
        OBVIOUS
      <4>1. Row(F, n) \subseteq F /\ Col(F, n) \subseteq F
        BY DEF Row, Col
      <4>2. /\ Cardinality(Row(F, n)) \in Nat /\ Cardinality(Col(F, n)) \in Nat
            /\ Cardinality(F) \in Nat
        BY <1>0, <4>1, FS_Subset, FS_CardinalityType
      <4> QED
        BY <3>1, <4>2, FloorPositive DEF AtMost
    <3>3. v \in Blame("NodeIsolated", m, e) /\ w \in Blame("NodeIsolated", m, e)
      BY <2>2, <2>4, <3>1, HypothesisNumber
    <3>4. PICK c \in DOMAIN e :
             /\ v = [class      |-> "NodeIsolated",
                     confidence |-> [num |-> e[c], den |-> Cardinality(F)], suspects |-> {c}]
             /\ AtLeastPercent(v.confidence, Floor)
      BY <3>3, Blamed
    <3>5. PICK d \in DOMAIN e :
             /\ w = [class      |-> "NodeIsolated",
                     confidence |-> [num |-> e[d], den |-> Cardinality(F)], suspects |-> {d}]
             /\ AtLeastPercent(w.confidence, Floor)
      BY <3>3, Blamed
    <3>6. 100 * e[c] >= Floor * Cardinality(F) /\ 100 * e[d] >= Floor * Cardinality(F)
      BY <3>4, <3>5 DEF AtLeastPercent
    <3>7. c = d
      BY <1>2, <3>1, <3>2, <3>6, OneIsolated
    <3> QED
      BY <3>4, <3>5, <3>7
  <2>5. CASE i = 3
    <3>1. PICK e : /\ Egress(m) = Blame("NodeEgressFailure", m, e)
                   /\ \A n \in DOMAIN e : e[n] = Cardinality(Row(F, n))
      BY EgressBlames
    <3>2. v \in Blame("NodeEgressFailure", m, e) /\ w \in Blame("NodeEgressFailure", m, e)
      BY <2>2, <2>5, <3>1, HypothesisNumber
    <3>3. PICK c \in DOMAIN e :
             /\ v = [class      |-> "NodeEgressFailure",
                     confidence |-> [num |-> e[c], den |-> Cardinality(F)], suspects |-> {c}]
             /\ AtLeastPercent(v.confidence, Floor)
      BY <3>2, Blamed
    <3>4. PICK d \in DOMAIN e :
             /\ w = [class      |-> "NodeEgressFailure",
                     confidence |-> [num |-> e[d], den |-> Cardinality(F)], suspects |-> {d}]
             /\ AtLeastPercent(w.confidence, Floor)
      BY <3>2, Blamed
    <3>5. /\ 100 * Cardinality(Row(F, c)) >= Floor * Cardinality(F)
          /\ 100 * Cardinality(Row(F, d)) >= Floor * Cardinality(F)
      BY <3>1, <3>3, <3>4 DEF AtLeastPercent
    <3>6. Row(F, c) \subseteq F /\ Row(F, d) \subseteq F /\ (c # d => Row(F, c) \cap Row(F, d) = {})
      BY DEF Row
    <3>7. c = d
      BY <1>0, <1>2, <3>5, <3>6, FloorsDisjoint
    <3> QED
      BY <3>3, <3>4, <3>7
  <2>6. CASE i = 4
    <3>1. PICK e : /\ Ingress(m) = Blame("NodeIngressFailure", m, e)
                   /\ \A n \in DOMAIN e : e[n] = Cardinality(Col(F, n))
      BY IngressBlames
    <3>2. v \in Blame("NodeIngressFailure", m, e) /\ w \in Blame("NodeIngressFailure", m, e)
      BY <2>2, <2>6, <3>1, HypothesisNumber
    <3>3. PICK c \in DOMAIN e :
             /\ v = [class      |-> "NodeIngressFailure",
                     confidence |-> [num |-> e[c], den |-> Cardinality(F)], suspects |-> {c}]
             /\ AtLeastPercent(v.confidence, Floor)
      BY <3>2, Blamed
    <3>4. PICK d \in DOMAIN e :
             /\ w = [class      |-> "NodeIngressFailure",
                     confidence |-> [num |-> e[d], den |-> Cardinality(F)], suspects |-> {d}]
             /\ AtLeastPercent(w.confidence, Floor)
      BY <3>2, Blamed
    <3>5. /\ 100 * Cardinality(Col(F, c)) >= Floor * Cardinality(F)
          /\ 100 * Cardinality(Col(F, d)) >= Floor * Cardinality(F)
      BY <3>1, <3>3, <3>4 DEF AtLeastPercent
    <3>6. Col(F, c) \subseteq F /\ Col(F, d) \subseteq F /\ (c # d => Col(F, c) \cap Col(F, d) = {})
      BY DEF Col
    <3>7. c = d
      BY <1>0, <1>2, <3>5, <3>6, FloorsDisjoint
    <3> QED
      BY <3>3, <3>4, <3>7
  <2>7. CASE i = 5 \/ i = 6 \/ i = 7
    <3>1. CASE i = 5
      <4>1. v \in PolicyScoped(m) /\ w \in PolicyScoped(m)
        BY <2>2, <3>1, HypothesisNumber
      <4> QED
        BY <4>1 DEF PolicyScoped
    <3>2. CASE i = 6
      <4>1. v \in Partition(m) /\ w \in Partition(m)
        BY <2>2, <3>2, HypothesisNumber
      <4> QED
        BY <4>1 DEF Partition
    <3>3. CASE i = 7
      <4>1. v \in NoHypothesis(m) /\ w \in NoHypothesis(m)
        BY <2>2, <3>3, HypothesisNumber
      <4> QED
        BY <4>1 DEF NoHypothesis
    <3> QED
      BY <2>7, <3>1, <3>2, <3>3
  <2>8. i \in {1, 2, 3, 4, 5, 6, 7}
    BY <2>1
  <2> QED
    BY <2>3, <2>4, <2>5, <2>6, <2>7, <2>8
<1> QED
  BY <1>1, <1>2

\* Classify does not depend on the order in which a Go map is iterated.
THEOREM VerdictDeterministic == Spec => []VerdictIsDeterministic
<1>1. IInv => VerdictIsDeterministic
  <2> SUFFICES ASSUME IInv, AtLeastThreeNodes(matrix)
               PROVE  Cardinality(verdicts) <= 1
    BY DEF VerdictIsDeterministic
  <2>1. \A v, w \in verdicts : v = w
    BY OneVerdict DEF IInv
  <2>2. CASE verdicts = {}
    BY <2>2, FS_EmptySet
  <2>3. CASE verdicts # {}
    <3>1. PICK v : verdicts = {v}
      BY <2>1, <2>3
    <3>2. Cardinality({v}) = 1
      BY FS_Singleton
    <3> QED
      BY <3>1, <3>2
  <2> QED
    BY <2>2, <2>3
<1> QED
  BY <1>1, InductiveInvariant, PTL

-----------------------------------------------------------------------------
\* If the failures in S are at least the floor's share, those outside S are
\* at most what the floor leaves unexplained.
LEMMA Unexplained ==
    ASSUME NEW F, IsFiniteSet(F), NEW S, S \subseteq F,
           100 * Cardinality(S) >= Floor * Cardinality(F)
    PROVE  100 * Cardinality(F \ S) <= (100 - Floor) * Cardinality(F)
<1>1. F \cap S = S
  OBVIOUS
<1>2. Cardinality(F \ S) = Cardinality(F) - Cardinality(F \cap S)
  BY FS_Difference
<1>3. Cardinality(F \ S) = Cardinality(F) - Cardinality(S)
  BY <1>1, <1>2
<1>4. Cardinality(F) \in Nat /\ Cardinality(S) \in Nat
  BY FS_Subset, FS_CardinalityType
<1>5. (100 - Floor) * Cardinality(F) = 100 * Cardinality(F) - Floor * Cardinality(F)
  BY <1>4, FloorPositive
<1>6. Floor * Cardinality(F) \in Int
  BY <1>4, FloorPositive
<1> QED
  BY <1>3, <1>4, <1>5, <1>6

\* The confidence floor is a promise about the failures: whom Classify blames
\* accounts for all but the share the floor leaves.
THEOREM BlameExplains == Spec => []BlameExplainsFailures
<1>1. IInv => BlameExplainsFailures
  <2> DEFINE m == matrix
             F == Failed(m)
             blamed(v, p) == CASE v.class = "NodeEgressFailure"  -> p[1] \in v.suspects
                               [] v.class = "NodeIngressFailure" -> p[2] \in v.suspects
                               [] OTHER -> p[1] \in v.suspects \/ p[2] \in v.suspects
             rest(v) == {p \in F : ~blamed(v, p)}
  <2> SUFFICES ASSUME IInv, NEW v \in verdicts, v.class \in HardFailureClasses, Single(m)
               PROVE  100 * Cardinality(rest(v)) <= (100 - Floor) * Cardinality(F)
    BY DEF BlameExplainsFailures
  <2>1. RoundMatrix(m) /\ v \in Verdicts(m)
    BY DEF IInv
  <2>2. IsFiniteSet(DOMAIN m) /\ IsFiniteSet(F) /\ Cardinality(F) \in Nat
    BY <2>1, RoundFinite, CountsFinite
  <2>3. CASE v.class \in {"PairLocalFailure", "PolicyScopedFailure", "ClusterPartition"}
    <3>1. \A p \in F : p[1] \in v.suspects
      <4>1. CASE v.class = "PairLocalFailure"
        <5>1. v \in PairLocal(m)
          BY <2>1, <4>1, VerdictOrigin, HardFailureOrigin
        <5>2. PICK p : F = {p} /\ v.suspects = {p[1], p[2]}
          BY <5>1 DEF PairLocal
        <5> QED
          BY <5>2
      <4>2. CASE v.class = "PolicyScopedFailure"
        <5>1. v \in PolicyScoped(m)
          BY <2>1, <4>2, VerdictOrigin, HardFailureOrigin
        <5> QED
          BY <5>1 DEF PolicyScoped, NodesOf, Failed
      <4>3. CASE v.class = "ClusterPartition"
        <5>1. v \in Partition(m)
          BY <2>1, <4>3, VerdictOrigin, HardFailureOrigin
        <5> QED
          BY <5>1 DEF Partition, NodesOf, Failed
      <4> QED
        BY <2>3, <4>1, <4>2, <4>3
    <3>2. rest(v) = {}
      BY <2>3, <3>1
    <3>3. Cardinality(rest(v)) = 0
      BY <3>2, FS_EmptySet
    <3> QED
      BY <3>3, <2>2, FloorPositive
  <2>4. CASE v.class = "NodeIsolated"
    <3>1. PICK n : v.suspects = {n} /\
             100 * (Cardinality(Row(F, n)) + Cardinality(Col(F, n))) >= Floor * Cardinality(F)
      <4>1. v \in Isolated(m)
        BY <2>1, <2>4, VerdictOrigin, HardFailureOrigin
      <4> QED
        BY <2>2, <4>1, IsolatedNode
    <3>2. Row(F, n) \cap Col(F, n) = {}
      <4> SUFFICES ASSUME NEW p \in F, p[1] = n, p[2] = n PROVE FALSE
        BY DEF Row, Col
      <4>1. p \in DOMAIN m /\ p = <<n, n>> /\ n \in NodesOf(m)
        BY <2>1, RoundFinite DEF Failed
      <4> QED
        BY <4>1 DEF Single
    <3>3. Row(F, n) \subseteq F /\ Col(F, n) \subseteq F
      BY DEF Row, Col
    <3>4. Cardinality(Row(F, n) \cup Col(F, n)) = Cardinality(Row(F, n)) + Cardinality(Col(F, n))
      BY <2>2, <3>2, <3>3, FS_Subset, DisjointUnion
    <3>5. rest(v) = F \ (Row(F, n) \cup Col(F, n))
      BY <2>4, <3>1 DEF Row, Col
    <3> QED
      BY <2>2, <3>1, <3>3, <3>4, <3>5, Unexplained
  <2>5. CASE v.class = "NodeEgressFailure"
    <3>1. PICK n : v.suspects = {n} /\ 100 * Cardinality(Row(F, n)) >= Floor * Cardinality(F)
      <4>1. v \in Egress(m)
        BY <2>1, <2>5, VerdictOrigin, HardFailureOrigin
      <4> QED
        BY <2>2, <4>1, EgressNode
    <3>2. rest(v) = F \ Row(F, n) /\ Row(F, n) \subseteq F
      BY <2>5, <3>1 DEF Row
    <3> QED
      BY <2>2, <3>1, <3>2, Unexplained
  <2>6. CASE v.class = "NodeIngressFailure"
    <3>1. PICK n : v.suspects = {n} /\ 100 * Cardinality(Col(F, n)) >= Floor * Cardinality(F)
      <4>1. v \in Ingress(m)
        BY <2>1, <2>6, VerdictOrigin, HardFailureOrigin
      <4> QED
        BY <2>2, <4>1, IngressNode
    <3>2. rest(v) = F \ Col(F, n) /\ Col(F, n) \subseteq F
      BY <2>6, <3>1 DEF Col
    <3> QED
      BY <2>2, <3>1, <3>2, Unexplained
  <2> QED
    BY <2>3, <2>4, <2>5, <2>6 DEF HardFailureClasses
<1> QED
  BY <1>1, InductiveInvariant, PTL

-----------------------------------------------------------------------------
\* The first hypothesis that has a verdict gives it.
LEMMA HypothesisInForce ==
    ASSUME NEW m, NEW k \in 1..7, Hypotheses(m)[k] # {},
           \A j \in 1..7 : j < k => Hypotheses(m)[j] = {}
    PROVE  HardFailureVerdicts(m) = Hypotheses(m)[k]
<1>1. PICK i \in 1..7 :
              /\ HardFailureVerdicts(m) = Hypotheses(m)[i]
              /\ Hypotheses(m)[i] # {}
              /\ \A j \in 1..(i - 1) : Hypotheses(m)[j] = {}
  BY FirstApplies
<1>2. ~(i < k)
  BY <1>1
<1>3. ~(k < i)
  BY <1>1
<1>4. i = k
  BY <1>2, <1>3
<1> QED
  BY <1>1, <1>4

\* A candidate that has no rival and explains every failure is blamed.
LEMMA SoleCandidate ==
    ASSUME NEW class, NEW m, NEW explained, NEW n, DOMAIN explained = {n},
           Cardinality(Failed(m)) \in Nat, explained[n] = Cardinality(Failed(m))
    PROVE  Blame(class, m, explained) # {}
<1> DEFINE verdict(c) == [class      |-> class,
                          confidence |-> [num |-> explained[c], den |-> Cardinality(Failed(m))],
                          suspects   |-> {c}]
           best == {c \in DOMAIN explained :
                      /\ AtLeastPercent(verdict(c).confidence, Floor)
                      /\ \A d \in DOMAIN explained : explained[d] <= explained[c]}
<1>1. Blame(class, m, explained) = {verdict(c) : c \in best}
  BY DEF Blame
<1>2. AtLeastPercent(verdict(n).confidence, Floor)
  BY FloorPositive DEF AtLeastPercent
<1>3. n \in best
  BY <1>2
<1> QED
  BY <1>1, <1>3

\* Every node sends and receives one probe for each other node.
LEMMA EqualRows ==
    ASSUME NEW m, RoundMatrix(m), AtLeastThreeNodes(m), Single(m), NEW x \in NodesOf(m)
    PROVE  /\ Cardinality(Row(DOMAIN m, x)) = Cardinality(NodesOf(m)) - 1
           /\ Cardinality(Col(DOMAIN m, x)) = Cardinality(NodesOf(m)) - 1
<1> DEFINE others == NodesOf(m) \ {x}
           out    == [y \in others |-> <<x, y>>]
           into   == [y \in others |-> <<y, x>>]
<1>1. IsFiniteSet(others) /\ Cardinality(others) = Cardinality(NodesOf(m)) - 1
  BY RoundFinite, FS_RemoveElement
<1>2. \A p \in DOMAIN m : p[1] # p[2]
  BY RoundFinite DEF Single
<1>3. out \in Bijection(others, Row(DOMAIN m, x))
  <2>1. out \in [others -> Row(DOMAIN m, x)]
    BY ThirdNode DEF Row
  <2>2. \A y, z \in others : out[y] = out[z] => y = z
    OBVIOUS
  <2>3. \A p \in Row(DOMAIN m, x) : \E y \in others : out[y] = p
    <3> SUFFICES ASSUME NEW p \in DOMAIN m, p[1] = x
                 PROVE  \E y \in others : out[y] = p
      BY DEF Row
    <3>1. p[2] \in others /\ p = <<x, p[2]>>
      BY <1>2, RoundFinite
    <3> QED
      BY <3>1
  <2> HIDE DEF others, out
  <2> QED
    BY <2>1, <2>2, <2>3 DEF Bijection, Injection, Surjection, IsInjective
<1>4. into \in Bijection(others, Col(DOMAIN m, x))
  <2>1. into \in [others -> Col(DOMAIN m, x)]
    BY ThirdNode DEF Col
  <2>2. \A y, z \in others : into[y] = into[z] => y = z
    OBVIOUS
  <2>3. \A p \in Col(DOMAIN m, x) : \E y \in others : into[y] = p
    <3> SUFFICES ASSUME NEW p \in DOMAIN m, p[2] = x
                 PROVE  \E y \in others : into[y] = p
      BY DEF Col
    <3>1. p[1] \in others /\ p = <<p[1], x>>
      BY <1>2, RoundFinite
    <3> QED
      BY <3>1
  <2> HIDE DEF others, into
  <2> QED
    BY <2>1, <2>2, <2>3 DEF Bijection, Injection, Surjection, IsInjective
<1> HIDE DEF others, out, into
<1>5. Cardinality(Row(DOMAIN m, x)) = Cardinality(others)
  BY <1>1, <1>3, FS_Bijection DEF ExistsBijection
<1>6. Cardinality(Col(DOMAIN m, x)) = Cardinality(others)
  BY <1>1, <1>4, FS_Bijection DEF ExistsBijection
<1> QED
  BY <1>1, <1>5, <1>6

\* A node whose row holds all the failures is found to be unable to send.
LEMMA EgressNamed ==
    ASSUME NEW m, RoundMatrix(m), AtLeastThreeNodes(m), Single(m),
           NEW n \in NodesOf(m), Failed(m) = Row(DOMAIN m, n), NEW v \in HardFailureVerdicts(m)
    PROVE  v.class = "NodeEgressFailure" /\ v.suspects = {n}
<1> DEFINE F == Failed(m)
<1>1. IsFiniteSet(DOMAIN m) /\ Cardinality(F) \in Nat
  BY RoundFinite, CountsFinite
<1>2. \A x \in NodesOf(m) : x # n => <<n, x>> \in F /\ <<x, n>> \in DOMAIN m \ F
  BY ThirdNode DEF Row
<1>3. PairLocal(m) = {}
  <2>1. PICK x \in NodesOf(m) : x # n
    BY ThirdNode
  <2>2. PICK y \in NodesOf(m) : y # n /\ y # x
    BY ThirdNode
  <2>3. <<n, x>> \in F /\ <<n, y>> \in F /\ <<n, x>> # <<n, y>>
    BY <1>2, <2>1, <2>2
  <2>4. \A q : F # {q}
    BY <2>3
  <2> QED
    BY <2>4 DEF PairLocal
<1>4. \A c \in NodesOf(m) : ~ColDown(m, c)
  <2> SUFFICES ASSUME NEW c \in NodesOf(m), ColDown(m, c) PROVE FALSE
    OBVIOUS
  <2>1. PICK x \in NodesOf(m) : x # n /\ x # c
    BY ThirdNode
  <2>2. <<x, c>> \in DOMAIN m /\ <<x, c>> \notin F
    BY <2>1, ThirdNode DEF Row
  <2> QED
    BY <2>2 DEF ColDown, Col
<1>5. Isolated(m) = {}
  BY <1>1, <1>4, IsolatedNode
<1>6. \A c \in NodesOf(m) : RowDown(m, c) <=> c = n
  <2>1. RowDown(m, n)
    <3>1. PICK x \in NodesOf(m) : x # n
      BY ThirdNode
    <3>2. <<n, x>> \in Row(DOMAIN m, n)
      BY <3>1, <1>2
    <3> QED
      BY <3>2 DEF RowDown
  <2>2. ASSUME NEW c \in NodesOf(m), c # n PROVE ~RowDown(m, c)
    <3>1. <<c, n>> \in Row(DOMAIN m, c) /\ <<c, n>> \notin F
      BY <1>2, <2>2 DEF Row
    <3> QED
      BY <3>1 DEF RowDown
  <2> QED
    BY <2>1, <2>2
<1>7. Egress(m) # {}
  <2>1. PICK e : /\ Egress(m) = Blame("NodeEgressFailure", m, e)
                 /\ DOMAIN e = {c \in NodesOf(m) : RowDown(m, c) /\ ~ColDown(m, c)}
                 /\ \A c \in DOMAIN e : e[c] = Cardinality(Row(F, c))
    BY EgressBlames
  <2>2. DOMAIN e = {n} /\ Row(F, n) = F
    BY <2>1, <1>4, <1>6 DEF Row
  <2> QED
    BY <1>1, <2>1, <2>2, SoleCandidate
<1>8. HardFailureVerdicts(m) = Egress(m)
  BY <1>3, <1>5, <1>7, HypothesisInForce, HypothesisNumber
<1>9. v.class = "NodeEgressFailure"
  BY <1>8, EgressNode
<1>10. PICK c \in NodesOf(m) : v.suspects = {c} /\ RowDown(m, c)
  BY <1>8, EgressNode
<1> QED
  BY <1>6, <1>9, <1>10

\* A node whose column holds all the failures is found to be unreachable.
LEMMA IngressNamed ==
    ASSUME NEW m, RoundMatrix(m), AtLeastThreeNodes(m), Single(m),
           NEW n \in NodesOf(m), Failed(m) = Col(DOMAIN m, n), NEW v \in HardFailureVerdicts(m)
    PROVE  v.class = "NodeIngressFailure" /\ v.suspects = {n}
<1> DEFINE F == Failed(m)
<1>1. IsFiniteSet(DOMAIN m) /\ Cardinality(F) \in Nat
  BY RoundFinite, CountsFinite
<1>2. \A x \in NodesOf(m) : x # n => <<x, n>> \in F /\ <<n, x>> \in DOMAIN m \ F
  BY ThirdNode DEF Col
<1>3. PairLocal(m) = {}
  <2>1. PICK x \in NodesOf(m) : x # n
    BY ThirdNode
  <2>2. PICK y \in NodesOf(m) : y # n /\ y # x
    BY ThirdNode
  <2>3. <<x, n>> \in F /\ <<y, n>> \in F /\ <<x, n>> # <<y, n>>
    BY <1>2, <2>1, <2>2
  <2>4. \A q : F # {q}
    BY <2>3
  <2> QED
    BY <2>4 DEF PairLocal
<1>4. \A c \in NodesOf(m) : ~RowDown(m, c)
  <2> SUFFICES ASSUME NEW c \in NodesOf(m), RowDown(m, c) PROVE FALSE
    OBVIOUS
  <2>1. PICK x \in NodesOf(m) : x # n /\ x # c
    BY ThirdNode
  <2>2. <<c, x>> \in DOMAIN m /\ <<c, x>> \notin F
    BY <2>1, ThirdNode DEF Col
  <2> QED
    BY <2>2 DEF RowDown, Row
<1>5. Isolated(m) = {} /\ Egress(m) = {}
  BY <1>1, <1>4, IsolatedNode, EgressNode
<1>6. \A c \in NodesOf(m) : ColDown(m, c) <=> c = n
  <2>1. ColDown(m, n)
    <3>1. PICK x \in NodesOf(m) : x # n
      BY ThirdNode
    <3>2. <<x, n>> \in Col(DOMAIN m, n)
      BY <3>1, <1>2
    <3> QED
      BY <3>2 DEF ColDown
  <2>2. ASSUME NEW c \in NodesOf(m), c # n PROVE ~ColDown(m, c)
    <3>1. <<n, c>> \in Col(DOMAIN m, c) /\ <<n, c>> \notin F
      BY <1>2, <2>2 DEF Col
    <3> QED
      BY <3>1 DEF ColDown
  <2> QED
    BY <2>1, <2>2
<1>7. Ingress(m) # {}
  <2>1. PICK e : /\ Ingress(m) = Blame("NodeIngressFailure", m, e)
                 /\ DOMAIN e = {c \in NodesOf(m) : ColDown(m, c) /\ ~RowDown(m, c)}
                 /\ \A c \in DOMAIN e : e[c] = Cardinality(Col(F, c))
    BY IngressBlames
  <2>2. DOMAIN e = {n} /\ Col(F, n) = F
    BY <2>1, <1>4, <1>6 DEF Col
  <2> QED
    BY <1>1, <2>1, <2>2, SoleCandidate
<1>8. HardFailureVerdicts(m) = Ingress(m)
  BY <1>3, <1>5, <1>7, HypothesisInForce, HypothesisNumber
<1>9. v.class = "NodeIngressFailure"
  BY <1>8, IngressNode
<1>10. PICK c \in NodesOf(m) : v.suspects = {c} /\ ColDown(m, c)
  BY <1>8, IngressNode
<1> QED
  BY <1>6, <1>9, <1>10

\* A node whose row and column hold all the failures is found to be isolated.
LEMMA IsolatedNamed ==
    ASSUME NEW m, RoundMatrix(m), AtLeastThreeNodes(m), Single(m), NEW n \in NodesOf(m),
           Failed(m) = Row(DOMAIN m, n) \cup Col(DOMAIN m, n), NEW v \in HardFailureVerdicts(m)
    PROVE  v.class = "NodeIsolated" /\ v.suspects = {n}
<1> DEFINE F == Failed(m)
<1>1. IsFiniteSet(DOMAIN m) /\ IsFiniteSet(F) /\ Cardinality(F) \in Nat
  BY RoundFinite, CountsFinite
<1>2. \A x \in NodesOf(m) : x # n => <<x, n>> \in F /\ <<n, x>> \in F
  BY ThirdNode DEF Row, Col
<1>3. PairLocal(m) = {}
  <2>1. PICK x \in NodesOf(m) : x # n
    BY ThirdNode
  <2>2. PICK y \in NodesOf(m) : y # n /\ y # x
    BY ThirdNode
  <2>3. <<n, x>> \in F /\ <<n, y>> \in F /\ <<n, x>> # <<n, y>>
    BY <1>2, <2>1, <2>2
  <2>4. \A q : F # {q}
    BY <2>3
  <2> QED
    BY <2>4 DEF PairLocal
<1>4. \A c \in NodesOf(m) : RowDown(m, c) <=> c = n
  <2>1. RowDown(m, n)
    <3>1. PICK x \in NodesOf(m) : x # n
      BY ThirdNode
    <3>2. <<n, x>> \in Row(DOMAIN m, n)
      BY <3>1, ThirdNode DEF Row
    <3> QED
      BY <3>2 DEF RowDown
  <2>2. ASSUME NEW c \in NodesOf(m), c # n PROVE ~RowDown(m, c)
    <3>1. PICK x \in NodesOf(m) : x # n /\ x # c
      BY ThirdNode
    <3>2. <<c, x>> \in Row(DOMAIN m, c) /\ <<c, x>> \notin F
      BY <3>1, <2>2, ThirdNode DEF Row, Col
    <3> QED
      BY <3>2 DEF RowDown
  <2> QED
    BY <2>1, <2>2
<1>5. ColDown(m, n)
  <2>1. PICK x \in NodesOf(m) : x # n
    BY ThirdNode
  <2>2. <<x, n>> \in Col(DOMAIN m, n)
    BY <2>1, ThirdNode DEF Col
  <2> QED
    BY <2>2 DEF ColDown
<1>6. Isolated(m) # {}
  <2>1. PICK e : /\ Isolated(m) = Blame("NodeIsolated", m, e)
                 /\ DOMAIN e = {c \in NodesOf(m) : RowDown(m, c) /\ ColDown(m, c)}
                 /\ \A c \in DOMAIN e :
                       e[c] = AtMost(Cardinality(Row(F, c)) + Cardinality(Col(F, c)), Cardinality(F))
    BY IsolatedBlames
  <2>2. DOMAIN e = {n}
    BY <2>1, <1>4, <1>5
  <2>3. /\ Row(F, n) \cup Col(F, n) = F
        /\ Row(F, n) \subseteq F /\ Col(F, n) \subseteq F
    BY DEF Row, Col
  <2>4. /\ IsFiniteSet(Row(F, n)) /\ Cardinality(Row(F, n)) \in Nat
        /\ IsFiniteSet(Col(F, n)) /\ Cardinality(Col(F, n)) \in Nat
    BY <1>1, <2>3, FS_Subset, FS_CardinalityType
  <2>5. Cardinality(Row(F, n) \cup Col(F, n))
          = Cardinality(Row(F, n)) + Cardinality(Col(F, n)) - Cardinality(Row(F, n) \cap Col(F, n))
    BY <2>4, FS_Union
  <2>6. Cardinality(Row(F, n) \cap Col(F, n)) \in Nat
    BY <2>4, FS_Intersection, FS_CardinalityType
  <2>7. Cardinality(F) <= Cardinality(Row(F, n)) + Cardinality(Col(F, n))
    <3>1. Cardinality(F) = Cardinality(Row(F, n) \cup Col(F, n))
      BY <2>3
    <3> QED
      BY <1>1, <2>4, <2>5, <2>6, <3>1
  <2>8. e[n] = Cardinality(F)
    <3>1. e[n] = AtMost(Cardinality(Row(F, n)) + Cardinality(Col(F, n)), Cardinality(F))
      BY <2>1, <2>2
    <3> QED
      BY <1>1, <2>4, <2>7, <3>1 DEF AtMost
  <2> QED
    BY <1>1, <2>1, <2>2, <2>8, SoleCandidate
<1>7. HardFailureVerdicts(m) = Isolated(m)
  BY <1>3, <1>6, HypothesisInForce, HypothesisNumber
<1>8. v.class = "NodeIsolated"
  BY <1>1, <1>7, IsolatedNode
<1>9. PICK c \in NodesOf(m) : v.suspects = {c} /\ RowDown(m, c)
  BY <1>1, <1>7, IsolatedNode
<1> QED
  BY <1>4, <1>8, <1>9

\* If every probe failed no single node is to blame: it explains at most two
\* thirds of the failures.
LEMMA AllFailedNamed ==
    ASSUME NEW m, RoundMatrix(m), AtLeastThreeNodes(m), Single(m),
           Failed(m) = DOMAIN m, NEW v \in HardFailureVerdicts(m)
    PROVE  /\ v.class = IF Refused(m) = DOMAIN m THEN "PolicyScopedFailure" ELSE "ClusterPartition"
           /\ v.suspects = NodesOf(m)
<1> DEFINE F == Failed(m)
           k == Cardinality(NodesOf(m)) - 1
<1>1. /\ IsFiniteSet(F) /\ Cardinality(F) \in Nat /\ k \in Nat /\ k >= 2
  BY RoundFinite, CountsFinite, FS_CardinalityType DEF AtLeastThreeNodes
<1>2. PICK a \in NodesOf(m) : TRUE
  BY ThirdNode
<1>3. PICK b \in NodesOf(m) : b # a
  BY ThirdNode
<1>4. PICK c \in NodesOf(m) : c # a /\ c # b
  BY ThirdNode
<1>5. PairLocal(m) = {}
  <2>1. <<a, b>> \in F /\ <<b, a>> \in F
    BY <1>3, ThirdNode
  <2>2. \A q : F # {q}
    BY <1>3, <2>1
  <2> QED
    BY <2>2 DEF PairLocal
<1>6. \A x \in NodesOf(m) : RowDown(m, x) /\ ColDown(m, x)
  <2> SUFFICES ASSUME NEW x \in NodesOf(m) PROVE RowDown(m, x) /\ ColDown(m, x)
    OBVIOUS
  <2>1. PICK y \in NodesOf(m) : y # x
    BY ThirdNode
  <2>2. <<x, y>> \in Row(DOMAIN m, x) /\ <<y, x>> \in Col(DOMAIN m, x)
    BY <2>1, ThirdNode DEF Row, Col
  <2>3. Row(DOMAIN m, x) \subseteq F /\ Col(DOMAIN m, x) \subseteq F
    BY DEF Row, Col
  <2> QED
    BY <2>2, <2>3 DEF RowDown, ColDown
<1>7. Egress(m) = {} /\ Ingress(m) = {}
  BY <1>6, EgressNode, IngressNode
<1>8. Cardinality(F) >= 3 * k
  <2>1. Row(F, a) \subseteq F /\ Row(F, b) \subseteq F /\ Row(F, c) \subseteq F
    BY DEF Row
  <2>2. Row(F, a) \cap Row(F, b) = {} /\ (Row(F, a) \cup Row(F, b)) \cap Row(F, c) = {}
    BY <1>3, <1>4 DEF Row
  <2>3. Cardinality(Row(F, a)) = k /\ Cardinality(Row(F, b)) = k /\ Cardinality(Row(F, c)) = k
    BY EqualRows
  <2>4. IsFiniteSet(Row(F, a)) /\ IsFiniteSet(Row(F, b)) /\ IsFiniteSet(Row(F, c))
    BY <1>1, <2>1, FS_Subset
  <2> HIDE DEF F, k
  <2>5. /\ IsFiniteSet(Row(F, a) \cup Row(F, b))
        /\ Cardinality(Row(F, a) \cup Row(F, b)) = 2 * k
    BY <1>1, <2>2, <2>3, <2>4, DisjointUnion
  <2>6. Cardinality((Row(F, a) \cup Row(F, b)) \cup Row(F, c)) = 3 * k
    <3>1. Cardinality((Row(F, a) \cup Row(F, b)) \cup Row(F, c))
            = Cardinality(Row(F, a) \cup Row(F, b)) + Cardinality(Row(F, c))
      BY <2>2, <2>4, <2>5, DisjointUnion
    <3> QED
      BY <1>1, <2>3, <2>5, <3>1
  <2>7. ((Row(F, a) \cup Row(F, b)) \cup Row(F, c)) \in SUBSET F
    BY <2>1
  <2>8. Cardinality((Row(F, a) \cup Row(F, b)) \cup Row(F, c)) <= Cardinality(F)
    BY <1>1, <2>7, FS_Subset
  <2> QED
    BY <1>1, <2>6, <2>8
<1>9. Isolated(m) = {}
  <2> SUFFICES ASSUME NEW w \in Isolated(m) PROVE FALSE
    OBVIOUS
  <2>1. PICK n \in NodesOf(m) :
           100 * (Cardinality(Row(F, n)) + Cardinality(Col(F, n))) >= Floor * Cardinality(F)
    BY RoundFinite, IsolatedNode
  <2>2. Cardinality(Row(F, n)) = k /\ Cardinality(Col(F, n)) = k
    BY EqualRows
  <2>3. Floor * Cardinality(F) >= 80 * Cardinality(F)
    BY <1>1, FloorPositive, FloorAssumption
  <2> HIDE DEF F, k
  <2>4. 100 * (k + k) >= Floor * Cardinality(F) /\ Floor * Cardinality(F) \in Int
    BY <1>1, <2>1, <2>2, FloorPositive
  <2> QED
    BY <1>1, <1>8, <2>3, <2>4
<1>10. CASE Refused(m) = DOMAIN m
  <2>1. \A p \in DOMAIN m : ~m[p].success /\ m[p].error = "refused"
    BY <1>10 DEF Refused, Failed
  <2>2. PolicyScoped(m) = {[class |-> "PolicyScopedFailure", confidence |-> Certain, suspects |-> NodesOf(m)]}
    BY <2>1 DEF PolicyScoped
  <2>3. HardFailureVerdicts(m) = PolicyScoped(m)
    <3>1. Hypotheses(m)[5] # {} /\ \A j \in {1, 2, 3, 4} : Hypotheses(m)[j] = {}
      BY <1>5, <1>7, <1>9, <2>2, HypothesisNumber
    <3>2. \A j \in 1..7 : j < 5 => j \in {1, 2, 3, 4}
      OBVIOUS
    <3> QED
      BY <3>1, <3>2, HypothesisInForce, HypothesisNumber
  <2> QED
    BY <1>10, <2>2, <2>3
<1>11. CASE Refused(m) # DOMAIN m
  <2>1. ~(\A p \in DOMAIN m : ~m[p].success /\ m[p].error = "refused")
    BY <1>11 DEF Refused, Failed
  <2>2. PolicyScoped(m) = {}
    BY <2>1 DEF PolicyScoped
  <2>3. AtLeastPercent(FailedFraction(m), Floor)
    BY <1>1, FloorPositive DEF AtLeastPercent, FailedFraction
  <2>4. Partition(m)
          = {[class |-> "ClusterPartition", confidence |-> FailedFraction(m), suspects |-> NodesOf(m)]}
    BY <2>3 DEF Partition
  <2>5. HardFailureVerdicts(m) = Partition(m)
    <3>1. Hypotheses(m)[6] # {} /\ \A j \in {1, 2, 3, 4, 5} : Hypotheses(m)[j] = {}
      BY <1>5, <1>7, <1>9, <2>2, <2>4, HypothesisNumber
    <3>2. \A j \in 1..7 : j < 6 => j \in {1, 2, 3, 4, 5}
      OBVIOUS
    <3> QED
      BY <3>1, <3>2, HypothesisInForce, HypothesisNumber
  <2> QED
    BY <1>11, <2>4, <2>5
<1> QED
  BY <1>10, <1>11

\* A single failed pair is found: the other pairs of its row and its column
\* keep them from being down.
LEMMA PairNamed ==
    ASSUME NEW m, RoundMatrix(m), AtLeastThreeNodes(m), NEW p \in DOMAIN m,
           Failed(m) = {p}, NEW v \in HardFailureVerdicts(m)
    PROVE  v.class = "PairLocalFailure" /\ v.suspects = {p[1], p[2]}
<1>1. p[1] \in NodesOf(m) /\ p[2] \in NodesOf(m)
  BY RoundFinite
<1>2. PICK x \in NodesOf(m) : x # p[1] /\ x # p[2]
  BY ThirdNode
<1>3. <<p[1], x>> \in DOMAIN m /\ <<p[1], x>> # p /\ <<x, p[2]>> \in DOMAIN m /\ <<x, p[2]>> # p
  BY <1>1, <1>2, ThirdNode
<1>4. ~RowDown(m, p[1]) /\ ~ColDown(m, p[2])
  BY <1>3 DEF RowDown, ColDown, Row, Col
<1>5. PairLocal(m) = {[class |-> "PairLocalFailure", confidence |-> Certain, suspects |-> {p[1], p[2]}]}
  <2>1. {q \in Failed(m) : /\ Failed(m) = {q}
                           /\ ~RowDown(m, q[1])
                           /\ ~ColDown(m, q[2])} = {p}
    BY <1>4
  <2> QED
    BY <2>1 DEF PairLocal
<1>6. HardFailureVerdicts(m) = PairLocal(m)
  <2>1. Hypotheses(m)[1] # {}
    BY <1>5, HypothesisNumber
  <2>2. \A j \in 1..7 : ~(j < 1)
    OBVIOUS
  <2> QED
    BY <2>1, <2>2, HypothesisInForce, HypothesisNumber
<1> QED
  BY <1>5, <1>6

\* Classify finds the faults its classes are made for, in clusters of every
\* size from three nodes on.
THEOREM FaultsNamed == Spec => []FaultsAreNamed
<1>1. IInv => FaultsAreNamed
  <2> DEFINE m == matrix
             all == DOMAIN m
             named(class, nodes) == \A v \in verdicts : v.class = class /\ v.suspects = nodes
  <2> SUFFICES ASSUME IInv, verdicts # {}, AgentErrors(m) = {}, AtLeastThreeNodes(m), Single(m)
               PROVE  /\ \A p \in all : Failed(m) = {p} => named("PairLocalFailure", {p[1], p[2]})
                      /\ \A n \in NodesOf(m) :
                            /\ Failed(m) = Row(all, n) => named("NodeEgressFailure", {n})
                            /\ Failed(m) = Col(all, n) => named("NodeIngressFailure", {n})
                            /\ Failed(m) = Row(all, n) \cup Col(all, n) => named("NodeIsolated", {n})
                      /\ Failed(m) = all =>
                            named(IF Refused(m) = all THEN "PolicyScopedFailure" ELSE "ClusterPartition",
                                  NodesOf(m))
    BY DEF FaultsAreNamed
  <2>1. RoundMatrix(m) /\ verdicts = Verdicts(m)
    BY DEF IInv
  <2>2. DOMAIN m # {}
    <3>1. PICK x \in NodesOf(m) : TRUE
      BY <2>1, ThirdNode
    <3> QED
      BY <3>1 DEF NodesOf
  <2>3. Failed(m) # {} => verdicts = HardFailureVerdicts(m)
    BY <2>1, <2>2 DEF Verdicts
  <2>4. \A n \in NodesOf(m) : Row(all, n) # {} /\ Col(all, n) # {}
    <3> SUFFICES ASSUME NEW n \in NodesOf(m) PROVE Row(all, n) # {} /\ Col(all, n) # {}
      OBVIOUS
    <3>1. PICK x \in NodesOf(m) : x # n
      BY <2>1, ThirdNode
    <3>2. <<n, x>> \in Row(all, n) /\ <<x, n>> \in Col(all, n)
      BY <2>1, <3>1, ThirdNode DEF Row, Col
    <3> QED
      BY <3>2
  <2>5. \A p \in all : Failed(m) = {p} => named("PairLocalFailure", {p[1], p[2]})
    BY <2>1, <2>3, PairNamed
  <2>6. ASSUME NEW n \in NodesOf(m)
        PROVE  /\ Failed(m) = Row(all, n) => named("NodeEgressFailure", {n})
               /\ Failed(m) = Col(all, n) => named("NodeIngressFailure", {n})
               /\ Failed(m) = Row(all, n) \cup Col(all, n) => named("NodeIsolated", {n})
    BY <2>1, <2>3, <2>4, EgressNamed, IngressNamed, IsolatedNamed
  <2>7. Failed(m) = all =>
            named(IF Refused(m) = all THEN "PolicyScopedFailure" ELSE "ClusterPartition", NodesOf(m))
    BY <2>1, <2>2, <2>3, AllFailedNamed
  <2> QED
    BY <2>5, <2>6, <2>7
<1> QED
  BY <1>1, InductiveInvariant, PTL

-----------------------------------------------------------------------------
\* The pairs of S seen in the other direction.
Swapped(S) == {<<p[2], p[1]>> : p \in S}

\* The transposed matrix has every result at the swapped pair.
LEMMA TransposedResults ==
    ASSUME NEW m, RoundMatrix(m), NEW a, NEW b
    PROVE  /\ <<a, b>> \in DOMAIN Transposed(m) <=> <<b, a>> \in DOMAIN m
           /\ <<b, a>> \in DOMAIN m => Transposed(m)[<<a, b>>] = m[<<b, a>>]
<1>1. DOMAIN Transposed(m) = Swapped(DOMAIN m)
  BY DEF Transposed, Swapped
<1>2. <<a, b>> \in Swapped(DOMAIN m) <=> <<b, a>> \in DOMAIN m
  <2>1. ASSUME NEW p \in DOMAIN m, <<a, b>> = <<p[2], p[1]>>
        PROVE  <<b, a>> \in DOMAIN m
    BY <2>1, RoundFinite
  <2> QED
    BY <2>1 DEF Swapped
<1>3. <<a, b>> \in Swapped(DOMAIN m) => Transposed(m)[<<a, b>>] = m[<<b, a>>]
  BY DEF Transposed, Swapped
<1> QED
  BY <1>1, <1>2, <1>3

\* The sets that the classifier makes of the pairs are swapped with them.
LEMMA TransposedSets ==
    ASSUME NEW m, RoundMatrix(m)
    PROVE  /\ DOMAIN Transposed(m) = Swapped(DOMAIN m)
           /\ AgentErrors(Transposed(m)) = Swapped(AgentErrors(m))
           /\ Failed(Transposed(m)) = Swapped(Failed(m))
           /\ Lossy(Transposed(m)) = Swapped(Lossy(m))
<1> DEFINE t == Transposed(m)
<1>1. DOMAIN t = Swapped(DOMAIN m)
  BY DEF Transposed, Swapped
<1>2. \A p \in DOMAIN t : p = <<p[1], p[2]>>
  BY <1>1 DEF Swapped
<1>3. ASSUME NEW S \in SUBSET (DOMAIN m), NEW T \in SUBSET (DOMAIN t),
             \A a, b : <<a, b>> \in T <=> <<b, a>> \in S
      PROVE  T = Swapped(S)
  <2>1. \A p \in S : p = <<p[1], p[2]>>
    BY RoundFinite
  <2>2. T \subseteq Swapped(S)
    <3> SUFFICES ASSUME NEW p \in T PROVE p \in Swapped(S)
      OBVIOUS
    <3>1. p = <<p[1], p[2]>>
      BY <1>2
    <3>2. <<p[2], p[1]>> \in S
      BY <1>3, <3>1
    <3> QED
      BY <3>1, <3>2 DEF Swapped
  <2>3. Swapped(S) \subseteq T
    <3> SUFFICES ASSUME NEW p \in S PROVE <<p[2], p[1]>> \in T
      BY DEF Swapped
    <3> QED
      BY <1>3, <2>1
  <2> QED
    BY <2>2, <2>3
<1> HIDE DEF t
<1>4. \A a, b : /\ <<a, b>> \in DOMAIN t <=> <<b, a>> \in DOMAIN m
                /\ <<b, a>> \in DOMAIN m => t[<<a, b>>] = m[<<b, a>>]
  BY TransposedResults DEF t
<1>5. AgentErrors(t) = Swapped(AgentErrors(m))
  <2>1. \A a, b : <<a, b>> \in AgentErrors(t) <=> <<b, a>> \in AgentErrors(m)
    BY <1>4 DEF AgentErrors
  <2>2. AgentErrors(t) \in SUBSET (DOMAIN t) /\ AgentErrors(m) \in SUBSET (DOMAIN m)
    BY DEF AgentErrors
  <2> QED
    BY <1>3, <2>1, <2>2
<1>6. Failed(t) = Swapped(Failed(m))
  <2>1. \A a, b : <<a, b>> \in Failed(t) <=> <<b, a>> \in Failed(m)
    BY <1>4 DEF Failed
  <2>2. Failed(t) \in SUBSET (DOMAIN t) /\ Failed(m) \in SUBSET (DOMAIN m)
    BY DEF Failed
  <2> QED
    BY <1>3, <2>1, <2>2
<1>7. Lossy(t) = Swapped(Lossy(m))
  <2>1. \A a, b : <<a, b>> \in Lossy(t) <=> <<b, a>> \in Lossy(m)
    BY <1>4 DEF Lossy
  <2>2. Lossy(t) \in SUBSET (DOMAIN t) /\ Lossy(m) \in SUBSET (DOMAIN m)
    BY DEF Lossy
  <2> QED
    BY <1>3, <2>1, <2>2
<1> QED
  BY <1>1, <1>5, <1>6, <1>7 DEF t

\* Swapping keeps the number of pairs and exchanges rows and columns.
LEMMA SwappedCounts ==
    ASSUME NEW S, IsFiniteSet(S), \A p \in S : p = <<p[1], p[2]>>
    PROVE  /\ Cardinality(Swapped(S)) = Cardinality(S)
           /\ \A n : Row(Swapped(S), n) = Swapped(Col(S, n))
           /\ \A n : Col(Swapped(S), n) = Swapped(Row(S, n))
           /\ Swapped(S) = {} <=> S = {}
           /\ {p[1] : p \in Swapped(S)} = {p[2] : p \in S}
           /\ {p[2] : p \in Swapped(S)} = {p[1] : p \in S}
<1>1. Cardinality(Swapped(S)) = Cardinality(S)
  <2> DEFINE swap == [p \in S |-> <<p[2], p[1]>>]
  <2>1. swap \in [S -> Swapped(S)]
    BY DEF Swapped
  <2>2. \A p, q \in S : swap[p] = swap[q] => p = q
    <3> SUFFICES ASSUME NEW p \in S, NEW q \in S, <<p[2], p[1]>> = <<q[2], q[1]>> PROVE p = q
      OBVIOUS
    <3>1. p[1] = q[1] /\ p[2] = q[2]
      OBVIOUS
    <3> QED
      BY <3>1
  <2>3. \A q \in Swapped(S) : \E p \in S : swap[p] = q
    BY DEF Swapped
  <2> HIDE DEF swap
  <2>4. swap \in Bijection(S, Swapped(S))
    BY <2>1, <2>2, <2>3 DEF Bijection, Injection, Surjection, IsInjective
  <2> QED
    BY <2>4, FS_Bijection DEF ExistsBijection
<1>2. \A n : Row(Swapped(S), n) = Swapped(Col(S, n))
  BY DEF Row, Col, Swapped
<1>3. \A n : Col(Swapped(S), n) = Swapped(Row(S, n))
  BY DEF Row, Col, Swapped
<1>4. Swapped(S) = {} <=> S = {}
  BY DEF Swapped
<1>5. /\ {p[1] : p \in Swapped(S)} = {p[2] : p \in S}
      /\ {p[2] : p \in Swapped(S)} = {p[1] : p \in S}
  <2>1. \A p \in S : /\ <<p[2], p[1]>> \in Swapped(S)
                     /\ <<p[2], p[1]>>[1] = p[2] /\ <<p[2], p[1]>>[2] = p[1]
    BY DEF Swapped
  <2>2. \A q \in Swapped(S) : \E p \in S : q[1] = p[2] /\ q[2] = p[1]
    BY DEF Swapped
  <2>3. ASSUME NEW q \in Swapped(S)
        PROVE  q[1] \in {p[2] : p \in S} /\ q[2] \in {p[1] : p \in S}
    <3>1. PICK p \in S : q[1] = p[2] /\ q[2] = p[1]
      BY <2>2
    <3> QED
      BY <3>1
  <2>4. ASSUME NEW p \in S
        PROVE  p[2] \in {q[1] : q \in Swapped(S)} /\ p[1] \in {q[2] : q \in Swapped(S)}
    <3>1. PICK q \in Swapped(S) : q[1] = p[2] /\ q[2] = p[1]
      BY <2>1
    <3> QED
      BY <3>1
  <2> QED
    BY <2>3, <2>4
<1> QED
  BY <1>1, <1>2, <1>3, <1>4, <1>5

\* What the hypotheses count, in the transposed matrix.
LEMMA TransposedCounts ==
    ASSUME NEW m, RoundMatrix(m)
    PROVE  LET t == Transposed(m) IN
           /\ NodesOf(t) = NodesOf(m)
           /\ Cardinality(DOMAIN t) = Cardinality(DOMAIN m)
           /\ Cardinality(Failed(t)) = Cardinality(Failed(m))
           /\ \A n : /\ Cardinality(Row(Failed(t), n)) = Cardinality(Col(Failed(m), n))
                     /\ Cardinality(Col(Failed(t), n)) = Cardinality(Row(Failed(m), n))
                     /\ RowDown(t, n) <=> ColDown(m, n)
                     /\ ColDown(t, n) <=> RowDown(m, n)
<1> DEFINE t == Transposed(m)
<1>1. DOMAIN t = Swapped(DOMAIN m) /\ Failed(t) = Swapped(Failed(m))
  BY TransposedSets
<1>2. IsFiniteSet(DOMAIN m) /\ \A p \in DOMAIN m : p = <<p[1], p[2]>>
  BY RoundFinite
<1>3. Failed(m) \subseteq DOMAIN m
  BY DEF Failed
<1>4. IsFiniteSet(Failed(m)) /\ \A p \in Failed(m) : p = <<p[1], p[2]>>
  BY <1>2, <1>3, FS_Subset
<1> HIDE DEF t
<1>5. NodesOf(t) = NodesOf(m)
  BY <1>1, <1>2, SwappedCounts DEF NodesOf
<1>6. Cardinality(DOMAIN t) = Cardinality(DOMAIN m) /\ Cardinality(Failed(t)) = Cardinality(Failed(m))
  BY <1>1, <1>2, <1>4, SwappedCounts
<1>7. ASSUME NEW n
      PROVE  /\ Cardinality(Row(Failed(t), n)) = Cardinality(Col(Failed(m), n))
             /\ Cardinality(Col(Failed(t), n)) = Cardinality(Row(Failed(m), n))
  <2>1. Row(Failed(t), n) = Swapped(Col(Failed(m), n)) /\ Col(Failed(t), n) = Swapped(Row(Failed(m), n))
    BY <1>1, <1>4, SwappedCounts
  <2>2. Row(Failed(m), n) \subseteq Failed(m) /\ Col(Failed(m), n) \subseteq Failed(m)
    BY DEF Row, Col
  <2>3. /\ IsFiniteSet(Row(Failed(m), n)) /\ \A p \in Row(Failed(m), n) : p = <<p[1], p[2]>>
        /\ IsFiniteSet(Col(Failed(m), n)) /\ \A p \in Col(Failed(m), n) : p = <<p[1], p[2]>>
    BY <1>4, <2>2, FS_Subset
  <2> QED
    BY <2>1, <2>3, SwappedCounts
<1>8. ASSUME NEW n
      PROVE  (RowDown(t, n) <=> ColDown(m, n)) /\ (ColDown(t, n) <=> RowDown(m, n))
  <2>1. \A S \in SUBSET (DOMAIN m), T \in SUBSET (DOMAIN m) :
           (Swapped(S) \subseteq Swapped(T) <=> S \subseteq T) /\ (Swapped(S) = {} <=> S = {})
    <3> SUFFICES ASSUME NEW S \in SUBSET (DOMAIN m), NEW T \in SUBSET (DOMAIN m)
                 PROVE (Swapped(S) \subseteq Swapped(T) <=> S \subseteq T) /\ (Swapped(S) = {} <=> S = {})
      OBVIOUS
    <3>1. \A p \in DOMAIN m, X \in SUBSET (DOMAIN m) : <<p[2], p[1]>> \in Swapped(X) <=> p \in X
      <4> SUFFICES ASSUME NEW p \in DOMAIN m, NEW X \in SUBSET (DOMAIN m),
                          <<p[2], p[1]>> \in Swapped(X)
                   PROVE  p \in X
        BY DEF Swapped
      <4>1. PICK q \in X : <<p[2], p[1]>> = <<q[2], q[1]>>
        BY DEF Swapped
      <4>2. p[1] = q[1] /\ p[2] = q[2]
        BY <4>1
      <4> QED
        BY <1>2, <4>2
    <3>2. Swapped(S) \subseteq Swapped(T) => S \subseteq T
      <4> SUFFICES ASSUME Swapped(S) \subseteq Swapped(T), NEW p \in S PROVE p \in T
        OBVIOUS
      <4>1. <<p[2], p[1]>> \in Swapped(S)
        BY <3>1
      <4> QED
        BY <3>1, <4>1
    <3>3. S \subseteq T => Swapped(S) \subseteq Swapped(T)
      BY DEF Swapped
    <3>4. Swapped(S) = {} <=> S = {}
      BY DEF Swapped
    <3> QED
      BY <3>2, <3>3, <3>4
  <2>2. Row(DOMAIN t, n) = Swapped(Col(DOMAIN m, n)) /\ Col(DOMAIN t, n) = Swapped(Row(DOMAIN m, n))
    BY <1>1, <1>2, SwappedCounts
  <2>3. Row(DOMAIN m, n) \in SUBSET (DOMAIN m) /\ Col(DOMAIN m, n) \in SUBSET (DOMAIN m)
    BY DEF Row, Col
  <2> QED
    BY <1>1, <1>3, <2>1, <2>2, <2>3 DEF RowDown, ColDown
<1> QED
  BY <1>5, <1>6, <1>7, <1>8 DEF t

\* The set of the verdicts V, with the directions exchanged.
MirroredAll(V) == {Mirrored(v) : v \in V}

\* A verdict that names no direction is its own mirror image.
LEMMA MirrorKeeps ==
    ASSUME NEW V, \A v \in V : \E n : v \in Verdict(n) /\ v.class \notin {"NodeEgressFailure", "NodeIngressFailure"}
    PROVE  MirroredAll(V) = V
<1>1. ASSUME NEW v \in V PROVE Mirrored(v) = v
  <2>1. PICK n : v \in Verdict(n) /\ v.class \notin {"NodeEgressFailure", "NodeIngressFailure"}
    OBVIOUS
  <2>2. Mirrored(v) = [v EXCEPT !.class = v.class]
    BY <2>1 DEF Mirrored
  <2> QED
    BY <2>1, <2>2 DEF Verdict
<1> QED
  BY <1>1 DEF MirroredAll

\* The mirror images of a candidate's verdicts are verdicts about the same
\* candidates in the other direction.
LEMMA MirroredBlame ==
    ASSUME NEW m, NEW t, NEW e, Cardinality(Failed(t)) = Cardinality(Failed(m))
    PROVE  /\ MirroredAll(Blame("NodeIngressFailure", m, e)) = Blame("NodeEgressFailure", t, e)
           /\ MirroredAll(Blame("NodeEgressFailure", m, e)) = Blame("NodeIngressFailure", t, e)
           /\ Blame("NodeIsolated", m, e) = Blame("NodeIsolated", t, e)
<1> DEFINE den == Cardinality(Failed(m))
           conf(n) == [num |-> e[n], den |-> den]
           best == {c \in DOMAIN e :
                      /\ AtLeastPercent(conf(c), Floor)
                      /\ \A d \in DOMAIN e : e[d] <= e[c]}
           about(class, n) == [class |-> class, confidence |-> conf(n), suspects |-> {n}]
<1>1. \A class : Blame(class, m, e) = {about(class, n) : n \in best}
  BY DEF Blame
<1>2. \A class : Blame(class, t, e) = {about(class, n) : n \in best}
  BY DEF Blame
<1>3. \A n : /\ Mirrored(about("NodeIngressFailure", n)) = about("NodeEgressFailure", n)
             /\ Mirrored(about("NodeEgressFailure", n)) = about("NodeIngressFailure", n)
  BY DEF Mirrored
<1> HIDE DEF best, about
<1>4. MirroredAll({about("NodeIngressFailure", n) : n \in best}) = {about("NodeEgressFailure", n) : n \in best}
  BY <1>3 DEF MirroredAll
<1>5. MirroredAll({about("NodeEgressFailure", n) : n \in best}) = {about("NodeIngressFailure", n) : n \in best}
  BY <1>3 DEF MirroredAll
<1> QED
  BY <1>1, <1>2, <1>4, <1>5

\* The seven hypotheses about the transposed matrix.
LEMMA TransposedHypotheses ==
    ASSUME NEW m, RoundMatrix(m)
    PROVE  LET t == Transposed(m) IN
           /\ PairLocal(t) = PairLocal(m)
           /\ Isolated(t) = Isolated(m)
           /\ Egress(t) = MirroredAll(Ingress(m))
           /\ Ingress(t) = MirroredAll(Egress(m))
           /\ PolicyScoped(t) = PolicyScoped(m)
           /\ Partition(t) = Partition(m)
           /\ NoHypothesis(t) = NoHypothesis(m)
<1> DEFINE t == Transposed(m)
<1>1. /\ NodesOf(t) = NodesOf(m)
      /\ Cardinality(DOMAIN t) = Cardinality(DOMAIN m)
      /\ Cardinality(Failed(t)) = Cardinality(Failed(m))
      /\ \A n : /\ Cardinality(Row(Failed(t), n)) = Cardinality(Col(Failed(m), n))
                /\ Cardinality(Col(Failed(t), n)) = Cardinality(Row(Failed(m), n))
                /\ RowDown(t, n) <=> ColDown(m, n)
                /\ ColDown(t, n) <=> RowDown(m, n)
  BY TransposedCounts
<1>2. /\ Failed(t) = Swapped(Failed(m)) /\ DOMAIN t = Swapped(DOMAIN m)
      /\ \A p \in Failed(m) : p = <<p[1], p[2]>> /\ p \in DOMAIN m
  BY TransposedSets, RoundFinite DEF Failed
<1>3. \A p \in DOMAIN m : t[<<p[2], p[1]>>] = m[p]
  <2> SUFFICES ASSUME NEW p \in DOMAIN m PROVE t[<<p[2], p[1]>>] = m[p]
    OBVIOUS
  <2>1. p = <<p[1], p[2]>>
    BY RoundFinite
  <2> QED
    BY <2>1, TransposedResults
<1> HIDE DEF t
<1>4. PairLocal(t) = PairLocal(m)
  <2> DEFINE local(x) == {q \in Failed(x) : /\ Failed(x) = {q}
                                            /\ ~RowDown(x, q[1])
                                            /\ ~ColDown(x, q[2])}
             about(p) == [class |-> "PairLocalFailure", confidence |-> Certain, suspects |-> {p[1], p[2]}]
  <2>1. PairLocal(t) = {about(p) : p \in local(t)} /\ PairLocal(m) = {about(p) : p \in local(m)}
    BY DEF PairLocal
  <2>2. \A p \in Failed(m) : Failed(t) = {<<p[2], p[1]>>} <=> Failed(m) = {p}
    <3> SUFFICES ASSUME NEW p \in Failed(m)
                 PROVE  Failed(t) = {<<p[2], p[1]>>} <=> Failed(m) = {p}
      OBVIOUS
    <3>1. Failed(m) = {p} => Failed(t) = {<<p[2], p[1]>>}
      BY <1>2 DEF Swapped
    <3>2. ASSUME Failed(t) = {<<p[2], p[1]>>}, NEW q \in Failed(m) PROVE q = p
      <4>1. <<q[2], q[1]>> = <<p[2], p[1]>>
        BY <1>2, <3>2 DEF Swapped
      <4>2. q[1] = p[1] /\ q[2] = p[2]
        BY <4>1
      <4> QED
        BY <1>2, <4>2
    <3> QED
      BY <3>1, <3>2
  <2>3. \A p \in Failed(m) : <<p[2], p[1]>> \in local(t) <=> p \in local(m)
    <3> SUFFICES ASSUME NEW p \in Failed(m) PROVE <<p[2], p[1]>> \in local(t) <=> p \in local(m)
      OBVIOUS
    <3>1. <<p[2], p[1]>>[1] = p[2] /\ <<p[2], p[1]>>[2] = p[1] /\ <<p[2], p[1]>> \in Failed(t)
      BY <1>2 DEF Swapped
    <3> QED
      BY <1>1, <2>2, <3>1
  <2>4. \A p : about(<<p[2], p[1]>>) = about(p)
    <3> SUFFICES ASSUME NEW p PROVE about(<<p[2], p[1]>>) = about(p)
      OBVIOUS
    <3>1. {p[2], p[1]} = {p[1], p[2]}
      OBVIOUS
    <3> QED
      BY <3>1
  <2>5. local(t) \subseteq Failed(t) /\ local(m) \subseteq Failed(m)
    OBVIOUS
  <2> HIDE DEF local, about
  <2>6. local(t) = Swapped(local(m))
    BY <1>2, <2>3, <2>5 DEF Swapped
  <2>7. {about(p) : p \in Swapped(local(m))} = {about(p) : p \in local(m)}
    <3>1. Swapped(local(m)) = {<<p[2], p[1]>> : p \in local(m)}
      BY DEF Swapped
    <3>2. {about(q) : q \in Swapped(local(m))} = {about(<<p[2], p[1]>>) : p \in local(m)}
      BY <3>1
    <3> QED
      BY <2>4, <3>2
  <2> QED
    BY <2>1, <2>6, <2>7
<1>5. Isolated(t) = Isolated(m)
  <2> DEFINE e == [n \in {n \in NodesOf(m) : RowDown(m, n) /\ ColDown(m, n)} |->
            AtMost(Cardinality(Row(Failed(m), n)) + Cardinality(Col(Failed(m), n)),
                   Cardinality(Failed(m)))]
             f == [n \in {n \in NodesOf(t) : RowDown(t, n) /\ ColDown(t, n)} |->
            AtMost(Cardinality(Row(Failed(t), n)) + Cardinality(Col(Failed(t), n)),
                   Cardinality(Failed(t)))]
  <2>1. Isolated(m) = Blame("NodeIsolated", m, e) /\ Isolated(t) = Blame("NodeIsolated", t, f)
    BY DEF Isolated
  <2>2. DOMAIN f = DOMAIN e
    BY <1>1
  <2>3. ASSUME NEW n \in DOMAIN e PROVE f[n] = e[n]
    <3>1. /\ Row(Failed(m), n) \subseteq Failed(m) /\ Col(Failed(m), n) \subseteq Failed(m)
          /\ IsFiniteSet(DOMAIN m)
      BY RoundFinite DEF Row, Col
    <3>2. Cardinality(Row(Failed(m), n)) \in Nat /\ Cardinality(Col(Failed(m), n)) \in Nat
      BY <3>1, CountsFinite
    <3>3. Cardinality(Row(Failed(t), n)) + Cardinality(Col(Failed(t), n))
            = Cardinality(Row(Failed(m), n)) + Cardinality(Col(Failed(m), n))
      BY <1>1, <3>2
    <3> QED
      BY <1>1, <2>2, <3>3
  <2>4. f = e
    BY <2>2, <2>3
  <2> HIDE DEF e, f
  <2> QED
    BY <1>1, <2>1, <2>4, MirroredBlame
<1>6. Egress(t) = MirroredAll(Ingress(m))
  <2> DEFINE e == [n \in {n \in NodesOf(m) : ColDown(m, n) /\ ~RowDown(m, n)} |->
            Cardinality(Col(Failed(m), n))]
             f == [n \in {n \in NodesOf(t) : RowDown(t, n) /\ ~ColDown(t, n)} |->
            Cardinality(Row(Failed(t), n))]
  <2>1. Ingress(m) = Blame("NodeIngressFailure", m, e) /\ Egress(t) = Blame("NodeEgressFailure", t, f)
    BY DEF Ingress, Egress
  <2>2. f = e
    BY <1>1
  <2> HIDE DEF e, f
  <2> QED
    BY <1>1, <2>1, <2>2, MirroredBlame
<1>7. Ingress(t) = MirroredAll(Egress(m))
  <2> DEFINE e == [n \in {n \in NodesOf(m) : RowDown(m, n) /\ ~ColDown(m, n)} |->
            Cardinality(Row(Failed(m), n))]
             f == [n \in {n \in NodesOf(t) : ColDown(t, n) /\ ~RowDown(t, n)} |->
            Cardinality(Col(Failed(t), n))]
  <2>1. Egress(m) = Blame("NodeEgressFailure", m, e) /\ Ingress(t) = Blame("NodeIngressFailure", t, f)
    BY DEF Ingress, Egress
  <2>2. f = e
    BY <1>1
  <2> HIDE DEF e, f
  <2> QED
    BY <1>1, <2>1, <2>2, MirroredBlame
<1>8. PolicyScoped(t) = PolicyScoped(m)
  <2>1. (\A p \in DOMAIN t : ~t[p].success /\ t[p].error = "refused")
          <=> (\A p \in DOMAIN m : ~m[p].success /\ m[p].error = "refused")
    <3>1. \A q \in DOMAIN t : \E p \in DOMAIN m : t[q] = m[p]
      BY <1>2, <1>3 DEF Swapped
    <3>2. \A p \in DOMAIN m : \E q \in DOMAIN t : t[q] = m[p]
      BY <1>2, <1>3 DEF Swapped
    <3> QED
      BY <3>1, <3>2
  <2> QED
    BY <1>1, <2>1 DEF PolicyScoped
<1>9. FailedFraction(t) = FailedFraction(m)
  BY <1>1 DEF FailedFraction
<1>10. Partition(t) = Partition(m) /\ NoHypothesis(t) = NoHypothesis(m)
  BY <1>1, <1>9 DEF Partition, NoHypothesis
<1> QED
  BY <1>4, <1>5, <1>6, <1>7, <1>8, <1>10 DEF t

\* A node that cannot send and one that cannot be reached have one failure in
\* common; they cannot both explain the floor's share of two or more.
LEMMA OneDirection ==
    ASSUME NEW m, RoundMatrix(m), AtLeastThreeNodes(m)
    PROVE  Egress(m) = {} \/ Ingress(m) = {}
<1> SUFFICES ASSUME NEW v \in Egress(m), NEW w \in Ingress(m) PROVE FALSE
  OBVIOUS
<1> DEFINE F == Failed(m)
<1>1. PICK c \in NodesOf(m) : RowDown(m, c) /\ 100 * Cardinality(Row(F, c)) >= Floor * Cardinality(F)
  BY EgressNode
<1>2. PICK d \in NodesOf(m) : 100 * Cardinality(Col(F, d)) >= Floor * Cardinality(F)
  BY IngressNode
<1> DEFINE R == Row(F, c)
           C == Col(F, d)
<1>3. IsFiniteSet(F) /\ Cardinality(F) \in Nat
  BY RoundFinite, CountsFinite
<1>4. /\ R \subseteq F /\ C \subseteq F /\ (R \cup C) \in SUBSET F
      /\ IsFiniteSet(R) /\ IsFiniteSet(C) /\ Cardinality(R) \in Nat /\ Cardinality(C) \in Nat
  <2>1. R \subseteq F /\ C \subseteq F
    BY DEF Row, Col
  <2> HIDE DEF F, R, C
  <2> QED
    BY <1>3, <2>1, FS_Subset, FS_CardinalityType
<1>5. R \cap C \subseteq {<<c, d>>}
  BY RoundFinite DEF Row, Col, Failed
<1>6. Cardinality(F) >= 2
  <2>1. PICK x \in NodesOf(m) : x # c
    BY ThirdNode
  <2>2. PICK y \in NodesOf(m) : y # c /\ y # x
    BY ThirdNode
  <2>3. <<c, x>> \in F /\ <<c, y>> \in F
    BY <1>1, <2>1, <2>2, ThirdNode DEF RowDown, Row
  <2>4. <<c, x>> # <<c, y>>
    BY <2>2
  <2>5. IsFiniteSet({<<c, x>>}) /\ Cardinality({<<c, x>>}) = 1
    BY FS_Singleton
  <2>6. Cardinality({<<c, x>>} \cup {<<c, y>>}) = 2
    <3>1. <<c, y>> \notin {<<c, x>>}
      BY <2>4
    <3>2. Cardinality({<<c, x>>} \cup {<<c, y>>})
            = IF <<c, y>> \in {<<c, x>>} THEN Cardinality({<<c, x>>}) ELSE Cardinality({<<c, x>>}) + 1
      BY <2>5, FS_AddElement
    <3> QED
      BY <2>5, <3>1, <3>2
  <2>7. ({<<c, x>>} \cup {<<c, y>>}) \in SUBSET F
    BY <2>3
  <2>8. Cardinality({<<c, x>>} \cup {<<c, y>>}) <= Cardinality(F)
    BY <1>3, <2>7, FS_Subset
  <2> QED
    BY <1>3, <2>6, <2>8
<1> HIDE DEF F, R, C
<1>7. Cardinality(R \cap C) <= 1 /\ Cardinality(R \cap C) \in Nat
  <2>1. IsFiniteSet({<<c, d>>}) /\ Cardinality({<<c, d>>}) = 1
    BY FS_Singleton
  <2>2. IsFiniteSet(R \cap C) /\ Cardinality(R \cap C) <= Cardinality({<<c, d>>})
    BY <1>5, <2>1, FS_Subset
  <2> QED
    BY <2>1, <2>2, FS_CardinalityType
<1>8. Cardinality(R \cup C) = Cardinality(R) + Cardinality(C) - Cardinality(R \cap C)
  BY <1>4, FS_Union
<1>9. Cardinality(R \cup C) <= Cardinality(F)
  BY <1>3, <1>4, FS_Subset
<1>10. Floor * Cardinality(F) >= 80 * Cardinality(F) /\ Floor * Cardinality(F) \in Int
  BY <1>3, FloorPositive, FloorAssumption
<1>11. 100 * Cardinality(R) >= Floor * Cardinality(F) /\ 100 * Cardinality(C) >= Floor * Cardinality(F)
  BY <1>1, <1>2 DEF R, C, F
<1> QED
  BY <1>3, <1>4, <1>6, <1>7, <1>8, <1>9, <1>10, <1>11

\* The first hypothesis of a matrix, or its mirror image, is the first one of
\* the transposed matrix.
LEMMA MirroredHardFailures ==
    ASSUME NEW m, RoundMatrix(m), AtLeastThreeNodes(m),
           DOMAIN m # {}, AgentErrors(m) = {}, Failed(m) # {}
    PROVE  HardFailureVerdicts(Transposed(m)) = MirroredAll(HardFailureVerdicts(m))
<1> DEFINE t == Transposed(m)
           h == Hypotheses(m)
           g == Hypotheses(t)
<1>1. PICK i \in 1..7 :
              /\ HardFailureVerdicts(m) = h[i]
              /\ h[i] # {}
              /\ \A j \in 1..(i - 1) : h[j] = {}
  BY FirstApplies
<1>2. /\ g[1] = h[1] /\ g[2] = h[2] /\ g[3] = MirroredAll(h[4]) /\ g[4] = MirroredAll(h[3])
      /\ g[5] = h[5] /\ g[6] = h[6] /\ g[7] = h[7]
  <2>1. /\ PairLocal(t) = PairLocal(m)
        /\ Isolated(t) = Isolated(m)
        /\ Egress(t) = MirroredAll(Ingress(m))
        /\ Ingress(t) = MirroredAll(Egress(m))
        /\ PolicyScoped(t) = PolicyScoped(m)
        /\ Partition(t) = Partition(m)
        /\ NoHypothesis(t) = NoHypothesis(m)
    BY TransposedHypotheses
  <2>2. /\ h[1] = PairLocal(m) /\ h[2] = Isolated(m) /\ h[3] = Egress(m) /\ h[4] = Ingress(m)
        /\ h[5] = PolicyScoped(m) /\ h[6] = Partition(m) /\ h[7] = NoHypothesis(m)
    BY HypothesisNumber
  <2>3. /\ g[1] = PairLocal(t) /\ g[2] = Isolated(t) /\ g[3] = Egress(t) /\ g[4] = Ingress(t)
        /\ g[5] = PolicyScoped(t) /\ g[6] = Partition(t) /\ g[7] = NoHypothesis(t)
    BY HypothesisNumber
  <2> HIDE DEF t, h, g
  <2> QED
    BY <2>1, <2>2, <2>3
<1>3. h[3] = {} \/ h[4] = {}
  BY OneDirection, HypothesisNumber
<1>4. \A V : MirroredAll(V) = {} <=> V = {}
  BY DEF MirroredAll
<1>5. i \in {3, 4} \/ MirroredAll(h[i]) = h[i]
  <2> SUFFICES ASSUME i \notin {3, 4} PROVE MirroredAll(h[i]) = h[i]
    OBVIOUS
  <2>1. \A v \in h[i] : v \in Verdicts(m)
    BY <1>1 DEF Verdicts
  <2>2. \A v \in h[i] : v \in Verdict(NodesOf(m))
    BY <2>1, RoundFinite, VerdictTyped
  <2>3. ASSUME NEW v \in h[i], v.class \in {"NodeEgressFailure", "NodeIngressFailure"}
        PROVE  FALSE
    <3>1. v \in Egress(m) \/ v \in Ingress(m)
      BY <1>1, <2>3, HardFailureOrigin
    <3>2. h[3] # {} \/ h[4] # {}
      BY <3>1, HypothesisNumber
    <3>3. i < 3
      BY <1>1, <3>2
    <3>4. i = 1 \/ i = 2
      BY <1>1, <3>3
    <3>5. v \in PairLocal(m) \/ v \in Isolated(m)
      BY <2>3, <3>4, HypothesisNumber
    <3>6. v.class = "PairLocalFailure" \/ v.class = "NodeIsolated"
      BY <3>5, RoundFinite, IsolatedNode DEF PairLocal
    <3> QED
      BY <2>3, <3>6
  <2> QED
    BY <2>2, <2>3, MirrorKeeps
\* Where the first hypothesis of the transposed matrix is.
<1> DEFINE k == IF i = 3 THEN 4 ELSE IF i = 4 THEN 3 ELSE i
<1>6. g[k] = MirroredAll(h[i])
  <2>1. i \in {1, 2, 3, 4, 5, 6, 7}
    BY <1>1
  <2> HIDE DEF g, h
  <2> QED
    BY <1>2, <1>5, <2>1
<1>7. \A j \in 1..7 : j < k => g[j] = {}
  <2> SUFFICES ASSUME NEW j \in 1..7, j < k PROVE g[j] = {}
    OBVIOUS
  <2>1. j \in {1, 2, 3, 4, 5, 6, 7} /\ i \in {1, 2, 3, 4, 5, 6, 7}
    BY <1>1
  <2> HIDE DEF g, h
  <2>2. CASE j \in {1, 2, 5, 6, 7}
    <3>1. j < i
      BY <2>1, <2>2
    <3>2. h[j] = {} /\ g[j] = h[j]
      BY <1>1, <1>2, <2>1, <2>2, <3>1
    <3> QED
      BY <3>2
  <2>3. CASE j = 3
    <3>1. h[4] = {}
      <4>1. i = 3 \/ i \in {5, 6, 7}
        BY <2>1, <2>3
      <4>2. CASE i = 3
        BY <1>1, <1>3, <4>2
      <4>3. CASE i \in {5, 6, 7}
        <5>1. 4 \in 1..(i - 1)
          BY <4>3
        <5> QED
          BY <1>1, <5>1
      <4> QED
        BY <4>1, <4>2, <4>3
    <3> QED
      BY <1>2, <1>4, <2>3, <3>1
  <2>4. CASE j = 4
    <3>1. i \in {5, 6, 7}
      BY <2>1, <2>4
    <3>2. 3 \in 1..(i - 1)
      BY <3>1
    <3> QED
      BY <1>1, <1>2, <1>4, <2>4, <3>2
  <2> QED
    BY <2>1, <2>2, <2>3, <2>4
<1>8. k \in 1..7 /\ g[k] # {}
  BY <1>1, <1>4, <1>6
<1>9. HardFailureVerdicts(t) = g[k]
  <2> HIDE DEF t, k
  <2> QED
    BY <1>7, <1>8, HypothesisInForce
<1> QED
  BY <1>1, <1>6, <1>9

\* Reversing every probe mirrors the verdict.
LEMMA MirroredVerdicts ==
    ASSUME NEW m, RoundMatrix(m), AtLeastThreeNodes(m)
    PROVE  Verdicts(Transposed(m)) = MirroredAll(Verdicts(m))
<1> DEFINE t == Transposed(m)
<1>1. /\ DOMAIN t = {} <=> DOMAIN m = {}
      /\ AgentErrors(t) = {} <=> AgentErrors(m) = {}
      /\ Failed(t) = {} <=> Failed(m) = {}
      /\ Lossy(t) = {} <=> Lossy(m) = {}
  <2>1. \A S : Swapped(S) = {} <=> S = {}
    BY DEF Swapped
  <2> QED
    BY <2>1, TransposedSets
<1>2. {p[1] : p \in Lossy(t)} \cup {p[2] : p \in Lossy(t)} = {p[1] : p \in Lossy(m)} \cup {p[2] : p \in Lossy(m)}
  <2>1. Lossy(m) \subseteq DOMAIN m
    BY DEF Lossy
  <2>2. IsFiniteSet(Lossy(m)) /\ \A p \in Lossy(m) : p = <<p[1], p[2]>>
    BY <2>1, RoundFinite, FS_Subset
  <2>3. Lossy(t) = Swapped(Lossy(m))
    BY TransposedSets
  <2>4. /\ {p[1] : p \in Swapped(Lossy(m))} = {p[2] : p \in Lossy(m)}
        /\ {p[2] : p \in Swapped(Lossy(m))} = {p[1] : p \in Lossy(m)}
    BY <2>2, SwappedCounts
  <2> QED
    BY <2>3, <2>4
<1> DEFINE hard == DOMAIN m # {} /\ AgentErrors(m) = {} /\ Failed(m) # {}
<1>3. ~hard => MirroredAll(Verdicts(m)) = Verdicts(m)
  <2> SUFFICES ASSUME ~hard PROVE MirroredAll(Verdicts(m)) = Verdicts(m)
    OBVIOUS
  <2>1. \A v \in Verdicts(m) : v.class \notin {"NodeEgressFailure", "NodeIngressFailure"}
    BY VerdictOrigin
  <2>2. \A v \in Verdicts(m) : v \in Verdict(NodesOf(m))
    BY RoundFinite, VerdictTyped
  <2> QED
    BY <2>1, <2>2, MirrorKeeps
<1> HIDE DEF t
<1>4. CASE DOMAIN m = {}
  BY <1>1, <1>3, <1>4 DEF Verdicts, t
<1>5. CASE DOMAIN m # {} /\ AgentErrors(m) # {}
  <2>1. Verdicts(t) = Verdicts(m)
    BY <1>1, <1>5 DEF Verdicts
  <2> QED
    BY <1>3, <1>5, <2>1 DEF t
<1>6. CASE hard
  <2>1. Verdicts(t) = HardFailureVerdicts(t) /\ Verdicts(m) = HardFailureVerdicts(m)
    BY <1>1, <1>6 DEF Verdicts
  <2> QED
    BY <1>6, <2>1, MirroredHardFailures DEF t
<1>7. CASE DOMAIN m # {} /\ AgentErrors(m) = {} /\ Failed(m) = {} /\ Lossy(m) # {}
  <2>1. Verdicts(t) = Verdicts(m)
    BY <1>1, <1>2, <1>7 DEF Verdicts
  <2> QED
    BY <1>3, <1>7, <2>1 DEF t
<1>8. CASE DOMAIN m # {} /\ AgentErrors(m) = {} /\ Failed(m) = {} /\ Lossy(m) = {}
  <2>1. Verdicts(t) = Verdicts(m)
    BY <1>1, <1>8 DEF Verdicts
  <2> QED
    BY <1>3, <1>8, <2>1 DEF t
<1> QED
  BY <1>4, <1>5, <1>6, <1>7, <1>8

\* Classify treats the two directions alike.
THEOREM DirectionsDual == Spec => []DirectionsAreDual
<1>1. IInv => DirectionsAreDual
  BY MirroredVerdicts DEF IInv, DirectionsAreDual, MirroredAll
<1> QED
  BY <1>1, InductiveInvariant, PTL
=============================================================================
