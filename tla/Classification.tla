--------------------------- MODULE Classification ---------------------------
(***************************************************************************)
(* The classifier run on every matrix a filtered probe round can produce,  *)
(* and what the verdicts promise.  A matrix is complete over nodes that    *)
(* have an agent; a node that runs two agents (an old pod still Running    *)
(* next to its replacement) also probes itself.                            *)
(***************************************************************************)
EXTENDS Classifier

CONSTANTS
    Nodes,      \* the nodes of the cluster
    Results,    \* the results a pair may have, measured or left by the filter
    MaxDoubled  \* bound on the nodes that run two agents

\* No assumption relates the flag of an agent error to success: the filter
\* before the classifier makes successes of the agent errors of healthy pairs
\* and leaves them their flag.
ASSUME ClassificationAssumption ==
    /\ IsFiniteSet(Nodes)
    /\ Results \subseteq ProbeResult
    /\ MaxDoubled \in Nat

\* The documented floor, or a stricter one; nothing in the code sets a lower one.
ASSUME FloorAssumption == Floor >= 80

VARIABLES
    matrix,     \* the matrix under evaluation
    verdicts    \* the verdicts it may get; empty before the evaluation

vars == <<matrix, verdicts>>

TypeOK ==
    /\ matrix \in [DOMAIN matrix -> Results]
    /\ DOMAIN matrix \subseteq Nodes \X Nodes
    /\ \A v \in verdicts :
          /\ v \in Verdict(NodesOf(matrix))
          /\ v.confidence.num <= v.confidence.den

\* The keys of a round: every ordered pair of two agents.
PairsProbed(agents, doubled) ==
    {p \in agents \X agents : p[1] # p[2] \/ p[1] \in doubled}

Init ==
    /\ \E agents \in SUBSET Nodes : \E doubled \in SUBSET agents :
          /\ Cardinality(doubled) <= MaxDoubled
          /\ matrix \in [PairsProbed(agents, doubled) -> Results]
    /\ verdicts = {}

Evaluate ==
    /\ verdicts = {}
    /\ verdicts' = Verdicts(matrix)
    /\ UNCHANGED matrix

Next == Evaluate

Spec == Init /\ [][Next]_vars

-----------------------------------------------------------------------------
Single(m) == \A n \in NodesOf(m) : <<n, n>> \notin DOMAIN m

AtLeastThreeNodes(m) == Cardinality(NodesOf(m)) >= 3

Refused(m) == {p \in Failed(m) : m[p].error = "refused"}

\* What would account for the failures: one pair, all probes out of a node or
\* into it, or the mesh as a whole.
Explained(m) ==
    \/ Cardinality(Failed(m)) = 1
    \/ \E n \in NodesOf(m) : \E probes \in {Row(DOMAIN m, n), Col(DOMAIN m, n)} :
          /\ probes # {} /\ probes \subseteq Failed(m)
          /\ 100 * Cardinality(probes) >= Floor * Cardinality(Failed(m))
    \/ 100 * Cardinality(Failed(m)) >= Floor * Cardinality(DOMAIN m)

\* What the documentation says each class means, as a predicate on the matrix.
Means(v, m) ==
    CASE v.class = "NoData" -> DOMAIN m = {}
      [] v.class = "Healthy" -> \A p \in DOMAIN m : m[p].success /\ m[p].loss < LossThreshold
      [] v.class = "Degraded" -> Failed(m) = {} /\ Lossy(m) # {}
      [] v.class = "PairLocalFailure" -> \E p \in Failed(m) : Failed(m) = {p}
      [] v.class = "NodeIsolated" -> \A n \in v.suspects : \A p \in DOMAIN m :
            n \in {p[1], p[2]} => ~m[p].success
      [] v.class = "NodeEgressFailure" -> \A n \in v.suspects : \A p \in DOMAIN m :
            p[1] = n => ~m[p].success
      [] v.class = "NodeIngressFailure" -> \A n \in v.suspects : \A p \in DOMAIN m :
            p[2] = n => ~m[p].success
      [] v.class = "PolicyScopedFailure" -> Refused(m) = DOMAIN m
      [] v.class = "ClusterPartition" -> 5 * Cardinality(Failed(m)) >= 4 * Cardinality(DOMAIN m)
      [] v.class = "Unknown" -> AgentErrors(m) # {} \/ (Failed(m) # {} /\ ~Explained(m))

\* Every verdict is true of the matrix it was given for, in the sense the
\* documentation gives to its class; and a control-channel error anywhere, one
\* that the filter has made a success included, admits no other class than
\* Unknown.
VerdictsAreTrue ==
    \A v \in verdicts :
        /\ Means(v, matrix)
        /\ AgentErrors(matrix) # {} => v.class = "Unknown"

\* The random order of map iteration cannot show: on three or more nodes the
\* verdict, its suspects and its confidence are a function of the matrix.
VerdictIsDeterministic ==
    AtLeastThreeNodes(matrix) => Cardinality(verdicts) <= 1

\* Whom a verdict blames accounts for the failures: without the pairs of the
\* suspects, in the direction the class names, at most the share of failures
\* the confidence floor leaves unexplained remains.  (Stated where no node
\* runs two agents: there the pair of a node with itself is counted twice.)
BlameExplainsFailures ==
    \A v \in verdicts : v.class \in HardFailureClasses /\ Single(matrix) =>
        LET blamed(p) == CASE v.class = "NodeEgressFailure"  -> p[1] \in v.suspects
                           [] v.class = "NodeIngressFailure" -> p[2] \in v.suspects
                           [] OTHER -> p[1] \in v.suspects \/ p[2] \in v.suspects
        IN  100 * Cardinality({p \in Failed(matrix) : ~blamed(p)})
                <= (100 - Floor) * Cardinality(Failed(matrix))

\* The matrix that sees every probe in the other direction.
Transposed(m) ==
    [p \in {<<q[2], q[1]>> : q \in DOMAIN m} |-> m[<<p[2], p[1]>>]]

Mirrored(v) ==
    [v EXCEPT !.class = CASE v.class = "NodeEgressFailure"  -> "NodeIngressFailure"
                          [] v.class = "NodeIngressFailure" -> "NodeEgressFailure"
                          [] OTHER -> v.class]

\* Ingress and egress are one analysis seen from two sides: reversing every
\* probe exchanges the two verdicts and leaves all others alone.
DirectionsAreDual ==
    verdicts # {} /\ AtLeastThreeNodes(matrix) =>
        Verdicts(Transposed(matrix)) = {Mirrored(v) : v \in verdicts}

\* The faults the classes are made for, alone in a mesh of three or more
\* nodes, are named for what they are with the right suspects: one pair, all
\* probes out of a node, all into it, both, or every probe of the mesh.
\* (The fixtures of the classifier's tests are instances of these.)
FaultsAreNamed ==
    verdicts # {} /\ AgentErrors(matrix) = {} /\ AtLeastThreeNodes(matrix) /\ Single(matrix) =>
        LET named(class, nodes) == \A v \in verdicts : v.class = class /\ v.suspects = nodes
            all == DOMAIN matrix
        IN  /\ \A p \in all : Failed(matrix) = {p} => named("PairLocalFailure", {p[1], p[2]})
            /\ \A n \in NodesOf(matrix) :
                  /\ Failed(matrix) = Row(all, n) => named("NodeEgressFailure", {n})
                  /\ Failed(matrix) = Col(all, n) => named("NodeIngressFailure", {n})
                  /\ Failed(matrix) = Row(all, n) \cup Col(all, n) => named("NodeIsolated", {n})
            /\ Failed(matrix) = all =>
                  named(IF Refused(matrix) = all THEN "PolicyScopedFailure" ELSE "ClusterPartition",
                        NodesOf(matrix))
=============================================================================
