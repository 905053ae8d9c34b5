------------------------------ MODULE Contract ------------------------------
(***************************************************************************)
(* The vocabulary shared by agents, controller and classifier              *)
(* (code/pkg/contract/types.go).                                           *)
(*                                                                         *)
(* A directed pair is the tuple <<src, dst>>; the code's map key is the    *)
(* string "src->dst".  A Matrix is a function whose domain is the set of   *)
(* pairs that have an entry.  Of a ProbeResult only the fields that some   *)
(* decision reads are kept: Success, LossRate (in whole percent), Error    *)
(* (by the few kinds a decision or a status reader tells apart) and        *)
(* AgentError.  RTT, jitter, byte counts and durations are carried through *)
(* unread by the code and are left out.                                    *)
(***************************************************************************)
EXTENDS Integers, FiniteSets

\* "refused", "timeout": what the data plane answered; "control": the agent
\* could not be asked; the last two are written by the hysteresis filter.
Errors == {"none", "refused", "timeout", "control", "suppressed", "pending"}

ProbeResult == [success : BOOLEAN, loss : 0..100, error : Errors, agentError : BOOLEAN]

\* A pair with at least one acknowledged probe; l percent of them were lost.
Reached(l) == [success    |-> TRUE,
               loss       |-> l,
               error      |-> IF l = 0 THEN "none" ELSE "timeout",
               agentError |-> FALSE]

\* A pair none of whose probes was acknowledged: a hard data-plane failure.
Unreachable(e) == [success |-> FALSE, loss |-> 100, error |-> e, agentError |-> FALSE]

\* The agent could not be reached, refused the request or gave up on it.
ControlFailure == [success |-> FALSE, loss |-> 100, error |-> "control", agentError |-> TRUE]

NoMatrix == [p \in {} |-> ControlFailure]

Classes == {"Healthy", "PairLocalFailure", "NodeIngressFailure", "NodeEgressFailure",
            "NodeIsolated", "ClusterPartition", "PolicyScopedFailure", "Unknown",
            "NoData", "Degraded"}

\* Classes that assert a hard failure of the data plane.
HardFailureClasses == {"PairLocalFailure", "NodeIngressFailure", "NodeEgressFailure",
                       "NodeIsolated", "ClusterPartition", "PolicyScopedFailure"}

\* Confidence is the fraction num/den of a float64; decisions on it are made
\* by cross-multiplication.
Confidence == [num : Nat, den : Nat \ {0}]

AtLeastPercent(conf, percent) == 100 * conf.num >= percent * conf.den

Certain == [num |-> 1, den |-> 1]
NoConfidence == [num |-> 0, den |-> 1]

Verdict(nodes) == [class : Classes, confidence : Confidence, suspects : SUBSET nodes]
=============================================================================
