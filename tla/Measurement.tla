---------------------------- MODULE Measurement -----------------------------
(***************************************************************************)
(* What one probe round promises, without its goroutines: for the agents   *)
(* it was started with, every ordered pair of them is asked, and the round *)
(* ends with a matrix that has exactly their keys, each with an answer     *)
(* given in this round.                                                    *)
(***************************************************************************)
EXTENDS Contract, Sequences

CONSTANTS
    Rosters,    \* lists of agents, each the name of its node
    Answers     \* what one probe call may return

ASSUME MeasurementAssumption ==
    /\ Answers \subseteq ProbeResult
    /\ \A agents \in Rosters : IsFiniteSet(DOMAIN agents)

VARIABLES
    roster,     \* agents of the round
    running,
    given,      \* per key, the answers given in this round
    result      \* what the round returned; NoMatrix while one is running

measurementVars == <<roster, running, given, result>>

\* Pairs of agents by position, and the key under which a pair is stored: two
\* agents on one node share their keys.
Calls(agents) == {c \in (DOMAIN agents) \X (DOMAIN agents) : c[1] # c[2]}
Key(agents, c) == <<agents[c[1]], agents[c[2]]>>
Keys(agents) == {Key(agents, c) : c \in Calls(agents)}

MInit ==
    /\ roster = <<>>
    /\ running = FALSE
    /\ given = [p \in {} |-> {}]
    /\ result = NoMatrix

Begin(agents) ==
    /\ ~running
    /\ running' = TRUE
    /\ roster' = agents
    /\ given' = [p \in Keys(agents) |-> {}]
    /\ result' = NoMatrix

Give(p, r) ==
    /\ running
    /\ given' = [given EXCEPT ![p] = @ \cup {r}]
    /\ UNCHANGED <<roster, running, result>>

End ==
    /\ running
    /\ running' = FALSE
    /\ DOMAIN result' = Keys(roster)
    /\ \A p \in Keys(roster) : result'[p] \in given[p]
    /\ UNCHANGED <<roster, given>>

MNext ==
    \/ \E agents \in Rosters : Begin(agents)
    \/ \E p \in Keys(roster), r \in Answers : Give(p, r)
    \/ End

MSpec == MInit /\ [][MNext]_measurementVars
=============================================================================
