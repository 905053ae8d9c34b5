----------------------------- MODULE MCManager ------------------------------
(* Two nodes and one or two checks. *)
EXTENDS Manager, TLC

Mesh == {<<"a", "b">>, <<"b", "a">>}
MCKeyRank == (<<"a", "b">> :> 1) @@ (<<"b", "a">> :> 2)

All(r) == [p \in Mesh |-> r]
Sound == All(Reached(0))
Outage == [p \in Mesh |-> IF p[1] = "a" THEN Unreachable("refused") ELSE Reached(0)]
Mute == [p \in Mesh |-> IF p[1] = "a" THEN ControlFailure ELSE Reached(0)]

Quick == [cfg |-> Config(2, 1), interval |-> 1, valid |-> TRUE, dryRun |-> FALSE]
Slow == [cfg |-> Config(2, 1), interval |-> 2, valid |-> TRUE, dryRun |-> TRUE]
Broken == [cfg |-> Config(2, 1), interval |-> 1, valid |-> FALSE, dryRun |-> FALSE]

OneCheck == {"c1"}
TwoChecks == {"c1", "c2"}

SafetySpecs == "c1" :> {Quick, Slow, Broken}
SafetyMatrices == {Sound, Outage}

\* The second check never parses.
LiveSpecs == ("c1" :> {Quick, Broken}) @@ ("c2" :> {Broken})

\* Different thresholds.
Stubborn == [Quick EXCEPT !.cfg = Config(3, 1)]
SharedSpecs == ("c1" :> {Quick}) @@ ("c2" :> {Stubborn})
OutageOnly == {Outage}
=============================================================================
