---------------------------- MODULE MCProbeRound ----------------------------
(* No agent, one, two, and three of which two share a node. *)
EXTENDS ProbeRound

MCRosters == {<<>>, <<"a">>, <<"a", "b">>, <<"a", "a", "b">>}
MCAnswers == {Reached(0), ControlFailure}
MCLimits == {0, 2}
=============================================================================
