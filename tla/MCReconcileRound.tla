-------------------------- MODULE MCReconcileRound ---------------------------
(* No agent, one, two, and two on one node; up to two calls at a time. *)
EXTENDS ReconcileRound, TLC

MCRosters == {<<>>, <<"a">>, <<"a", "b">>, <<"a", "a">>}
MCAnswers == {Reached(0), ControlFailure}
MCLimits == {0, 2}
MCConfigs == {Config(2, 1), Config(1, 1)}
MCMatrices == UNION {[Goroutines!Keys(agents) -> MCAnswers] : agents \in MCRosters}
MCKeyRank == (<<"a", "a">> :> 1) @@ (<<"a", "b">> :> 2) @@ (<<"b", "a">> :> 3)
=============================================================================
