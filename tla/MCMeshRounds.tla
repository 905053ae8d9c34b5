---------------------------- MODULE MCMeshRounds ----------------------------
(***************************************************************************)
(* Three nodes.  The matrices are the situations the design talks about:   *)
(* a sound mesh, loss on one pair, one failed pair, a node cut off in one  *)
(* or both directions, a dead mesh, an agent that cannot be asked, a node  *)
(* without an agent, and no agents at all.                                 *)
(***************************************************************************)
EXTENDS MeshRounds, TLC

MCNodes == {"a", "b", "c"}
Mesh == {p \in MCNodes \X MCNodes : p[1] # p[2]}

MCKeyRank == (<<"a", "b">> :> 1) @@ (<<"a", "c">> :> 2) @@ (<<"b", "a">> :> 3) @@
             (<<"b", "c">> :> 4) @@ (<<"c", "a">> :> 5) @@ (<<"c", "b">> :> 6)

Timeout == Unreachable("timeout")
With(S, r) == [p \in Mesh |-> IF p \in S THEN r ELSE Reached(0)]

Sound == With({}, Timeout)
LossyPair == With({<<"b", "c">>, <<"c", "b">>}, Reached(40))
PairDown == With({<<"b", "c">>}, Timeout)
EgressDown == With(Row(Mesh, "b"), Timeout)
NodeDown == With(Row(Mesh, "b") \cup Col(Mesh, "b"), Timeout)
MeshDown == With(Mesh, Timeout)
MuteAgent == With(Row(Mesh, "b"), ControlFailure)
WithoutC == [p \in {<<"a", "b">>, <<"b", "a">>} |-> Reached(0)]

MCMatrices == {Sound, LossyPair, PairDown, EgressDown, NodeDown, MeshDown, MuteAgent, WithoutC, NoMatrix}
OneConfig == {Config(3, 2)}

\* The few situations in which the documentation's statements fail.
OutageOnly == {MeshDown}
MuteThenSound == {Sound, MuteAgent}

MCConfigs == {Config(3, 2), Config(2, 0)}
=============================================================================
