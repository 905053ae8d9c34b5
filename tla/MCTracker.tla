----------------------------- MODULE MCTracker ------------------------------
(* Two pairs, every kind of outcome, six rounds for each pair. *)
EXTENDS Tracker

MCPairs == {<<"a", "b">>, <<"b", "a">>}
MCResults == {Reached(0), Unreachable("timeout"), ControlFailure}
=============================================================================
