----------------------------- MODULE MCPollLoop -----------------------------
(* Half seconds. *)
EXTENDS PollLoop

Check(interval, timeout, count) == [interval |-> interval, probeTimeout |-> timeout, probeCount |-> count]

MCResources ==
    {Check({1}, {1}, {2}), Check({}, {3}, {}), Check({0}, {0}, {0}),
     Check({6}, {-1}, {1}), Check({6}, {-1}, {3})}

Door(token, bearer, kind, listed) == [token |-> token, bearer |-> bearer, kind |-> kind, listed |-> listed]
MCDoors == {Door("", "", "private", TRUE), Door("t", "u", "private", TRUE), Door("t", "t", "linkLocal", TRUE)}
=============================================================================
