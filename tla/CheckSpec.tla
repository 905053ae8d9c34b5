----------------------------- MODULE CheckSpec ------------------------------
(***************************************************************************)
(* How the probe settings of a NetworkHealthCheck reach the parts that use *)
(* them.  Defaults are filled in four times, each time for other values:   *)
(* networkHealthCheckSpecFromResource and Reconcile in the controller,     *)
(* probeEndpoint before the request, ParseProbeOptions in the agent.       *)
(*                                                                         *)
(* A field of a resource is the set of its values: empty if the field is   *)
(* absent.  Durations are in the units of which a second has Second.       *)
(***************************************************************************)
EXTENDS Integers, FiniteSets

CONSTANTS
    Second,
    DefaultInterval,    \* 15 s
    DefaultTimeout,     \* 2 s
    DefaultCount        \* 5 probes

ASSUME CheckSpecAssumption ==
    /\ Second \in Nat \ {0} /\ DefaultInterval \in Nat \ {0}
    /\ DefaultTimeout \in Nat \ {0} /\ DefaultCount \in Nat \ {0}

Resource == [interval : SUBSET Int, probeTimeout : SUBSET Int, probeCount : SUBSET Int]

OrElse(field, default) == IF field = {} THEN default ELSE CHOOSE value \in field : TRUE

\* Durations are taken as they are, whatever their sign; a count must be positive.
ParseSpec(resource) ==
    [interval |-> OrElse(resource.interval, DefaultInterval),
     timeout  |-> OrElse(resource.probeTimeout, DefaultTimeout),
     count    |-> OrElse({n \in resource.probeCount : n > 0}, DefaultCount)]

\* Reconcile replaces a timeout of zero, not a negative one.
Reconciled(spec) == [spec EXCEPT !.timeout = IF @ = 0 THEN DefaultTimeout ELSE @]

\* Mutant of AgentTimeout: the timeout asked for is not read.
AgentTimeoutDefault(spec) == DefaultTimeout

\* The agent takes its own default for any timeout that is not positive.
AgentTimeout(spec) == IF spec.timeout > 0 THEN spec.timeout ELSE DefaultTimeout

\* Mutant of Deadline: time enough for a dial and an exchange per probe.
DeadlineForBoth(spec) == 2 * spec.timeout * spec.count + Second

\* Mutant of Deadline: the probes of a call are not multiplied.
DeadlineOfOne(spec) == spec.timeout + Second

\* What the controller grants one call: a timeout per probe and one second.
Deadline(spec) == spec.timeout * spec.count + Second
=============================================================================
