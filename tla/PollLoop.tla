------------------------------ MODULE PollLoop ------------------------------
(***************************************************************************)
(* The polling loop of one check in time, around the calls of its rounds:  *)
(* the ticker of Run, shouldRun with its lastProbeTime in whole seconds,   *)
(* and rounds of Calls probe calls one after the other.  All requests to   *)
(* the API server succeed and take no time; Manager is about the others.   *)
(***************************************************************************)
EXTENDS ProbeCall

CONSTANTS
    PollInterval,   \* of the ticker
    Calls           \* probe calls of a round

ASSUME PollLoopAssumption == PollInterval \in Nat \ {0} /\ Calls \in Nat

VARIABLES
    loop,       \* "wait" for a tick, or in a "round"
    ticked,     \* the ticker's channel holds a tick
    toTick,     \* time to the next tick; 0 while there is no ticker
    todo,       \* calls of the round still to be made
    second,     \* position of now within its second
    idle,       \* time since the latest status was built
    cut,        \* what lastProbeTime lacks of the time the status was built
    rounds      \* statuses built, counted to 1

loopVars == <<loop, ticked, toTick, todo, second, idle, cut, rounds>>
vars == <<callVars, loopVars>>

\* The longest time between two statuses, see Freshness.
LongestRound == Calls * (IF spec.timeout * spec.count + Second > 0
                         THEN spec.timeout * spec.count + Second ELSE 0)
LongestGap == (IF spec.interval > 0 THEN spec.interval ELSE 0) + PollInterval + LongestRound

TypeOK ==
    /\ CallTypeOK
    /\ loop \in {"wait", "round"} /\ ticked \in BOOLEAN
    /\ toTick \in 0..PollInterval /\ todo \in 0..Calls
    /\ second \in 0..(Second - 1) /\ cut \in 0..(Second - 1)
    /\ idle \in Nat /\ rounds \in 0..1
    /\ caller = "waiting" => loop = "round"

Init ==
    /\ CallInit
    /\ loop = "wait" /\ ticked = TRUE /\ toTick = 0 /\ todo = 0
    /\ second \in 0..(Second - 1) /\ idle = 0 /\ cut = 0 /\ rounds = 0

-----------------------------------------------------------------------------
\* Mutant of Due: the second that lastProbeTime may lack is allowed for twice.
DueEarly == rounds = 0 \/ spec.interval <= 0 \/ idle + cut + Second >= spec.interval

Due == rounds = 0 \/ spec.interval <= 0 \/ idle + cut >= spec.interval

PollDue ==
    /\ loop = "wait" /\ ticked /\ Due
    /\ ticked' = FALSE
    /\ loop' = "round" /\ todo' = Calls
    /\ UNCHANGED <<callVars, toTick, second, idle, cut, rounds>>

PollSkips ==
    /\ loop = "wait" /\ ticked /\ ~Due
    /\ ticked' = FALSE
    /\ UNCHANGED <<callVars, loop, toTick, todo, second, idle, cut, rounds>>

Call ==
    /\ loop = "round" /\ todo > 0
    /\ Send
    /\ todo' = todo - 1
    /\ UNCHANGED <<loop, ticked, toTick, second, idle, cut, rounds>>

\* The status is built with the time in whole seconds.  Run makes its ticker
\* when the first polling round is over.
FinishRound ==
    /\ loop = "round" /\ todo = 0 /\ caller = "idle"
    /\ loop' = "wait"
    /\ idle' = 0 /\ cut' = second /\ rounds' = 1
    /\ toTick' = IF rounds = 0 THEN PollInterval ELSE toTick
    /\ UNCHANGED <<callVars, ticked, todo, second>>

\* A tick that finds the channel full is dropped.
TimePasses ==
    /\ ~CallUrgent
    /\ ~(loop = "wait" /\ ticked) /\ ~(loop = "round" /\ caller = "idle")
    /\ CallTick
    /\ second' = (second + 1) % Second
    /\ idle' = IF rounds = 0 THEN 0 ELSE idle + 1
    /\ ticked' = (ticked \/ toTick = 1)
    /\ toTick' = IF toTick = 1 THEN PollInterval ELSE IF toTick > 0 THEN toTick - 1 ELSE 0
    /\ UNCHANGED <<loop, todo, cut, rounds>>

Next ==
    \/ PollDue \/ PollSkips \/ Call \/ FinishRound
    \/ CallNext /\ UNCHANGED loopVars
    \/ TimePasses

Spec == Init /\ [][Next]_vars

-----------------------------------------------------------------------------
\* Between the end of a round and the start of the next lies the interval, but
\* for less than the second that lastProbeTime may lack.
IntervalIsKept == [][PollDue => rounds = 0 \/ idle > spec.interval - Second]_vars

\* Whatever agents and the data plane do, the status is never older than the
\* interval, one period of the ticker and a round in which every call takes
\* its whole deadline.
Freshness == idle <= LongestGap
=============================================================================
