--------------------------- MODULE StatusContract ---------------------------
(***************************************************************************)
(* What the operator promises the readers of NetworkHealthCheck statuses   *)
(* and alerts, without its polling loop, its reads and retries, its        *)
(* failures and restarts:                                                  *)
(*   - a status is written only when an interval is over that the check    *)
(*     has had since its previous status, and then not again before such   *)
(*     an interval has passed (an interval just made longer may be cut     *)
(*     short once, by a round that goes by the one before);                *)
(*   - nothing but a round changes the class a check shows;                *)
(*   - a plan is made once at most for a class, after it has been          *)
(*     published and before the next one is; it is an alert only if the    *)
(*     published class names a fault.                                      *)
(***************************************************************************)
EXTENDS Contract

CONSTANTS Names, Uids, Intervals, MaxAge

VARIABLES
    shown,      \* of each name: the object's uid, its interval, the shortest
                \* interval since its latest status, the age of that status up
                \* to MaxAge (MaxAge also without one), and the class it shows
    announced,  \* the class published and not yet planned for, or "none"
    planned     \* the action of the latest plan, or "none"

contractVars == <<shown, announced, planned>>

View(uid, age, interval, shortest, class) ==
    [uid |-> uid, age |-> age, interval |-> interval, shortest |-> shortest, class |-> class]

Absent == View(0, 0, 0, 0, "none")

Fresh(uid, interval) == View(uid, MaxAge, interval, interval, "none")

AlertClasses == HardFailureClasses \cup {"Degraded"}

Present(c) == shown[c] # Absent

ContractInit ==
    /\ shown = [c \in Names |-> Absent]
    /\ announced = "none" /\ planned = "none"

Appear(c, uid, interval) ==
    /\ ~Present(c)
    /\ shown' = [shown EXCEPT ![c] = Fresh(uid, interval)]
    /\ UNCHANGED <<announced, planned>>

Disappear(c) ==
    /\ Present(c)
    /\ shown' = [shown EXCEPT ![c] = Absent]
    /\ UNCHANGED <<announced, planned>>

\* A user gives the check another interval.
Ask(c, interval) ==
    /\ Present(c)
    /\ LET old == shown[c]
       IN  shown' = [shown EXCEPT ![c] =
                       View(old.uid, old.age, interval,
                            IF interval < old.shortest THEN interval ELSE old.shortest, old.class)]
    /\ UNCHANGED <<announced, planned>>

\* Time passes.
Age ==
    /\ shown' = [c \in Names |-> IF Present(c) /\ shown[c].age < MaxAge
                                 THEN [shown[c] EXCEPT !.age = @ + 1] ELSE shown[c]]
    /\ UNCHANGED <<announced, planned>>

\* The status may have waited to be stored, but is younger than the one it
\* replaces.  A plan may follow, or not if the controller does not learn of its
\* success.
Publish(c, class) ==
    /\ Present(c) /\ shown[c].age >= shown[c].shortest
    /\ announced = "none"
    /\ \E age \in 0..shown[c].age :
          LET old == shown[c]
          IN  shown' = [shown EXCEPT ![c] = View(old.uid, age, old.interval, old.interval, class)]
    /\ announced' \in {class, "none"}
    /\ UNCHANGED planned

MakePlan ==
    /\ announced # "none"
    /\ planned' \in {"NoAction"} \cup (IF announced \in AlertClasses THEN {"AlertOnly"} ELSE {})
    /\ announced' = "none"
    /\ UNCHANGED shown

\* The next check is taken up, or the process restarts.
Forget ==
    /\ announced' = "none" /\ planned' = "none"
    /\ UNCHANGED shown

ContractNext ==
    \/ \E c \in Names : \/ \E uid \in Uids, interval \in Intervals : Appear(c, uid, interval)
                        \/ \E interval \in Intervals : Ask(c, interval)
                        \/ Disappear(c)
                        \/ \E class \in Classes : Publish(c, class)
    \/ Age
    \/ MakePlan \/ Forget

ContractSpec == ContractInit /\ [][ContractNext]_contractVars
=============================================================================
