----------------------------- MODULE Remediation ----------------------------
(***************************************************************************)
(* The remediation plan made of a verdict (code/internal/controller/       *)
(* remediation.go).  Planning is all there is: ExecuteRemediation returns  *)
(* without an effect for every plan, so no action of the models stands for *)
(* it.                                                                     *)
(***************************************************************************)
EXTENDS Contract

MinimumConfidence == 80     \* percent

FaultClasses == HardFailureClasses \cup {"Degraded"}

\* remediation.enabled changes the wording of the reason only.
PlanRemediation(verdict, dryRun) ==
    [action  |-> IF /\ verdict.class \in FaultClasses
                    /\ AtLeastPercent(verdict.confidence, MinimumConfidence)
                 THEN "AlertOnly" ELSE "NoAction",
     targets |-> verdict.suspects,
     dryRun  |-> dryRun,
     execute |-> FALSE]
=============================================================================
