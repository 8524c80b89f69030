--------------------------- MODULE MCGovernedRun ---------------------------
(***************************************************************************)
(* Instances of GovernedRun for TLC.  The scripts are src/lib/agents/      *)
(* script.ts with steps of the same kind merged: what the executor tells   *)
(* apart is whether a step has an action, an artifact, the gated flag, and *)
(* whether its event is PR_DRAFTED or terminal.                            *)
(***************************************************************************)
EXTENDS GovernedRun, TLC

\* Reviewers other than the requester are interchangeable, and so are processes.
MCSymmetry == Permutations(Users \ {Requester}) \cup Permutations(Procs)

Step(event, action, gated, artifact) ==
  [event |-> event, action |-> action, gated |-> gated, artifact |-> artifact]

\* PROPOSE_CODE_CHANGE: narration, an allowed action with an artifact, the
\* gate, the pull request (same action, not gated), the terminal step.
ProposeSteps ==
  <<Step("SANDBOX_PREPARED", NoAction, FALSE, FALSE),
    Step("DIFF_CAPTURED", "INSPECT_DIFF", FALSE, TRUE),
    Step("APPROVAL_REQUESTED", "CREATE_PULL_REQUEST", TRUE, FALSE),
    Step("PR_DRAFTED", "CREATE_PULL_REQUEST", FALSE, FALSE),
    Step("RUN_SUCCEEDED", NoAction, FALSE, FALSE)>>

\* The same script from its diff on, for the instances with many requests.
DeliverySteps == SubSeq(ProposeSteps, 2, 5)

\* PLAN_ONLY: narration with an artifact, governed reads, the terminal step.
PlanSteps ==
  <<Step("PLAN_CREATED", NoAction, FALSE, TRUE),
    Step("TOOL_CALL", "READ_FILE", FALSE, FALSE),
    Step("AGENT_PROGRESS", NoAction, FALSE, TRUE),
    Step("RUN_SUCCEEDED", NoAction, FALSE, FALSE)>>

Indexed(steps) == [i \in 0 .. Len(steps) - 1 |-> steps[i + 1]]

MCProposeScript == Indexed(ProposeSteps)
MCDeliveryScript == Indexed(DeliverySteps)
MCPlanScript == Indexed(PlanSteps)

\* The built-in rules: inspection is allowed, a pull request needs approval.
MCVerdicts ==
  [a \in {"INSPECT_DIFF", "READ_FILE", "CREATE_PULL_REQUEST"} |->
     IF a = "CREATE_PULL_REQUEST" THEN {"APPROVAL_REQUIRED"} ELSE {"ALLOWED"}]

\* Both scripts and the rules are such as the theorem about the gate asks for.
ASSUME ScriptIsGuarded == GateGuarded

\* Rules that are edited while the run is under way.
MCEditedVerdicts ==
  [MCVerdicts EXCEPT !["INSPECT_DIFF"] = {"ALLOWED", "DENIED"}]

-----------------------------------------------------------------------------
(* Departures: what comments of the code say and the code does not do.  No
   run spends its time on them; README, section 7, says how to see each. *)

\* approvals.ts:56-58: no run is left parked on a gate already answered.
NoAnsweredGateParks == Quiet /\ status = "AWAITING_APPROVAL" => PendingGates # {}

\* mock-executor.ts:491-492: no PENDING request against a finished run.
NoGateAfterFinish == Quiet /\ status \in Terminal => PendingGates = {}

\* prisma/schema.prisma:432-433: activeTaskId is null once terminal.
SlotFreedWhenFinished == Quiet /\ status \in Terminal => ~slotHeld

\* prisma/schema.prisma:772-774, "cannot proceed past the requested action
\* while this is PENDING".
PendingGateBlocks ==
  [][PendingGates # {} => (log' = log \/ log'[Len(log')].actor # "agent")]_vars

\* interventions.ts:123, "Record the human's intent exactly once".
CancelRecordedOnce ==
  Cardinality({i \in DOMAIN log : log[i].type = "CANCELLATION_REQUESTED"}) <= 1

\* interventions.ts:97-98: a cancel recorded while the run is RUNNING, here
\* before its first step, ends the run CANCELLED.
CancelIsObserved ==
  (cancelRequested /\ status = "RUNNING" /\ Cursor = 0) ~> status = "CANCELLED"
=============================================================================
