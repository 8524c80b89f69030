---------------------------- MODULE GovernedRun ----------------------------
(***************************************************************************)
(* One governed run of the AgentGuard control plane: the mock executor and *)
(* its driver loop (src/lib/agents/mock-executor.ts, driver.ts), the       *)
(* approval gate (approvals.ts, approval-routes.ts) and the human          *)
(* interventions that act on the same row (interventions.ts and the routes *)
(* under app/api/runs/[runId]).                                            *)
(*                                                                         *)
(* The database is the shared state.  Every awaited database call is one   *)
(* action, so two calls of one handler can be separated by anything        *)
(* another handler, another server process or a crash does.  A Prisma      *)
(* transaction that reads first and writes later runs under READ COMMITTED *)
(* and takes no lock while reading: it is a read action followed by a      *)
(* commit action.                                                          *)
(*                                                                         *)
(* Abstracted: payload text, timestamps, run versions, notifications and   *)
(* the retry inside appendRunEvent, whose effect is one new event at the   *)
(* end of the run's log.                                                   *)
(***************************************************************************)
EXTENDS Integers, Sequences, FiniteSets, FiniteSetsExt

CONSTANTS
  Procs,       \* server processes, each with its own activeDrivers set
  NoProc,      \* no process: the user has no request in flight
  Users,       \* members of the room
  Requester,   \* the member who created the run
  Approvers,   \* members holding approval:decide (Admin and Reviewer)
  Script,      \* the steps of the run's mode, indexed from 0
  Verdicts,    \* the outcomes the rule set may give for an action
  Operations,  \* the requests members send in this instance
  MaxRequests, \* bound: requests the members send in one behaviour
  MaxFaults    \* bound: process crashes and failed driver calls

NoAction == "NONE"     \* a narration step: policyContextFor returns null
NoStep == -1           \* an event without a stepIndex in its payload

Outcomes == {"ALLOWED", "DENIED", "APPROVAL_REQUIRED"}
ScriptStep == [event : STRING, action : STRING,
               gated : BOOLEAN, artifact : BOOLEAN]

\* The routes that change a governed run, the two decisions included.
AllOperations == {"simulate", "pause", "resume", "cancel", "redirect",
                  "APPROVE", "REJECT"}

ASSUME ProcsAssumption == NoProc \notin Procs
ASSUME UsersAssumption == Requester \in Users /\ Approvers \subseteq Users
ASSUME ScriptAssumption == /\ DOMAIN Script \subseteq Nat
                           /\ Script \in [DOMAIN Script -> ScriptStep]
ASSUME VerdictsAssumption ==
  \A i \in DOMAIN Script : Script[i].action # NoAction =>
    Verdicts[Script[i].action] \in SUBSET Outcomes
ASSUME OperationsAssumption == Operations \subseteq AllOperations
ASSUME BoundsAssumption == MaxRequests \in Nat /\ MaxFaults \in Nat

Steps == DOMAIN Script

VARIABLES
  status,           \* AgentRun.status
  cancelRequested,  \* AgentRun.cancelRequestedAt is set
  slotHeld,         \* AgentRun.activeTaskId still names the task
  log,              \* the run's RunEvent rows in sequence order
  decisions,        \* ApprovalDecision rows
  gates,            \* ApprovalRequest rows; activeRunId = runId iff PENDING
  policyRows,       \* PolicyDecision rows: step and outcome
  artifacts,        \* steps whose RunArtifact row was written
  prLink,           \* a PullRequestLink row exists for the run
  sealed,           \* events the EvidenceReport covers, 0 without a report
  drv,              \* per process: driveRun / advanceRun in progress
  req,              \* per member: the request the member has in flight
  sent, faults      \* counters for the two bounds

rowVars == <<status, cancelRequested, slotHeld>>
trailVars == <<policyRows, artifacts, sealed>>
gateVars == <<gates, decisions>>
boundVars == <<sent, faults>>
vars == <<rowVars, log, trailVars, gateVars, prLink, drv, req, boundVars>>

-----------------------------------------------------------------------------
(* Types *)

\* AgentRun.status values a governed run can take.
RunStatus == {"QUEUED", "RUNNING", "PAUSED", "AWAITING_APPROVAL",
              "SUCCEEDED", "FAILED", "CANCELLED"}
Terminal == {"SUCCEEDED", "FAILED", "CANCELLED"}

\* RunEvent rows: what the control plane and the members record, and the
\* agent's own events, which the script names.
ControlEvents ==
  {"RUN_CREATED", "RUN_PAUSED", "RUN_RESUMED", "RUN_SUCCEEDED", "RUN_FAILED",
   "RUN_CANCELLED", "CANCELLATION_REQUESTED", "REDIRECT_REQUESTED",
   "POLICY_EVALUATED", "POLICY_DENIED", "APPROVAL_REQUESTED",
   "APPROVAL_GRANTED", "APPROVAL_REJECTED", "SANDBOX_DESTROYED",
   "EVIDENCE_FINALIZED"}
Event == [type : ControlEvents \cup {Script[i].event : i \in Steps},
          actor : {"user", "reviewer", "system", "agent"}, step : Int]

DriverPc == {"idle", "load", "cursor", "policy", "grant", "evaluated",
             "denied", "findGate", "createGate", "requested", "park",
             "artifact", "event", "pullRequest", "finish", "closeGates",
             "teardown", "settle", "seal", "sealEvent", "leave"}

\* The locals of driveRun and advanceRun that outlive an await; At(label) before
\* a step is chosen.
Driver == [pc : DriverPc, step : Int, outcome : Terminal]
At(label) == [pc |-> label, step |-> NoStep, outcome |-> "SUCCEEDED"]
NoDriver == At("idle")

\* The locals of a route handler: what it read before its next write.
Request == [op : AllOperations \cup {"none"}, pc : {"read", "commit", "record", "close"},
            proc : Procs \cup {NoProc}, gate : Nat,
            atGate : BOOLEAN, asked : BOOLEAN]
NoRequest == [op |-> "none", pc |-> "read", proc |-> NoProc, gate |-> 0,
              atGate |-> FALSE, asked |-> FALSE]

\* One ApprovalRequest row and one ApprovalDecision row.
Gate == [action : {Script[i].action : i \in Steps},
         status : {"PENDING", "APPROVED", "REJECTED", "CANCELLED"}]
Decision == [gate : Nat, reviewer : Users, decision : {"APPROVE", "REJECT"}]

TypeOK ==
  /\ status \in RunStatus
  /\ cancelRequested \in BOOLEAN
  /\ slotHeld \in BOOLEAN
  /\ log \in Seq(Event)
  /\ gates \in Seq(Gate)
  /\ decisions \subseteq Decision
  /\ policyRows \subseteq (Steps \X Outcomes)
  /\ artifacts \subseteq Steps
  /\ prLink \in BOOLEAN
  /\ sealed \in Nat
  /\ drv \in [Procs -> Driver]
  /\ req \in [Users -> Request]
  /\ sent \in Nat
  /\ faults \in Nat

-----------------------------------------------------------------------------
(* Helpers *)

Entry(type, actor, step) == [type |-> type, actor |-> actor, step |-> step]

\* appendRunEvent: one more event at the end of the run's log.
Record(type, actor, step) == log' = Append(log, Entry(type, actor, step))

\* Faulty variant: the cursor counts the events performed by the agent.
CursorCountsPerformed == Cardinality({i \in DOMAIN log : log[i].actor = "agent"})

\* currentStepIndex: the highest stepIndex in the log, plus one.
Cursor == Max({NoStep} \cup {log[i].step : i \in DOMAIN log}) + 1

\* The one gate waiting for an answer (status PENDING), if any.
PendingGates == {g \in DOMAIN gates : gates[g].status = "PENDING"}

\* Faulty variant: any request for the action counts, answered or not.
GrantedByAnyRequest(action) == \E g \in DOMAIN gates : gates[g].action = action

\* advanceRun's search for an approval granted to this action of this run.
Granted(action) ==
  \E g \in DOMAIN gates : gates[g].action = action /\ gates[g].status = "APPROVED"

Goto(p, label) == drv' = [drv EXCEPT ![p].pc = label]

\* The same, with the outcome finishRun will be given.
Conclude(p, label, outcome) ==
  drv' = [drv EXCEPT ![p] = [pc |-> label, step |-> drv[p].step, outcome |-> outcome]]

\* The drive ends and activeDrivers forgets the run (driveRun's finally).
Stop(p) == drv' = [drv EXCEPT ![p] = NoDriver]

\* driveRunInBackground: refused when this process already drives the run.
Driving(p) == drv[p].pc # "idle"
Drive(p) == IF Driving(p) THEN drv ELSE [drv EXCEPT ![p] = At("load")]

\* A member sends a request; `fields` holds what the handler's read returned.
Send(u, request) ==
  /\ req[u].op = "none"
  /\ request.op \in Operations
  /\ sent < MaxRequests
  /\ req' = [req EXCEPT ![u] = request]
  /\ sent' = sent + 1

\* The handler of u's request returns.
Done(u) == req' = [req EXCEPT ![u] = NoRequest]

InFlight(u, op, pc) == req[u].op = op /\ req[u].pc = pc

Init ==
  /\ status = "QUEUED"
  /\ cancelRequested = FALSE
  /\ slotHeld = TRUE
  /\ log = <<Entry("RUN_CREATED", "user", NoStep)>>
  /\ gates = <<>>
  /\ decisions = {}
  /\ policyRows = {}
  /\ artifacts = {}
  /\ prLink = FALSE
  /\ sealed = 0
  /\ drv = [p \in Procs |-> NoDriver]
  /\ req = [u \in Users |-> NoRequest]
  /\ sent = 0
  /\ faults = 0

-----------------------------------------------------------------------------
(* The driver: driveRun calls advanceRun until it stops advancing *)

\* advanceRun reads the run row.  PAUSED, AWAITING_APPROVAL and finished runs
\* end the drive; whether a gate is pending only changes the return value.
\* The status read here is not read again before the step is over.
LoadRun(p) ==
  /\ drv[p].pc = "load"
  /\ Goto(p, IF status \in {"RUNNING", "QUEUED"} THEN "cursor" ELSE "leave")
  /\ UNCHANGED <<rowVars, log, trailVars, gateVars, prLink, req, boundVars>>

\* currentStepIndex picks the step.  Past the end of the script the run is
\* finished; a narration step skips the policy engine.
\* setStatus(RUNNING) for a QUEUED run is part of this action: every caller of
\* driveRun has already moved the run to RUNNING, so that write changes nothing.
ReadCursor(p) ==
  /\ drv[p].pc = "cursor"
  /\ LET known == Cursor \in Steps
         next == IF ~known THEN "finish"
                 ELSE IF Script[Cursor].action = NoAction THEN "artifact" ELSE "policy"
     IN drv' = [drv EXCEPT ![p] = [pc |-> next, step |-> IF known THEN Cursor ELSE NoStep,
                                   outcome |-> "SUCCEEDED"]]
  /\ UNCHANGED <<rowVars, log, trailVars, gateVars, prLink, req, boundVars>>

\* enforceAction: evaluate the rules in force now and store the decision.
EnforceAction(p) ==
  /\ drv[p].pc = "policy"
  /\ \E verdict \in Verdicts[Script[drv[p].step].action] :
       /\ policyRows' = policyRows \cup {<<drv[p].step, verdict>>}
       /\ Goto(p, CASE verdict = "ALLOWED" -> "evaluated"
                    [] verdict = "DENIED" -> "denied"
                    [] verdict = "APPROVAL_REQUIRED" -> "grant")
  /\ UNCHANGED <<rowVars, log, artifacts, sealed, gateVars, prLink, req, boundVars>>

\* APPROVAL_REQUIRED: look for an APPROVED request for (run, action).
FindGrant(p) ==
  /\ drv[p].pc = "grant"
  /\ LET step == Script[drv[p].step]
     IN Goto(p, IF Granted(step.action) THEN "evaluated"
                ELSE IF step.gated THEN "findGate" ELSE "denied")
  /\ UNCHANGED <<rowVars, log, trailVars, gateVars, prLink, req, boundVars>>

\* POLICY_EVALUATED carries the step index, so it moves the cursor.
RecordEvaluated(p) ==
  /\ drv[p].pc = "evaluated"
  /\ Record("POLICY_EVALUATED", "system", drv[p].step)
  /\ Goto(p, "artifact")
  /\ UNCHANGED <<rowVars, trailVars, gateVars, prLink, req, boundVars>>

\* POLICY_DENIED carries the step index too; the run then finishes FAILED.
RecordDenied(p) ==
  /\ drv[p].pc = "denied"
  /\ Record("POLICY_DENIED", "system", drv[p].step)
  /\ Conclude(p, "finish", "FAILED")
  /\ UNCHANGED <<rowVars, trailVars, gateVars, prLink, req, boundVars>>

\* openApprovalGate returns the PENDING request when there is one.
FindGate(p) ==
  /\ drv[p].pc = "findGate"
  /\ Goto(p, IF PendingGates # {} THEN "requested" ELSE "createGate")
  /\ UNCHANGED <<rowVars, log, trailVars, gateVars, prLink, req, boundVars>>

\* Faulty variant: the insert without the unique index.
CreateGateUnchecked(p) ==
  /\ drv[p].pc = "createGate"
  /\ gates' = Append(gates, [action |-> Script[drv[p].step].action, status |-> "PENDING"])
  /\ Goto(p, "requested")
  /\ UNCHANGED <<rowVars, log, trailVars, decisions, prLink, req, boundVars>>

\* The insert.  ApprovalRequest.activeRunId is unique, so with another PENDING
\* request the insert throws and the drive ends.
CreateGate(p) ==
  /\ drv[p].pc = "createGate"
  /\ IF PendingGates = {}
     THEN /\ gates' = Append(gates, [action |-> Script[drv[p].step].action,
                                     status |-> "PENDING"])
          /\ Goto(p, "requested")
     ELSE /\ Stop(p)
          /\ UNCHANGED gates
  /\ UNCHANGED <<rowVars, log, trailVars, decisions, prLink, req, boundVars>>

RecordRequested(p) ==
  /\ drv[p].pc = "requested"
  /\ Record("APPROVAL_REQUESTED", "system", drv[p].step)
  /\ Goto(p, "park")
  /\ UNCHANGED <<rowVars, trailVars, gateVars, prLink, req, boundVars>>

\* setStatus(AWAITING_APPROVAL), whatever the status is by now.
Park(p) ==
  /\ drv[p].pc = "park"
  /\ status' = "AWAITING_APPROVAL"
  /\ Goto(p, "leave")
  /\ UNCHANGED <<cancelRequested, slotHeld, log, trailVars, gateVars, prLink, req, boundVars>>

\* writeArtifact, then the terminal steps go to finishRun.
WriteArtifact(p) ==
  /\ drv[p].pc = "artifact"
  /\ LET step == Script[drv[p].step]
     IN /\ artifacts' = IF step.artifact THEN artifacts \cup {drv[p].step} ELSE artifacts
        /\ Conclude(p, IF step.event \in {"RUN_SUCCEEDED", "RUN_FAILED"}
                       THEN "finish" ELSE "event",
                    IF step.event = "RUN_FAILED" THEN "FAILED" ELSE "SUCCEEDED")
  /\ UNCHANGED <<rowVars, log, policyRows, sealed, gateVars, prLink, req, boundVars>>

\* After a step driveRun calls advanceRun again unless it was the last one.
NextCall(p) ==
  LET next == IF \E i \in Steps : i > drv[p].step THEN "load" ELSE "leave"
  IN drv' = [drv EXCEPT ![p] = At(next)]

\* The step's own event, emitted by the agent.
RecordStep(p) ==
  /\ drv[p].pc = "event"
  /\ Record(Script[drv[p].step].event, "agent", drv[p].step)
  /\ IF Script[drv[p].step].event = "PR_DRAFTED" THEN Goto(p, "pullRequest")
     ELSE NextCall(p)
  /\ UNCHANGED <<rowVars, trailVars, gateVars, prLink, req, boundVars>>

\* createSimulatedPullRequest: keep the existing link or insert one.
CreateSimulatedPullRequest(p) ==
  /\ drv[p].pc = "pullRequest"
  /\ prLink' = TRUE
  /\ NextCall(p)
  /\ UNCHANGED <<rowVars, log, trailVars, gateVars, req, boundVars>>

-----------------------------------------------------------------------------
(* finishRun and finalizeEvidenceReport, one database call per action *)

RecordFinish(p) ==
  /\ drv[p].pc = "finish"
  /\ Record(IF drv[p].outcome = "SUCCEEDED" THEN "RUN_SUCCEEDED" ELSE "RUN_FAILED",
            "system", NoStep)
  /\ Goto(p, "closeGates")
  /\ UNCHANGED <<rowVars, trailVars, gateVars, prLink, req, boundVars>>

\* updateMany: every gate still open is resolved as cancelled.
CloseGates(p) ==
  /\ drv[p].pc = "closeGates"
  /\ gates' = [g \in DOMAIN gates |->
       IF gates[g].status = "PENDING" THEN [gates[g] EXCEPT !.status = "CANCELLED"]
       ELSE gates[g]]
  /\ Goto(p, "teardown")
  /\ UNCHANGED <<rowVars, log, trailVars, decisions, prLink, req, boundVars>>

RecordTeardown(p) ==
  /\ drv[p].pc = "teardown"
  /\ Record("SANDBOX_DESTROYED", "system", NoStep)
  /\ Goto(p, "settle")
  /\ UNCHANGED <<rowVars, trailVars, gateVars, prLink, req, boundVars>>

\* setStatus to the terminal status, whatever the status is by now.  The
\* task's slot (activeTaskId) is not among the columns written.
Settle(p) ==
  /\ drv[p].pc = "settle"
  /\ status' = drv[p].outcome
  /\ Goto(p, "seal")
  /\ UNCHANGED <<cancelRequested, slotHeld, log, trailVars, gateVars, prLink, req, boundVars>>

\* finalizeEvidenceReport keeps an existing report and records nothing then.
SealEvidence(p) ==
  /\ drv[p].pc = "seal"
  /\ IF sealed # 0
     THEN Goto(p, "leave") /\ UNCHANGED sealed
     ELSE sealed' = Len(log) /\ Goto(p, "sealEvent")
  /\ UNCHANGED <<rowVars, log, policyRows, artifacts, gateVars, prLink, req, boundVars>>

RecordSealed(p) ==
  /\ drv[p].pc = "sealEvent"
  /\ Record("EVIDENCE_FINALIZED", "system", NoStep)
  /\ Goto(p, "leave")
  /\ UNCHANGED <<rowVars, trailVars, gateVars, prLink, req, boundVars>>

\* Faulty variant: the entry in activeDrivers is never deleted.
LeaveDriveForgotten(p) ==
  /\ drv[p].pc = "leave"
  /\ UNCHANGED vars

\* The last notification is out and activeDrivers forgets the run.
LeaveDrive(p) ==
  /\ drv[p].pc = "leave"
  /\ Stop(p)
  /\ UNCHANGED <<rowVars, log, trailVars, gateVars, prLink, req, boundVars>>

DriverStep(p) ==
  \/ LoadRun(p) \/ ReadCursor(p) \/ EnforceAction(p) \/ FindGrant(p)
  \/ RecordEvaluated(p) \/ RecordDenied(p)
  \/ FindGate(p) \/ CreateGate(p) \/ RecordRequested(p) \/ Park(p)
  \/ WriteArtifact(p) \/ RecordStep(p) \/ CreateSimulatedPullRequest(p)
  \/ RecordFinish(p) \/ CloseGates(p) \/ RecordTeardown(p) \/ Settle(p)
  \/ SealEvidence(p) \/ RecordSealed(p) \/ LeaveDrive(p)

-----------------------------------------------------------------------------
(* Requests of the room's members.  The first action of each is the        *)
(* handler's last read before it writes; earlier reads of the same handler *)
(* only refuse more.                                                       *)

\* POST simulate: startRun reads a startable status ...
SimulateRead(u, p) ==
  /\ status = "QUEUED"
  /\ Send(u, [NoRequest EXCEPT !.op = "simulate", !.pc = "commit", !.proc = p])
  /\ UNCHANGED <<rowVars, log, trailVars, gateVars, prLink, drv, faults>>

\* ... sets RUNNING, and the route starts the driver.
SimulateCommit(u) ==
  /\ InFlight(u, "simulate", "commit")
  /\ status' = "RUNNING"
  /\ drv' = Drive(req[u].proc)
  /\ Done(u)
  /\ UNCHANGED <<cancelRequested, slotHeld, log, trailVars, gateVars, prLink, boundVars>>

\* POST pause: pauseRun reads RUNNING, records RUN_PAUSED, sets PAUSED.
PauseRead(u, p) ==
  /\ status = "RUNNING"
  /\ Send(u, [NoRequest EXCEPT !.op = "pause", !.pc = "record", !.proc = p])
  /\ UNCHANGED <<rowVars, log, trailVars, gateVars, prLink, drv, faults>>

PauseRecord(u) ==
  /\ InFlight(u, "pause", "record")
  /\ Record("RUN_PAUSED", "user", NoStep)
  /\ req' = [req EXCEPT ![u].pc = "commit"]
  /\ UNCHANGED <<rowVars, trailVars, gateVars, prLink, drv, boundVars>>

\* Faulty variant: the event's name is written where the status belongs.
PauseCommitMisnamed(u) ==
  /\ InFlight(u, "pause", "commit")
  /\ status' = "RUN_PAUSED"
  /\ Done(u)
  /\ UNCHANGED <<cancelRequested, slotHeld, log, trailVars, gateVars, prLink, drv, boundVars>>

PauseCommit(u) ==
  /\ InFlight(u, "pause", "commit")
  /\ status' = "PAUSED"
  /\ Done(u)
  /\ UNCHANGED <<cancelRequested, slotHeld, log, trailVars, gateVars, prLink, drv, boundVars>>

\* POST resume: resumeRun reads PAUSED, records RUN_RESUMED, sets RUNNING,
\* and the route starts the driver.
ResumeRead(u, p) ==
  /\ status = "PAUSED"
  /\ Send(u, [NoRequest EXCEPT !.op = "resume", !.pc = "record", !.proc = p])
  /\ UNCHANGED <<rowVars, log, trailVars, gateVars, prLink, drv, faults>>

ResumeRecord(u) ==
  /\ InFlight(u, "resume", "record")
  /\ Record("RUN_RESUMED", "user", NoStep)
  /\ req' = [req EXCEPT ![u].pc = "commit"]
  /\ UNCHANGED <<rowVars, trailVars, gateVars, prLink, drv, boundVars>>

ResumeCommit(u) ==
  /\ InFlight(u, "resume", "commit")
  /\ status' = "RUNNING"
  /\ drv' = Drive(req[u].proc)
  /\ Done(u)
  /\ UNCHANGED <<cancelRequested, slotHeld, log, trailVars, gateVars, prLink, boundVars>>

\* POST cancel: requestCancel's transaction reads status and
\* cancelRequestedAt; a terminal run is left alone.
CancelRead(u, p) ==
  /\ status \notin Terminal
  /\ Send(u, [NoRequest EXCEPT !.op = "cancel", !.pc = "commit", !.proc = p,
                !.atGate = (status = "AWAITING_APPROVAL"), !.asked = cancelRequested])
  /\ UNCHANGED <<rowVars, log, trailVars, gateVars, prLink, drv, faults>>

\* The commit.  The request is recorded unless the read saw one; only a run
\* read at AWAITING_APPROVAL is terminated and gives the slot back.
CancelCommit(u) ==
  /\ InFlight(u, "cancel", "commit")
  /\ LET first == IF req[u].asked THEN <<>>
                  ELSE <<Entry("CANCELLATION_REQUESTED", "user", NoStep)>>
         last == IF req[u].atGate THEN <<Entry("RUN_CANCELLED", "user", NoStep)>>
                 ELSE <<>>
     IN log' = log \o first \o last
  /\ cancelRequested' = TRUE
  /\ IF req[u].atGate THEN status' = "CANCELLED" /\ slotHeld' = FALSE
     ELSE UNCHANGED <<status, slotHeld>>
  /\ Done(u)
  /\ UNCHANGED <<trailVars, gateVars, prLink, drv, boundVars>>

\* POST redirect: requestRedirect refuses a terminal run.
RedirectRead(u, p) ==
  /\ status \notin Terminal
  /\ Send(u, [NoRequest EXCEPT !.op = "redirect", !.pc = "commit", !.proc = p,
                !.atGate = (status = "AWAITING_APPROVAL")])
  /\ UNCHANGED <<rowVars, log, trailVars, gateVars, prLink, drv, faults>>

\* A run read at AWAITING_APPROVAL goes back to RUNNING; nobody drives it here
\* and the gate stays PENDING.
RedirectCommit(u) ==
  /\ InFlight(u, "redirect", "commit")
  /\ Record("REDIRECT_REQUESTED", "user", NoStep)
  /\ IF req[u].atGate THEN status' = "RUNNING" ELSE UNCHANGED status
  /\ Done(u)
  /\ UNCHANGED <<cancelRequested, slotHeld, trailVars, gateVars, prLink, drv, boundVars>>

\* resolveApproval reads the request: it must be PENDING, and the reviewer
\* must not be the requester.
DecideRead(u, p, decision) ==
  /\ u \in Approvers
  /\ u # Requester
  /\ \E g \in PendingGates :
       Send(u, [NoRequest EXCEPT !.op = decision, !.pc = "commit", !.proc = p, !.gate = g])
  /\ UNCHANGED <<rowVars, log, trailVars, gateVars, prLink, drv, faults>>

\* One transaction: the decision row, the request's resolution and the run's
\* new status, none of them conditional on what they are by now.
DecideCommit(u) ==
  /\ req[u].op \in {"APPROVE", "REJECT"} /\ req[u].pc = "commit"
  /\ LET approved == req[u].op = "APPROVE"
     IN /\ decisions' = decisions \cup
             {[gate |-> req[u].gate, reviewer |-> u, decision |-> req[u].op]}
        /\ gates' = [gates EXCEPT ![req[u].gate].status =
                       IF approved THEN "APPROVED" ELSE "REJECTED"]
        /\ status' = IF approved THEN "RUNNING" ELSE "CANCELLED"
  /\ req' = [req EXCEPT ![u].pc = "record"]
  /\ UNCHANGED <<cancelRequested, slotHeld, log, trailVars, prLink, drv, boundVars>>

\* APPROVAL_GRANTED, after which handleApprovalDecision starts the driver.
ApproveRecord(u) ==
  /\ InFlight(u, "APPROVE", "record")
  /\ Record("APPROVAL_GRANTED", "reviewer", NoStep)
  /\ drv' = Drive(req[u].proc)
  /\ Done(u)
  /\ UNCHANGED <<rowVars, trailVars, gateVars, prLink, boundVars>>

\* APPROVAL_REJECTED, then RUN_CANCELLED; the run's error fields follow.
RejectRecord(u) ==
  /\ InFlight(u, "REJECT", "record")
  /\ Record("APPROVAL_REJECTED", "reviewer", NoStep)
  /\ req' = [req EXCEPT ![u].pc = "close"]
  /\ UNCHANGED <<rowVars, trailVars, gateVars, prLink, drv, boundVars>>

RejectClose(u) ==
  /\ InFlight(u, "REJECT", "close")
  /\ Record("RUN_CANCELLED", "system", NoStep)
  /\ Done(u)
  /\ UNCHANGED <<rowVars, trailVars, gateVars, prLink, drv, boundVars>>

RequestArrives(u) ==
  \E p \in Procs :
    \/ SimulateRead(u, p) \/ PauseRead(u, p) \/ ResumeRead(u, p)
    \/ CancelRead(u, p) \/ RedirectRead(u, p)
    \/ \E decision \in {"APPROVE", "REJECT"} : DecideRead(u, p, decision)

RequestStep(u) ==
  \/ SimulateCommit(u)
  \/ PauseRecord(u) \/ PauseCommit(u) \/ ResumeRecord(u) \/ ResumeCommit(u)
  \/ CancelCommit(u) \/ RedirectCommit(u)
  \/ DecideCommit(u) \/ ApproveRecord(u) \/ RejectRecord(u) \/ RejectClose(u)

-----------------------------------------------------------------------------
(* The event stream, faults, and the specification *)

\* Opening a run's page or event stream: resumeStalledRun drives a RUNNING run
\* that this process does not drive.
OpenStream(p) ==
  /\ status = "RUNNING"
  /\ ~Driving(p)
  /\ drv' = Drive(p)
  /\ UNCHANGED <<rowVars, log, trailVars, gateVars, prLink, req, boundVars>>

\* A database call of the driver throws: driveRun ends and the error is logged.
DriverFails(p) ==
  /\ faults < MaxFaults
  /\ Driving(p)
  /\ Stop(p)
  /\ faults' = faults + 1
  /\ UNCHANGED <<rowVars, log, trailVars, gateVars, prLink, req, sent>>

\* The process restarts: its activeDrivers set and the requests it was serving
\* are gone, every committed row stays.
Crash(p) ==
  /\ faults < MaxFaults
  /\ \/ Driving(p)
     \/ \E u \in Users : req[u].proc = p
  /\ drv' = [drv EXCEPT ![p] = NoDriver]
  /\ req' = [u \in Users |-> IF req[u].proc = p THEN NoRequest ELSE req[u]]
  /\ faults' = faults + 1
  /\ UNCHANGED <<rowVars, log, trailVars, gateVars, prLink, sent>>

Next ==
  \/ \E p \in Procs : DriverStep(p) \/ OpenStream(p) \/ DriverFails(p) \/ Crash(p)
  \/ \E u \in Users : RequestArrives(u) \/ RequestStep(u)

Spec == Init /\ [][Next]_vars

\* The event loop runs every started handler to its end, and somebody keeps a
\* run's stream open (EventSource reconnects by itself).  No member owes the
\* run a request, and faults are never owed.
Fairness ==
  /\ \A p \in Procs : WF_vars(DriverStep(p)) /\ WF_vars(OpenStream(p))
  /\ \A u \in Users : WF_vars(RequestStep(u))

FairSpec == Spec /\ Fairness

-----------------------------------------------------------------------------
(* Properties *)

AgentEvents == {i \in DOMAIN log : log[i].actor = "agent"}

\* The events that settle a script step: performed, denied or sent to a gate.
SettlingEvents ==
  {i \in DOMAIN log : log[i].step # NoStep /\ log[i].type # "POLICY_EVALUATED"}

\* A policy verdict on record allows the step, or it asks for approval and a
\* member other than the requester has approved a request for this action.
Authorised(step) ==
  \/ <<step, "ALLOWED">> \in policyRows
  \/ /\ <<step, "APPROVAL_REQUIRED">> \in policyRows
     /\ \E d \in decisions : /\ d.decision = "APPROVE"
                             /\ d.reviewer # Requester
                             /\ d.gate \in DOMAIN gates
                             /\ gates[d.gate].action = Script[step].action

\* Every governed step the agent performed was authorised, and a pull request
\* exists only if the agent performed the step that drafts it: whatever the
\* interleaving of drivers, reviewers, interventions and restarts.
StepsAuthorised ==
  /\ \A i \in AgentEvents :
       Script[log[i].step].action # NoAction => Authorised(log[i].step)
  /\ prLink => \E i \in AgentEvents : log[i].type = "PR_DRAFTED"

\* "What is this run waiting for?" has at most one answer, also while two
\* drivers reach the gate together (mock-executor.ts:133-135).
OneOpenGate == Cardinality(PendingGates) <= 1

\* With one server process, no step is performed, denied or gated twice or out
\* of script order, across pauses, redirects, approvals and restarts: the
\* cursor read from the log is enough to resume from.
StepsInOrder ==
  \A i, j \in SettlingEvents : i < j => log[i].step < log[j].step

\* With one server process, once the run has asked for approval the agent
\* performs nothing more until a reviewer has approved: not after a resume, a
\* redirect or a cancel at the gate, and not after a restart.
GateHolds ==
  \A i \in AgentEvents, j \in DOMAIN log :
    j < i /\ log[j].type = "APPROVAL_REQUESTED" /\ log[j].actor = "system"
      => \E d \in decisions : d.decision = "APPROVE"

\* What the last two rest on: drives of one process exclude each other, and a
\* script's steps behind its gate end the run or have an action that no rule
\* allows outright, as in script.ts.
OneProcess == \A p, q \in Procs : p = q
GateGuarded ==
  /\ \A i \in Steps : Script[i].event # "POLICY_EVALUATED"
  /\ \A i, j \in Steps : Script[i].gated /\ i < j =>
       \/ Script[j].event \in {"RUN_SUCCEEDED", "RUN_FAILED"}
       \/ Script[j].action # NoAction /\ "ALLOWED" \notin Verdicts[Script[j].action]

\* A RUNNING run does not stay RUNNING for ever: it parks, pauses or finishes,
\* although drivers fail and the server restarts (driver.ts:105-111).
RunMoves == status = "RUNNING" ~> status # "RUNNING"

(* What comments of the code promise and the code does not do; see README. *)

Quiet == (\A p \in Procs : ~Driving(p)) /\ (\A u \in Users : req[u].op = "none")

\* interventions.ts:35-37, "its outcome must never be overwritten".
TerminalIsFinal == [][(status \in Terminal) => (status' = status)]_vars

\* mock-executor.ts:212-215, "no partially applied step": a step whose policy
\* check is on record has been performed when no driver is at work.
NoPartialStep ==
  Quiet => \A i \in DOMAIN log : log[i].type = "POLICY_EVALUATED" =>
             \E j \in AgentEvents : log[j].step = log[i].step

\* approvals.ts:105-106: after a rejection nothing is delivered.
RejectionIsFinal ==
  [][(\E d \in decisions : d.decision = "REJECT") => prLink' = prLink]_vars
=============================================================================
