---------------------------- MODULE AgentRuntime ----------------------------
(***************************************************************************)
(* A backend-agent run, from the button that starts it to its last status: *)
(* the web application's requests (create, decide, cancel, redirect, fork, *)
(* review), the calls it makes to the Python runtime, the runtime's        *)
(* endpoints, and the background jobs that drive the LangGraph graph over  *)
(* one checkpointed thread per run.                                        *)
(*                                                                         *)
(* The two programs share the run's row and its interventions.  The        *)
(* runtime's single-statement writes and each graph node between two       *)
(* checkpoints are one step each.  A cancel and a redirect read the run in *)
(* one step and write in another, as nothing locks the row in between; the *)
(* transactions that create a run are kept apart by its task's unique      *)
(* slot.  Everything else interleaves.                                     *)
(***************************************************************************)
EXTENDS Naturals, FiniteSets

CONSTANTS
    Runs,       \* AgentRun rows
    Tasks,      \* tasks on the board; a fork's cloned task is named by the fork
    Jobs,       \* background tasks of the runtime process
    Guidance,   \* the texts members may send, each once and to one run
    MaxDecisions, \* bound: how often members decide on one run
    Controls,   \* the cancel and redirect requests members may make, each once
    Faults      \* what may go wrong beside the code: "break", "restart", "loss"

ASSUME DisjointNames == Tasks \cap Runs = {}
ASSUME BoundedDecisions == MaxDecisions \in Nat
ASSUME KnownFaults == Faults \subseteq {"break", "restart", "loss"}

VARIABLES
    run,        \* the AgentRun row of each run
    note,       \* the REDIRECT interventions of each run
    thread,     \* the latest checkpoint of each run's LangGraph thread
    art,        \* the PLAN and DIFF artifacts of each run
    job,        \* the runtime's background tasks
    calls,      \* requests between the web application and the runtime
    decided,    \* how often members have decided, for the bound
    control,    \* what a cancel or redirect transaction has read and not yet written
    approved,   \* history: the plans members approved, and what was asked by then
    wrote,      \* history: the plans whose edits reached a sandbox
    taint       \* history: what happened to a run that nothing in the code handles

vars == <<run, note, thread, art, job, calls, decided, control, approved, wrote, taint>>

Terminal == {"SUCCEEDED", "FAILED", "CANCELLED"}
Active == {"QUEUED", "RUNNING", "AWAITING_APPROVAL"}
Status == Terminal \cup Active \cup {"NONE"}

Agents == {"backend-agent", "reviewer-agent"}
Nodes == {"inspect", "plan", "apply", "tests", "diff", "summary", "end"}
Edits == {"none", "some", "forbidden"}
Plans == [id : Nat, edits : Edits]
NoPlan == [id |-> 0, edits |-> "none"]

\* What a node reads and the checkpoint keeps: the plan, the edits applied, the
\* verdict of the tests and the guidance folded into the plan.
Channels == [plan : Plans, applied : BOOLEAN, passed : BOOLEAN, notes : SUBSET Guidance]
State(plan, applied, passed, notes) ==
    [plan |-> plan, applied |-> applied, passed |-> passed, notes |-> notes]
Artifacts(first, last, diff, inBox) ==
    [first |-> first, last |-> last, diff |-> diff, inBox |-> inBox]
Empty == [plan |-> NoPlan, applied |-> FALSE, passed |-> FALSE, notes |-> {}]

Kinds == {"start", "resume", "replan", "reject", "fork", "review"}
Stages == {"begin", "prepare", "load", "inspect", "plan", "propose", "gate", "apply", "tests",
           "diff", "summary", "end", "recheck", "rewind", "reject", "check", "copy", "park"}
Task == [kind : Kinds, run : Runs, at : Stages, mem : Channels, box : Nat]
Idle == [kind |-> "idle"]
Call == [op : {"start", "approve", "reject", "redirect", "fork", "review"},
         run : Runs, handled : BOOLEAN]

Control == [op : {"cancel", "redirect"}, run : Runs, atGate : BOOLEAN]
Unsent == [op |-> "none"]
Done == [op |-> "done"]

\* What may happen to a run that nothing in the code handles: two jobs on one
\* thread or a job on a finished run ("overlap"), a redirect at the gate, an
\* answer lost by a caller that gave up, a job that ended unrecorded ("died"), a
\* torn copy, guidance claimed and gone before its plan was checkpointed ("lost"),
\* and a cancel or redirect that read the gate and found the run finished when it
\* wrote ("overtaken").
Marks == {"overlap", "gateRedirect", "gaveUp", "died", "torn", "lost", "overtaken"}

Row == [status : Status, agent : Agents, task : Tasks \cup Runs \cup {"none"},
        slot : BOOLEAN, cancel : BOOLEAN, source : Runs \cup {"none"}]
NoRow == [status |-> "NONE", agent |-> "backend-agent", task |-> "none",
          slot |-> FALSE, cancel |-> FALSE, source |-> "none"]

Init ==
    /\ run = [r \in Runs |-> NoRow]
    /\ note = [r \in Runs |-> [g \in Guidance |-> "NONE"]]
    /\ thread = [r \in Runs |-> [next |-> "inspect", state |-> Empty]]
    /\ art = [r \in Runs |-> [first |-> 0, last |-> 0, diff |-> 0, inBox |-> 0]]
    /\ job = [j \in Jobs |-> Idle]
    /\ calls = {}
    /\ decided = [r \in Runs |-> 0]
    /\ control = [m \in Controls |-> Unsent]
    /\ approved = [r \in Runs |-> {}]
    /\ wrote = [r \in Runs |-> {}]
    /\ taint = [r \in Runs |-> {}]

(***************************************************************************)
(* Shared helpers                                                          *)
(***************************************************************************)
Creating == {"start", "fork", "review"}
Live(r) == {j \in Jobs : job[j].kind # "idle" /\ job[j].run = r}
Asked(r) == {g \in Guidance : note[r][g] # "NONE"}
Pending(r) == {g \in Guidance : note[r][g] = "PENDING"}

\* The row of a run with the columns an update sets.
Updated(r, s, slot, cancel) ==
    [status |-> s, slot |-> slot, cancel |-> cancel,
     agent |-> run[r].agent, task |-> run[r].task, source |-> run[r].source]

\* Faulty variant: the status is written in the runtime's own spelling.
BecameMisspelt(r, s) ==
    run' = [run EXCEPT ![r] = Updated(r, IF s = "CANCELLED" THEN "CANCELED" ELSE s,
                                      run[r].slot /\ s \notin Terminal, run[r].cancel)]

\* Faulty variant: a terminal status keeps the task's slot.
BecameHolding(r, s) ==
    run' = [run EXCEPT ![r] = Updated(r, s, run[r].slot, run[r].cancel)]

\* update_run_status: unconditional, and a terminal status gives the slot back.
Became(r, s) ==
    run' = [run EXCEPT ![r] = IF s \in Terminal THEN Updated(r, s, FALSE, run[r].cancel)
                                                 ELSE Updated(r, s, run[r].slot, run[r].cancel)]

Tainted(r, what) == taint' = [taint EXCEPT ![r] = taint[r] \cup what]
When(cond, what) == IF cond THEN {what} ELSE {}

Send(op, r) == calls' = calls \cup {[op |-> op, run |-> r, handled |-> FALSE]}

(***************************************************************************)
(* The web application                                                     *)
(***************************************************************************)
\* Faulty variant: neither the pre-check nor the unique key.
AnyTask(t) == t \in Tasks \cup Runs \cup {"none"}

\* The single-active-run guard: the pre-check and the unique activeTaskId.
TaskFree(t) ==
    \A r \in Runs : run[r].task = t => run[r].status \notin Active /\ ~run[r].slot

\* The row every creator inserts, holding its task's slot.
Insert(r, agent, t, source) ==
    /\ run[r].status = "NONE"
    /\ run' = [run EXCEPT ![r] = [status |-> "QUEUED", agent |-> agent, task |-> t,
                                  slot |-> TRUE, cancel |-> FALSE, source |-> source]]
    /\ UNCHANGED <<note, thread, art, job, decided, control, approved, wrote, taint>>

\* POST tasks/[taskId]/runs
CreateRun(r, t) ==
    /\ TaskFree(t)
    /\ Insert(r, "backend-agent", t, "none")
    /\ Send("start", r)

\* POST runs/[runId]/fork: the fork is created on a clone of the source's task.
Fork(r, s) ==
    /\ run[s].status = "AWAITING_APPROVAL"
    /\ Insert(r, run[s].agent, r, s)
    /\ Send("fork", r)

\* POST runs/[runId]/review: the review takes the source's own task.
Review(r, s) ==
    /\ run[s].status = "SUCCEEDED"
    /\ run[s].agent = "backend-agent"
    /\ TaskFree(run[s].task)
    /\ Insert(r, "reviewer-agent", run[s].task, s)
    /\ Send("review", r)

\* A fork is answered by the handler itself, once it is done.
Unanswerable(c) == c.op = "fork" /\ run[c.run].status = "QUEUED"

\* The creating request could not reach the runtime, or lost its answer: the
\* row is marked FAILED whatever the runtime has made of it since.
GiveUp(c) ==
    /\ c.op \in Creating
    /\ c.handled => "loss" \in Faults \/ (Unanswerable(c) /\ Live(c.run) = {})
    /\ calls' = calls \ {c}
    /\ Became(c.run, "FAILED")
    /\ Tainted(c.run, When(c.handled, "gaveUp"))
    /\ UNCHANGED <<note, thread, art, job, decided, control, approved, wrote>>

\* Any other request that fails is reported to the member or logged.
Drop(c) ==
    /\ c.op \notin Creating
    /\ "loss" \in Faults
    /\ calls' = calls \ {c}
    /\ UNCHANGED <<run, note, thread, art, job, decided, control, approved, wrote, taint>>

Answered(c) ==
    /\ c.handled /\ ~Unanswerable(c)
    /\ calls' = calls \ {c}
    /\ UNCHANGED <<run, note, thread, art, job, decided, control, approved, wrote, taint>>

\* POST runs/[runId]/decision: the status is checked, the runtime is called.
Decide(r, op) ==
    /\ op \in {"approve", "reject"}
    /\ run[r].status = "AWAITING_APPROVAL"
    /\ decided[r] < MaxDecisions
    /\ decided' = [decided EXCEPT ![r] = decided[r] + 1]
    /\ Send(op, r)
    /\ approved' = IF op = "approve"
                     THEN [approved EXCEPT ![r] = approved[r] \cup
                             {[plan |-> thread[r].state.plan.id, shown |-> art[r].first,
                               asked |-> Asked(r)]}]
                     ELSE approved
    /\ UNCHANGED <<run, note, thread, art, job, control, wrote, taint>>

\* requestCancel and requestRedirect: the transaction reads the run, without a
\* lock, and refuses a finished one.
Read(m, op, r) ==
    /\ control[m] = Unsent
    /\ run[r].status \in Active
    /\ control' = [control EXCEPT ![m] = [op |-> op, run |-> r,
                                          atGate |-> run[r].status = "AWAITING_APPROVAL"]]
    /\ UNCHANGED <<run, note, thread, art, job, calls, decided, approved, wrote, taint>>

Fresh(g) == \A s \in Runs : note[s][g] = "NONE"
CancelRead(m, r) == Read(m, "cancel", r)
RedirectRead(m, r) == Read(m, "redirect", r) /\ \E g \in Guidance : Fresh(g)

Written(m, op) ==
    /\ control[m].op = op
    /\ control' = [control EXCEPT ![m] = Done]

\* Its writes: terminal if it read the run at the gate, whatever the run is by
\* now, and a flag for the runtime otherwise.
CancelCommit(m) ==
    /\ Written(m, "cancel")
    /\ LET r == control[m].run
       IN IF control[m].atGate
            THEN /\ run' = [run EXCEPT ![r] = Updated(r, "CANCELLED", FALSE, TRUE)]
                 /\ Tainted(r, When(Live(r) # {}, "overlap")
                               \cup When(run[r].status \in Terminal \ {"CANCELLED"}, "overtaken"))
            ELSE /\ run' = [run EXCEPT ![r] = Updated(r, run[r].status, run[r].slot, TRUE)]
                 /\ UNCHANGED taint
    /\ UNCHANGED <<note, thread, art, job, calls, decided, approved, wrote>>

\* The guidance is recorded and, once that has committed, the runtime is told.
Recorded(r, g) ==
    /\ Fresh(g)
    /\ note' = [note EXCEPT ![r] = [note[r] EXCEPT ![g] = "PENDING"]]
    /\ Send("redirect", r)

Replanning(r) ==
    /\ Became(r, "RUNNING")
    /\ Tainted(r, {"gateRedirect"} \cup When(run[r].status \in Terminal, "overtaken"))

\* Faulty variant: the run is set RUNNING wherever it was read.
RedirectCommitAlways(m, g) ==
    /\ Written(m, "redirect")
    /\ Recorded(control[m].run, g)
    /\ Became(control[m].run, "RUNNING")
    /\ Tainted(control[m].run, {"gateRedirect"})
    /\ UNCHANGED <<thread, art, job, decided, approved, wrote>>

\* A pending approval is invalidated if the transaction read the run at the gate:
\* it is RUNNING then, whatever it is by now.
RedirectCommit(m, g) ==
    /\ Written(m, "redirect")
    /\ Recorded(control[m].run, g)
    /\ IF control[m].atGate THEN Replanning(control[m].run) ELSE UNCHANGED <<run, taint>>
    /\ UNCHANGED <<thread, art, job, decided, approved, wrote>>

(***************************************************************************)
(* The runtime's endpoints                                                 *)
(***************************************************************************)
\* The runtime has taken the request; only the creators act on a lost answer.
Handled(c) ==
    calls' = (calls \ {c}) \cup (IF c.op \in Creating
                                  THEN {[op |-> c.op, run |-> c.run, handled |-> TRUE]}
                                  ELSE {})

\* The request is answered; a background task (or the synchronous handler)
\* takes it from here.  Nothing keeps two of them off one run.
Schedule(c, kind, at) ==
    /\ \E j \in Jobs :
         /\ job[j].kind = "idle"
         /\ job' = [job EXCEPT ![j] = [kind |-> kind, run |-> c.run, at |-> at,
                                       mem |-> Empty, box |-> 0]]
    /\ Handled(c)
    /\ Tainted(c.run, When(Live(c.run) # {} \/ run[c.run].status \in Terminal, "overlap"))
    /\ UNCHANGED <<run, note, thread, art, decided, control, approved, wrote>>

Refuse(c) ==
    /\ Handled(c)
    /\ UNCHANGED <<note, thread, art, job, decided, control, approved, wrote, taint>>

\* POST internal/runs: an unknown repository ends the run, and the 400 makes
\* the caller end it again.
StartEndpoint(c) ==
    /\ c.op = "start"
    /\ \/ Schedule(c, "start", "begin")
       \/ Refuse(c) /\ Became(c.run, "FAILED")

\* POST internal/runs/{id}/resume
DecisionEndpoint(c) ==
    /\ c.op \in {"approve", "reject"}
    /\ IF run[c.run].status # "AWAITING_APPROVAL"
         THEN Refuse(c) /\ UNCHANGED run
         ELSE IF c.op = "approve" THEN Schedule(c, "resume", "begin")
                                  ELSE Schedule(c, "reject", "reject")

\* POST internal/runs/{id}/redirect: only a run it finds at the gate is re-planned.
RedirectEndpoint(c) ==
    /\ c.op = "redirect"
    /\ IF run[c.run].status # "AWAITING_APPROVAL"
         THEN Refuse(c) /\ UNCHANGED run
         ELSE Schedule(c, "replan", "recheck")

\* Faulty variant: the review is acknowledged and never scheduled.
ReviewEndpointForgets(c) == c.op = "review" /\ Refuse(c) /\ UNCHANGED run

\* POST internal/runs/{id}/fork and /review
CopyEndpoint(c) == c.op = "fork" /\ Schedule(c, "fork", "check")
ReviewEndpoint(c) == c.op = "review" /\ Schedule(c, "review", "check")

Endpoint(c) ==
    /\ ~c.handled
    /\ \/ StartEndpoint(c) \/ DecisionEndpoint(c) \/ RedirectEndpoint(c)
       \/ CopyEndpoint(c) \/ ReviewEndpoint(c)

(***************************************************************************)
(* The background jobs                                                     *)
(***************************************************************************)
At(j, kinds, stage) == job[j].kind \in kinds /\ job[j].at = stage
\* A job further on: its stage, its channels and what its sandbox holds.
Moved(j, kind, stage, mem, box) ==
    job' = [job EXCEPT ![j] = [kind |-> kind, run |-> job[j].run, at |-> stage,
                               mem |-> mem, box |-> box]]
GoTo(j, stage) == Moved(j, job[j].kind, stage, job[j].mem, job[j].box)
Over(j) == job' = [job EXCEPT ![j] = Idle]

\* The job's last write: a status, and the job is gone.
End(j, s) ==
    /\ Became(job[j].run, s)
    /\ Over(j)
    /\ UNCHANGED <<note, thread, art, calls, decided, control, approved, wrote, taint>>

\* An exception no clause of the job catches: nothing is written.
Dies(j) ==
    /\ Over(j)
    /\ Tainted(job[j].run, {"died"} \cup When(job[j].at = "propose", "lost"))
    /\ UNCHANGED <<run, note, thread, art, calls, decided, control, approved, wrote>>

\* start_run and resume_run both begin by writing RUNNING, whatever they find.
Begin(j) ==
    /\ At(j, {"start", "resume"}, "begin")
    /\ Became(job[j].run, "RUNNING")
    /\ GoTo(j, "prepare")
    /\ UNCHANGED <<note, thread, art, calls, decided, control, approved, wrote, taint>>

\* The sandbox: docker may be missing; once prepared, RUNNING is written again.
Prepare(j) ==
    /\ At(j, {"start", "resume"}, "prepare")
    /\ \/ End(j, "FAILED")
       \/ /\ Became(job[j].run, "RUNNING")
          /\ GoTo(j, IF job[j].kind = "start" THEN "inspect" ELSE "load")
          /\ UNCHANGED <<note, thread, art, calls, decided, control, approved, wrote, taint>>

\* app.invoke(None): the graph goes on from the thread's latest checkpoint.
Load(j) ==
    /\ job[j].kind # "idle" /\ job[j].at = "load"
    /\ LET t == thread[job[j].run]
       IN Moved(j, job[j].kind, t.next, t.state, job[j].box)
    /\ UNCHANGED <<run, note, thread, art, calls, decided, control, approved, wrote, taint>>

Stopped(j) == run[job[j].run].cancel

\* Every node starts at a checkpoint; the nodes behind the gate also yield to
\* guidance, which only resume_run knows how to handle.
Checkpoint(j, stage) ==
    /\ job[j].kind \in {"start", "resume", "replan"}
    /\ job[j].at = stage
    /\ Stopped(j)
    /\ End(j, "CANCELLED")

Passes(j, stage) ==
    /\ job[j].kind \in {"start", "resume", "replan"}
    /\ job[j].at = stage
    /\ ~Stopped(j)

Steered(j) ==
    /\ job[j].kind \in {"start", "resume", "replan"}
    /\ job[j].at \in {"apply", "tests", "diff"}
    /\ ~Stopped(j)
    /\ Pending(job[j].run) # {}
    /\ CASE job[j].kind = "resume" ->
              /\ Moved(j, "replan", "recheck", job[j].mem, 0)
              /\ UNCHANGED <<run, note, thread, art, calls,
                             decided, control, approved, wrote, taint>>
         [] job[j].kind = "replan" -> End(j, "FAILED")
         [] OTHER -> Dies(j)

\* A node that is done: its channels and the next node are checkpointed.
Node(j, mem, next, stage, box) ==
    /\ thread' = [thread EXCEPT ![job[j].run] = [next |-> next, state |-> mem]]
    /\ Moved(j, job[j].kind, stage, mem, box)

Inspect(j) ==
    /\ Passes(j, "inspect")
    /\ Node(j, job[j].mem, "plan", "plan", job[j].box)
    /\ UNCHANGED <<run, note, art, calls, decided, control, approved, wrote, taint>>

\* Faulty variant: the claimed guidance does not reach the plan's channels.
ClaimLosing(j) ==
    /\ Passes(j, "plan")
    /\ note' = [note EXCEPT ![job[j].run] =
                   [g \in Guidance |-> IF g \in Pending(job[j].run) THEN "APPLIED"
                                       ELSE note[job[j].run][g]]]
    /\ GoTo(j, "propose")
    /\ UNCHANGED <<run, thread, art, calls, decided, control, approved, wrote, taint>>

\* plan_change, first half: every pending guidance is claimed, in one transaction.
Claim(j) ==
    /\ Passes(j, "plan")
    /\ LET r == job[j].run
           mem == job[j].mem
           taken == Pending(r)
       IN /\ note' = [note EXCEPT ![r] =
                        [g \in Guidance |-> IF g \in taken THEN "APPLIED" ELSE note[r][g]]]
          /\ Moved(j, job[j].kind, "propose",
                   State(mem.plan, mem.applied, mem.passed, mem.notes \cup taken), job[j].box)
    /\ UNCHANGED <<run, thread, art, calls, decided, control, approved, wrote, taint>>

\* Faulty variant: the graph is compiled without its interrupt.
ProposeAndApply(j, e) ==
    /\ job[j].kind # "idle" /\ job[j].at = "propose"
    /\ LET mem == job[j].mem
           p == [id |-> mem.plan.id + 1, edits |-> e]
       IN Node(j, State(p, mem.applied, mem.passed, mem.notes), "apply", "apply", job[j].box)
    /\ UNCHANGED <<run, note, art, calls, decided, control, approved, wrote, taint>>

\* plan_change, second half: the model answers, the PLAN artifact is appended
\* and the graph stops in front of apply_edits.
Propose(j, e) ==
    /\ job[j].kind # "idle" /\ job[j].at = "propose"
    /\ LET r == job[j].run
           mem == job[j].mem
           newest == IF art[r].last > mem.plan.id THEN art[r].last ELSE mem.plan.id
           p == [id |-> newest + 1, edits |-> e]
       IN /\ Node(j, State(p, mem.applied, mem.passed, mem.notes), "apply",
                  IF job[j].kind = "resume" THEN "end" ELSE "gate", job[j].box)
          /\ art' = [art EXCEPT ![r] = Artifacts(IF art[r].first = 0 THEN p.id ELSE art[r].first,
                                                 p.id, art[r].diff, art[r].inBox)]
    /\ UNCHANGED <<run, note, calls, decided, control, approved, wrote, taint>>

\* What the orchestrator makes of the stopped graph, read back from the thread.
Gate(j) ==
    /\ At(j, {"start", "replan"}, "gate")
    /\ LET r == job[j].run
       IN IF thread[r].state.plan.edits # "none"
            THEN End(j, "AWAITING_APPROVAL")
            ELSE IF job[j].kind = "replan"
                   THEN End(j, "FAILED")
                   ELSE /\ GoTo(j, "load")
                        /\ UNCHANGED <<run, note, thread, art, calls,
                                       decided, control, approved, wrote, taint>>

\* Faulty variant: the nodes behind the gate do not look for guidance.
Unsteered(j, stage) == Passes(j, stage)

Free(j, stage) == Passes(j, stage) /\ Pending(job[j].run) = {}

\* apply_edits: the first node that writes; the guard sandbox of a re-plan
\* refuses, and a path outside the allow-list fails the run.
Apply(j) ==
    /\ Free(j, "apply")
    /\ LET r == job[j].run
           mem == job[j].mem
           e == mem.plan.edits
       IN IF e = "forbidden" \/ (e = "some" /\ job[j].kind = "replan")
            THEN End(j, "FAILED")
            ELSE /\ IF e = "some"
                      THEN /\ Node(j, State(mem.plan, TRUE, mem.passed, mem.notes),
                                   "tests", "tests", mem.plan.id)
                           /\ wrote' = [wrote EXCEPT ![r] = wrote[r] \cup
                                            {[plan |-> mem.plan.id, notes |-> mem.notes]}]
                      ELSE /\ Node(j, State(mem.plan, FALSE, mem.passed, mem.notes),
                                   "tests", "tests", job[j].box)
                           /\ UNCHANGED wrote
                 /\ UNCHANGED <<run, note, art, calls, decided, control, approved, taint>>

Tests(j, ok) ==
    /\ Free(j, "tests")
    /\ IF job[j].kind = "replan"
         THEN End(j, "FAILED")
         ELSE /\ LET mem == job[j].mem
                 IN Node(j, State(mem.plan, mem.applied, ok, mem.notes), "diff", "diff",
                         job[j].box)
              /\ UNCHANGED <<run, note, art, calls, decided, control, approved, wrote, taint>>

\* Faulty variant: the proposed files are delivered, applied or not.
DiffOfProposal(j) ==
    /\ Free(j, "diff")
    /\ job[j].kind # "replan"
    /\ LET r == job[j].run
       IN /\ Node(j, job[j].mem, "summary", "summary", job[j].box)
          /\ art' = [art EXCEPT ![r] = Artifacts(art[r].first, art[r].last,
                                                 job[j].mem.plan.id, job[j].box)]
    /\ UNCHANGED <<run, note, calls, decided, control, approved, wrote, taint>>

\* capture_diff: the DIFF artifact names the plan's files; git diff sees the box.
Diff(j) ==
    /\ Free(j, "diff")
    /\ IF job[j].kind = "replan"
         THEN End(j, "FAILED")
         ELSE LET mem == job[j].mem
                  r == job[j].run
              IN /\ Node(j, mem, "summary", "summary", job[j].box)
                 /\ art' = [art EXCEPT ![r] = Artifacts(art[r].first, art[r].last,
                                    IF mem.applied THEN mem.plan.id ELSE 0, job[j].box)]
                 /\ UNCHANGED <<run, note, calls, decided, control, approved, wrote, taint>>

\* summarize has no checkpoint.
Summarize(j) ==
    /\ job[j].kind # "idle" /\ job[j].at = "summary"
    /\ Node(j, job[j].mem, "end", "end", job[j].box)
    /\ UNCHANGED <<run, note, art, calls, decided, control, approved, wrote, taint>>

\* The graph has returned: _finalize, or a re-plan's own reading of the thread.
Finalize(j) ==
    /\ job[j].kind # "idle" /\ job[j].at = "end"
    /\ IF job[j].kind = "replan"
         THEN /\ GoTo(j, "gate")
              /\ UNCHANGED <<run, note, thread, art, calls,
                             decided, control, approved, wrote, taint>>
         ELSE End(j, IF job[j].mem.applied /\ ~job[j].mem.passed THEN "FAILED" ELSE "SUCCEEDED")

\* replan_run: the thread is rewound to the plan, behind whoever else uses it.
Recheck(j) ==
    /\ At(j, {"replan"}, "recheck")
    /\ IF Stopped(j)
         THEN End(j, "CANCELLED")
         ELSE /\ GoTo(j, "rewind")
              /\ UNCHANGED <<run, note, thread, art, calls,
                             decided, control, approved, wrote, taint>>

Rewind(j) ==
    /\ At(j, {"replan"}, "rewind")
    /\ thread' = [thread EXCEPT ![job[j].run] = [next |-> "plan",
                                                  state |-> thread[job[j].run].state]]
    /\ GoTo(j, "load")
    /\ UNCHANGED <<run, note, art, calls, decided, control, approved, wrote, taint>>

\* A rejection has been checked; what it writes is unconditional.
Reject(j) == At(j, {"reject"}, "reject") /\ End(j, "CANCELLED")

ForkCheck(j) ==
    /\ At(j, {"fork"}, "check")
    /\ LET s == run[job[j].run].source
       IN IF run[s].status = "AWAITING_APPROVAL"
            THEN /\ GoTo(j, "copy")
                 /\ UNCHANGED <<run, note, thread, art, calls,
                                decided, control, approved, wrote, taint>>
            ELSE End(j, "FAILED")

\* copy_thread: every row of the source's thread as it is now.
ForkCopy(j) ==
    /\ At(j, {"fork"}, "copy")
    /\ LET r == job[j].run
           s == run[r].source
       IN /\ thread' = [thread EXCEPT ![r] = thread[s]]
          /\ Tainted(r, When(thread[s].next # "apply" \/ Live(s) # {}, "torn"))
    /\ GoTo(j, "park")
    /\ UNCHANGED <<run, note, art, calls, decided, control, approved, wrote>>

ForkPark(j) == At(j, {"fork"}, "park") /\ End(j, "AWAITING_APPROVAL")

\* review_run: a pure read of the source's artifacts and one model call.
ReviewRun(j) ==
    /\ At(j, {"review"}, "check")
    /\ End(j, IF run[run[job[j].run].source].status = "SUCCEEDED" THEN "SUCCEEDED" ELSE "FAILED")

\* Any other exception.  start_run and resume_run name two exception classes
\* their module never imports, so evaluating the clause raises again.
Break(j) ==
    /\ "break" \in Faults
    /\ job[j].kind # "idle" /\ job[j].at \notin {"begin", "reject"}
    /\ IF job[j].kind \in {"start", "resume"}
         THEN Dies(j)
         ELSE /\ Became(job[j].run, "FAILED")
              /\ Over(j)
              /\ Tainted(job[j].run, When(job[j].at = "propose", "lost"))
              /\ UNCHANGED <<note, thread, art, calls, decided, control, approved, wrote>>

\* The runtime process ends: its background tasks and open requests go with it.
Restart ==
    /\ "restart" \in Faults
    /\ job' = [j \in Jobs |-> Idle]
    /\ calls' = {c \in calls : c.op \in Creating}
    /\ taint' = [r \in Runs |-> taint[r] \cup When(Live(r) # {}, "died")
                                \cup When(\E j \in Live(r) : job[j].at = "propose", "lost")]
    /\ UNCHANGED <<run, note, thread, art, decided, control, approved, wrote>>

(***************************************************************************)
(* The specification                                                       *)
(***************************************************************************)
GraphNode(j) ==
    \/ \E stage \in {"inspect", "plan", "apply", "tests", "diff"} : Checkpoint(j, stage)
    \/ Load(j) \/ Steered(j) \/ Inspect(j) \/ Claim(j)
    \/ \E e \in Edits : Propose(j, e)
    \/ Apply(j) \/ \E ok \in BOOLEAN : Tests(j, ok)
    \/ Diff(j) \/ Summarize(j)

JobStep(j) ==
    \/ GraphNode(j) \/ Begin(j) \/ Prepare(j) \/ Gate(j) \/ Finalize(j)
    \/ Recheck(j) \/ Rewind(j) \/ Reject(j)
    \/ ForkCheck(j) \/ ForkCopy(j) \/ ForkPark(j) \/ ReviewRun(j)

Member ==
    \/ \E r \in Runs, t \in Tasks : CreateRun(r, t)
    \/ \E r, s \in Runs : Fork(r, s) \/ Review(r, s)
    \/ \E r \in Runs, op \in {"approve", "reject"} : Decide(r, op)
    \/ \E m \in Controls, r \in Runs : CancelRead(m, r) \/ RedirectRead(m, r)
    \/ \E m \in Controls : CancelCommit(m) \/ \E g \in Guidance : RedirectCommit(m, g)

Runtime == (\E c \in calls : Endpoint(c)) \/ (\E j \in Jobs : JobStep(j))
Mishap == (\E c \in calls : GiveUp(c) \/ Drop(c)) \/ (\E j \in Jobs : Break(j)) \/ Restart

Next == Member \/ Runtime \/ (\E c \in calls : Answered(c)) \/ Mishap

Spec == Init /\ [][Next]_vars

\* The event loop takes every request that reached it and runs every background
\* task on; members and mishaps owe nothing.
FairSpec ==
    /\ Spec
    /\ WF_vars(\E c \in calls : Endpoint(c))
    /\ \A j \in Jobs : WF_vars(JobStep(j))

(***************************************************************************)
(* Properties                                                              *)
(***************************************************************************)
TypeOK ==
    /\ run \in [Runs -> Row]
    /\ note \in [Runs -> [Guidance -> {"NONE", "PENDING", "APPLIED"}]]
    /\ thread \in [Runs -> [next : Nodes, state : Channels]]
    /\ art \in [Runs -> [first : Nat, last : Nat, diff : Nat, inBox : Nat]]
    /\ job \in [Jobs -> {Idle} \cup Task]
    /\ calls \subseteq Call
    /\ approved \in [Runs -> SUBSET [plan : Nat, shown : Nat, asked : SUBSET Guidance]]
    /\ decided \in [Runs -> Nat]
    /\ control \in [Controls -> {Unsent, Done} \cup Control]
    /\ wrote \in [Runs -> SUBSET [plan : Nat, notes : SUBSET Guidance]]
    /\ taint \in [Runs -> SUBSET Marks]

\* No file is patched for a run before a member has approved a plan of that run,
\* whatever is redirected, cancelled, forked, lost or restarted (the graph's
\* interrupt in front of apply_edits, over every job that can drive the thread).
EditsNeedApproval == \A r \in Runs : wrote[r] # {} => approved[r] # {}

Undisturbed(r, what) == taint[r] \cap what = {}

\* Unless two jobs shared the thread, or one was lost with guidance it had claimed,
\* what is applied is never older than a plan some member approved and lacks no
\* guidance asked for by then: a redirect invalidates the plans before it
\* (interventions.ts, requestRedirect).
NeverStale ==
    \A r \in Runs : Undisturbed(r, {"overlap", "lost"}) =>
        \A w \in wrote[r] : \E a \in approved[r] : a.plan <= w.plan /\ a.asked \subseteq w.notes

Carries(j, r, g) == job[j].kind # "idle" /\ job[j].run = r /\ g \in job[j].mem.notes

\* Guidance marked APPLIED is in the checkpointed plan, or in the hands of a job
\* that is about to plan with it: whatever stops, steers or resumes the jobs, only
\* the end of the very job that has claimed it, before its plan is checkpointed,
\* loses it (and a second job on the thread, which may overwrite the checkpoint).
GuidanceKept ==
    \A r \in Runs : Undisturbed(r, {"overlap", "lost"}) =>
        \A g \in Guidance : note[r][g] = "APPLIED" =>
            g \in thread[r].state.notes \/ \E j \in Jobs : Carries(j, r, g)

\* The files a DIFF artifact names for delivery are the ones its diff was taken
\* over (capture_diff: a pull request carries precisely what was reviewed).
DiffIsWhatRan ==
    \A r \in Runs : Undisturbed(r, {"overlap", "torn"}) => art[r].diff = art[r].inBox

\* What may write to a run that has finished: a job scheduled for it, a caller
\* that gave up on it, and a cancel or redirect whose read saw it at the gate.
Late == {"overlap", "gaveUp", "overtaken"}

\* A run holds its task's slot exactly while it is active, so that no run is ever
\* left blocking its task or working without the slot, unless a late writer met it.
SlotWhileActive ==
    \A r \in Runs : Undisturbed(r, Late) => (run[r].slot <=> run[r].status \in Active)

\* Two active runs never share a task, unless one was revived by a late writer.
OneActivePerTask ==
    \A r, s \in Runs :
        /\ r # s /\ run[r].task = run[s].task
        /\ {run[r].status, run[s].status} \subseteq Active
        => ~Undisturbed(r, Late) \/ ~Undisturbed(s, Late)

\* A finished run stays as it finished, whatever was decided, answered or read
\* before (update_run_status checks nothing): a job of its own, a decision that
\* arrives late and a cancel or redirect that read it while it worked leave the
\* outcome alone.  The late writers named above do not, and nothing in the code
\* stops them.
FinishedIsFinal ==
    [][\A r \in Runs : run[r].status \in Terminal /\ run'[r].status # run[r].status
           => taint'[r] \cap Late # {}]_vars

\* Under a fair event loop every run comes to rest, at the gate or finished,
\* unless it was redirected at the gate or its job died.
ComesToRest ==
    \A r \in Runs :
        run[r].status \in {"QUEUED", "RUNNING"} ~>
            (run[r].status \in Terminal \cup {"AWAITING_APPROVAL"}
               \/ taint[r] \cap {"gateRedirect", "died"} # {})
=============================================================================
