# AgentGuard Control Room: a verification project

AgentGuard is a control plane for coding agents. Members of a room (an organization) create
runs, watch them live, approve or reject what a policy says a human must decide, and read the
evidence afterwards. The repository is a Next.js/TypeScript web tier over PostgreSQL (`src/`,
with the Prisma schema in `prisma/`) and a Python agent runtime (`services/agent-runtime`).

This directory holds TLA+ models of its core, the TLC configurations that check them, and
proofs checked by TLAPS. Paths below are relative to the repository's root.

## 1. Inventory

Three kinds of run share the tables `AgentRun`, `RunEvent`, `RunArtifact`:

- **governed runs**, a scripted agent executed inside the web tier (`src/lib/agents`);
- **backend-agent runs**, executed by the Python runtime over HTTP (`src/lib/agent`, `services/agent-runtime`);
- **external runs**, reported by an agent elsewhere through the ingestion endpoint (`src/lib/agent/ingest.ts`).

| Component | State | Operations | Interacts through | What is hard | What makes it correct |
|---|---|---|---|---|---|
| Governed executor and driver (`lib/agents/mock-executor.ts`, `driver.ts`) | `AgentRun.status`, `RunEvent` rows, artifacts, the in-memory `activeDrivers` of each process | `startRun`, `advanceRun`, `finishRun`, `pauseRun`, `resumeRun`, `driveRun`, `resumeStalledRun` | the database only; drives start from simulate, resume, approve and from an opened stream | the position is derived from the log; every step is several transactions; several processes; restarts | each step once, in order, each authorised by a recorded verdict; no run forgotten |
| Approval gate (`approvals.ts`, `approval-routes.ts`) | `ApprovalRequest`, `ApprovalDecision` | `openApprovalGate`, `resolveApproval` | row lock on the run; then the driver | reviewers racing each other and the driver; gates that outlive their run | at most one open gate; nothing gated happens without a decision of somebody else; a rejection is final |
| Interventions (`lib/agent/interventions.ts`) | `RunIntervention`, cancel fields of `AgentRun` | `requestCancel`, `requestRedirect`, `handoffRun` | transactions that read the run without a lock; for backend-agent runs a call of the runtime | check then act: what was read may have changed before it is written; cancel at a gate; who notices the request | a terminal status is never overwritten; an intent is recorded once and observed |
| Audit chain (`lib/audit`) | `RunEvent.sequence`, `previousHash`, `eventHash` | `appendRunEvent`, `appendEventTx`, `verifyChain` | the unique key on (run, sequence) | concurrent writers; retries; writers that do not hash | the log verifies exactly when nobody altered it |
| Evidence (`lib/evidence/service.ts`) | `EvidenceReport` | `finalizeEvidenceReport`, `buildEvidenceBundle`, the GET route | called by `finishRun` | sealed once under concurrent finishers; a bundle is read table by table | one report of a run that has ended, and whoever sees its seal is given it |
| Policy engine (`lib/policy-engine`) | `Policy`, `PolicyProfile` | `loadActivePolicies`, `evaluatePolicies`, seed | called by the executor, the preflight and the simulator | ties, precedence, malformed rows, scoping | a prohibition is never loosened; nothing by default; a verdict is reproducible |
| Run creation (`lib/agents/create-run.ts`) | `AgentRun`, `AgentTask` | `createGovernedRun`, `preflight` | policy engine | choice of the default profile | a run is governed by its room's rules |
| Event stream (`app/api/runs/[runId]/events/stream`, `components/agentguard/run-timeline.tsx`) | the connection's cursor; the page's list of events and status | connect, poll, drain, close; receive, re-open | polls the log; SSE with `Last-Event-ID` | reconnection, a refused connection, order, the end of a run | the page shows the log, in order, once, to its end |
| External ingestion (`lib/agent/ingest.ts`) | `AgentRun`, `RunEvent.externalEventId` | `resolveRun`, `ingestOne`, `ingestAgentEvents` | HTTP deliveries of an adapter that retries | duplicates, concurrent deliveries, late events, the task's slot | an event counts once; a closed run stays closed; one active run per task |
| Backend-agent runs (`lib/agent/runs.ts`, `forks.ts`, `reviews.ts`, `client.ts`, `runs/[runId]/decision`) | `AgentRun.activeTaskId`, reviews, forks | create, decide, fork, review | HTTP to the runtime with timeouts | the row and the call can fail apart; duplicate decisions | one active run per task; a run that was not started is not left active |
| Python runtime (`services/agent-runtime/app`) | LangGraph checkpoints, the same tables | create, resume, cancel, redirect, fork, review; graph steps | background tasks; reads cancel and redirect requests at checkpoints | races with the web tier's writes; unlocked sequences | a decision is applied once; a cancel wins; a redirect is planned |
| Tasks (`lib/tasks`) | `AgentTask.position`, `status`, `runVersion` | create, update, move, delete | optimistic version | neighbours read outside the transaction; midpoints | a stale edit is refused; the order is total |
| Rooms and members (`lib/rooms`) | `RoomMembership` | add, change role, remove | database | the last owner, counted without a lock | a room always has an owner |
| Delivery (`lib/github`) | `PullRequestLink` | create branch, commit, open a draft PR | GitHub over HTTP | remote effects before the idempotency row | a run is delivered once |
| Playbooks (`lib/playbooks`) | `Playbook`, `usageCount` | save, archive, start a run from one | the source run's log; run creation | one save, one count and one start are separate calls | saved once; the count is the runs started |
| Risk signals (`lib/agent/signals.ts`) | `RiskSignalDismissal` | compute, dismiss | reads runs and events; a decision on the log | computed from facts read one after the other | a dismissed alarm stays away, and nothing else does |
| Blast radius (`services/agent-runtime/app/blastradius`) | none; the import graph is rebuilt | build the graph, walk it | reads the repository's clone | limits that cut an answer short | distances are right; a partial answer says so |
| Board, timeline and run panel in the browser (`components/dev-room`, `components/agentguard`) | a copy of the tables, requests under way | moves, edits, refetches, polls | HTTP, Liveblocks broadcasts, SSE | answers and broadcasts arrive in any order or not at all | at rest, what is shown is what is stored |
| Claude Code adapter (`adapters/claude-code`) | none | hook to event | ingestion | which hooks are published, what status they imply | only events of the contract |
| Insights, dashboard, control room | derived views | reads | the tables above | - | - |
| Permissions, authentication, notifications, the rest of the UI | roles; session; presence | checks, rendering | - | - | - |


Every component is listed in `PROJECT.json` with its status; `PROJECT.json` also lists the hazards,
each at the line where it bites, and the map from every definition to the lines it models.

## 2. Plan

The order follows what would hurt most if it were wrong: the approval gate and the run it guards,
the log everything is derived from, the verdicts the gate rests on, then what reaches the
same rows from outside, then the rest of the room.

Done, in this order:

1. `GovernedRun`: executor, driver, gate, interventions on a governed run; proofs of types, one open
   gate, authorised steps.
2. `EventLog` (abstract) and `AuditChain` (detailed, implements it): the log `GovernedRun` takes
   for granted; proofs of the refinement, the badge, refusals.
3. `PolicyEngine` with `BuiltInPolicies`: the verdicts `GovernedRun` takes as a constant; proofs.
4. `Ingest` with `Adapter`: external agents, the task's slot; proofs.
5. `EventStream`: the page that shows a run; proofs that it shows the log, in order, to its end.
6. `AgentRuntime`: the Python runtime's API and graph together with the web tier's writes to the same
   rows; proofs of types, the gate, guidance, the slot and outcomes.
7. `Board`, `Room`, `Playbooks`, `Delivery`, `Impact`, `Signals`: the room around the runs; proofs of the property of each.
8. `Evidence`: sealing and reading a report, apart from the run; proofs of types and of its property.
9. `RunPanel`: the other view of a run, which polls and listens to broadcasts; proofs of its types and that it converges.

Left, in the order of what it would add:

10. `TaskSlot`, an abstract statement of what creation, ingestion and both runtimes promise about
    `activeTaskId`, with `Ingest` and `AgentRuntime` implementing it.
11. Positions of cards in a column, the refresh of a pull request's status, failing checks as a signal.

## 3. Modules

| Module | Models | State | Grain of an action |
|---|---|---|---|
| `GovernedRun` | `mock-executor.ts`, `driver.ts`, `approvals.ts`, `approval-routes.ts`, the governed part of `interventions.ts`, the seal of `evidence/service.ts` | the run's row (`status`, `cancelRequested`, `slotHeld`), its events (`log`), `gates`, `decisions`, `policyRows`, `artifacts`, `prLink`, `sealed`; per process the drive (`drv`), per member the request in flight (`req`) | one awaited database call or transaction |
| `EventLog` | nothing of its own: what a caller of `appendRunEvent` relies on | `recorded`, `answer` | one call |
| `AuditChain` | `audit/index.ts`, `audit/hash-chain.ts` | `rows`, the locals of each call, `begun` (history) | the tail read and the insert of each attempt |
| `PolicyEngine` | `policy-engine/*.ts`, the profile chosen by `create-run.ts`, the policies of `prisma/seed.ts` | `state` of each rule row, the run's `profile` | one edit, one creation; the evaluation is an operator |
| `BuiltInPolicies` | `policy-engine/built-in.ts` | none | - |
| `EventStream` | `runs/[runId]/events/stream/route.ts`, `run-timeline.tsx`, the reads of `page.tsx` | the run's `status`, `version`, `recorded` events; `page`, `source`, `frames`, `server` | one query of the handler, one frame, one render or effect of the component |
| `RunPanel` | `agent-run-panel.tsx`, `run-realtime.tsx`, `use-coalesced-callback.ts`, the requests of `run-controls.tsx` | the task's runs (`created`, `state`, `written`), the component's `view`, `requests`, `starting`, the coalescing `window` and `trailing` | one write of the run, one read of a route's handler, one answer, one timer |
| `Ingest` | `ingest.ts`, the transaction of `createAgentRun` | the task's `runs`, the locals of each `request` | one query of `resolveRun`, one recording transaction |
| `Adapter` | `contracts/agent-events.ts`, the maps of `ingest.ts`, `adapters/claude-code` | none | - |
| `AgentRuntime` | `runs.ts`, `forks.ts`, `reviews.ts`, `client.ts`, the decision route, cancel and redirect of `interventions.ts`; `routes.py`, `backend_agent.py`, `persistence` | `run` rows, REDIRECT interventions (`note`), checkpoints (`thread`), artifacts (`art`), background tasks (`job`), HTTP requests (`calls`), transactions that have read and not yet written (`control`) | one transaction of the web tier, the read or the write of a cancel or redirect, one endpoint, one graph node between two checkpoints |
| `Board` | `tasks/service.ts` and its routes, `board-context.tsx`, `task-form.tsx`, `task-dialog.tsx` | `card` rows; each page's `copy`, `form`, requests (`req`), `due` fetches | one request's handling, one answer, one event of the page |
| `Room` | `rooms/members.ts`, the members routes, `handoffRun` | `role` of each user, the run's `owner`, its `log` | the authorisation, each read, the commit |
| `Playbooks` | `playbooks/service.ts`, starting a run from one (`tasks/[taskId]/runs/route.ts`) | `saved`, `archived`, `uses`, the source's `events` and `marks`, `run`, `serving` | one query or transaction, one call of the runtime |
| `Delivery` | `github/pull-requests.ts`, the calls of `github/client.ts` | `active` repository, the task's `heading` (title), GitHub's `branch`, `pulls`, `isOpen`, the `link`, events | one call of GitHub, one query or transaction |
| `Impact` | `blastradius/graph.py`, `impact.py`; `matchesCriticalPath` | `edges`, `next`, `depth`, `queue`, `truncated` | one file scanned, one file visited |
| `Signals` | `agent/signals.ts`, the dismissal route, `risk-signals.tsx` | `live`, `touched`, `quiet`, `dismissals`, `decisions`, `storing`; the page's `rows`, `loading` and `shown` | one read, one transaction |
| `Evidence` | `evidence/service.ts`, the end of `finishRun`, `runs/[runId]/evidence/route.ts` | `ended`, `pending`, `trail`, `report`; how far each finisher (`sealing`) and reader (`reading`) is | one read of a bundle, one write |
| `MC...` | instances for TLC; the statements of section 7 that no run checks | - | - |
| `...Proofs` | theorems and lemmas | - | - |

**GovernedRun.** A driver's `pc` is the database call `advanceRun` does next:
`load` (218), `cursor` (242), `policy` (257), `grant` (295), `evaluated` (380) or `denied` (267),
`findGate`/`createGate`/`requested`/`park` (137-196, 360-376), `artifact` (107), `event` (400),
`pullRequest` (430), and `finish` ... `sealEvent` for `finishRun` (466-509) and
`finalizeEvidenceReport`. A handler that reads and then writes is two or three actions
(`PauseRead`, `PauseRecord`, `PauseCommit`), and so is a transaction that reads without a lock
under READ COMMITTED (`CancelRead`, `CancelCommit`). `Crash(p)` empties one process: its drives and its
handlers are gone, committed rows stay. `DriverFails(p)` is any database call of a drive that throws;
`driveRunInBackground` only logs it. What is left out: payloads, timestamps, pacing sleeps,
notifications. Choices that need a word:

- `appendRunEvent` is atomic; `AuditChain` implements `EventLog`, which is what makes this sound.
- The verdicts are a constant, a *set* of outcomes per action: two elements stand for rules that are
  edited while the run is under way.
- `setStatus(RUNNING)` for a QUEUED run inside `advanceRun` never fires, because every caller has set
  RUNNING; `MAX_STEPS = 64` is never reached, as no script has more than 16 steps; DRAFT and PREFLIGHT
  are statuses nothing writes for a governed run.
- A unique violation on an artifact's sequence, like any other exception, ends the drive:
  `DriverFails`.
- `finalizeEvidenceReport` looks for a report and creates it; here both are one action, and the unique
  key makes the loser of a race throw, which is again `DriverFails`. `Evidence` takes it apart.
- `PolicyDecision` rows are keyed by step and outcome, since their payload is all that differs
  between two evaluations of the same step.
- The earlier reads of a handler (permissions, existence) only refuse more, and are collapsed into its
  last read before it writes.

**AuditChain.** A digest is the sequence of everything hashed into it, which is what "SHA-256
without collisions" means: equal exactly when the same contents were hashed in the same order. `Calls \ Chained`
are the writers that share the table without hashing (`appendEventTx`, the Python runtime,
ingestion); they get one attempt. `Edit` is an UPDATE of a row behind the application's back.

**PolicyEngine.** A glob or a command pattern is the set of the values it matches, so that the
model keeps which rule matches what and drops how; `Filename` keeps that a path pattern may match the bare
name. What `orderBy` leaves open is a set of possible verdicts (`Evaluations`). The risk level and the
wording of a reason are left out. `BuiltInPolicies` holds the rules as they ship, and states of them, as an assumption
TLC evaluates, that no shipped profile puts an ALLOW ahead of a global rule.

**EventStream.** An event is its sequence number, so the log is how many there are. `frames` is the TCP stream:
in order, lost by `Break`, kept by `Expire` and at `done`. The effect closes the old source, whose handler
notices the abort. `Render` stands between `setStatus` and the effect: the effect's closure has the events
of its render, and newer ones may have been delivered meanwhile. `router.refresh()` renders the
server's part again and leaves the component's state. `Refuse` is the handler's `catch` (186-188): a session that ended, a member
removed or a query that failed (`requireRunPermission`, 34) is answered with an error. An `EventSource` does not try again after
such an answer, and the component only shows that it is not connected (`run-timeline.tsx:102`); only its effect opens another source.

**RunPanel.** A refetch is two reads by the server, the row and what it recorded, and one answer; a
teammate may start another run in between, so an answer may be about a run that is no longer the newest.
`crossed` and `missed` remember that an answer overtook an earlier one, or was lost: nothing in the component
orders answers. `Realtimes` says whether the room is connected to Liveblocks at all.

**Ingest.** `resolveRun` runs outside any transaction: each of its queries is an action. The transaction
that records an event is one action: a concurrent one on the same run inserts the same
sequence number, so it waits for the unique index, fails, and starts again from a fresh read; one that committed
before is seen. So the status it checks (line 225) cannot change under it. `Fail` is a crash, a query
that throws and five lost races alike: the adapter sees an error, and delivers again or not. The task's provider
field, the rate limit and notifications are left out, and so are cancellations of an external
run by a member, whose overwriting of statuses is section 7's first entry. The events that `MCIngest` delivers are those
`Adapter` makes of the hooks of a session, and the status each stands for is `NextStatus` of it. A hook is what is there of its
payload: the words of a prompt or a command and their redaction are left out.

**AgentRuntime.** A `job` is a background task of the FastAPI process, or the synchronous fork handler; nothing in the
runtime keeps two of them off one thread. `thread` is the latest checkpoint; a node that
ends writes it, a restart forgets jobs and keeps threads. A plan is a number and whether it edits anything: every plan the
model could propose is an arbitrary choice. A cancel and a redirect are a read and a write, as in `GovernedRun`: under READ COMMITTED nothing
locks the row in between, the write does not look at the status again, and everything else may happen meanwhile. `taint` remembers what
happened to a run that nothing in the code handles: two jobs on one thread or a job scheduled for a run that has finished (`overlap`), a redirect at the gate (`gateRedirect`), a caller that gave up on a request
that was taken (`gaveUp`), a job that ended without a word (`died`), a fork's copy of a thread that was being worked on (`torn`), guidance claimed by a job that ended
before its plan was checkpointed (`lost`), and a cancel or redirect that read the gate and found the run finished when it wrote (`overtaken`).
A property names the taints it excepts, and each is a departure listed in section 7 or a limit stated by its comment.

**Board.** A page awaits nothing before it starts the next request; answers are patches over its copy. `base` and `want` are the
form's fields when it was opened and when it was saved. `astray` marks a page that was told an older state last, or whose
broadcast was lost; the code has no order to put answers in. A card's position is left out.

**Room.** A request is authorised by its author's role at that moment; its reads and its commit are separate, under READ
COMMITTED. `raced` remembers that an owner left while another request that was found harmless had not committed yet. A hand-over takes its
run as unfinished, the check being one read like the others.

**Delivery.** GitHub's state is what its calls leave, kept for each branch a run can be given: one per repository and title, as the
branch is named after the task. Each call may fail with or without its effect. The refresh of a
pull request's status is left out: a read of GitHub and one write, two of which may cross and store the older state.

**Impact.** Files are numbered as git lists them; which file imports which is an arbitrary relation. The reference, `Affected`, is
the set reached backwards along at most k imports, computed without the traversal's queue.

**Signals.** A signal is its identity: the run, the kind and, for an overlap, the other run. `ReadRuns`, `ReadEvents` and `ReadDismissals` are the three reads of a
load, with writes in between; the critical paths of the repository, read between the first two, are a constant. Failing checks are left out; a live run counts as one that may be stalled.

**Evidence.** Kept of a bundle is whether the run had ended, whether a gate was open and how many events the
verification covered. `EndGates` and `Settle` are the two halves of `finishRun` before it seals. `revived`
remembers a gate asked for, an answer or another status written while the run ended or after; nothing in the code stops them.

## 4. Runs

Every run finishes within about two minutes on two cores. Deadlock is not checked: a run that has finished, a log nobody
writes to, a stream that has ended and a request budget that is spent really stop.

| Run | Question | Bounds | States |
|---|---|---|---|
| `Single` | Every request, rules edited under way, one fault, one server process, under fairness: `StepsAuthorised`, `StepsInOrder`, `GateHolds`, `RunMoves`, `TypeOK` | 3 members, 3 requests, 1 fault, the script from its diff to its end | 636,021 |
| `TwoProcs` | Two processes drive the run: `OneOpenGate` | 2 processes, 3 members, 2 requests, no fault | 948,628 |
| `RejectedThenDelivered` | departure, section 7 | 3 members, 3 requests | - |
| `AuditChainCalls` | `BadgeIsHonest`, `RefusedOnlyUnderContention`, `EveryCallReturns`, `ImplementsEventLog`, `TypeOK` | 3 hashing calls, 1 plain writer, 2 attempts, 1 edit | 69,712 |
| `PolicyEngineVerdicts` | `ProfileOnlyTightens`, `SameVerdictEveryTime`, `TypeOK` | 7 rules, 4 of them as they ship, in 3 states each, 3 profiles, 6 questions | 6,561 |
| `EventStreamPage` | The timeline: `ShownInOrder`, `DoneIsComplete`, `EventsArrive`. The panel: `PanelConverges` | 3 events, 2 status changes, 1 broken or expired connection, connections refused at any time, 1 event per poll; 2 runs of the task, 1 record each, 1 refetch under way | 435,929 |
| `IngestDeliveries` | Reports: `OneActiveRun`, `AcceptedIsRecorded`, `ClosedStaysClosed`, `TypeOK`. Alarms: `DismissalsHold` | 3 interchangeable requests, 4 batches, 2 sessions, 1 run of a member; 2 runs, 1 path, 2 dismissals, logs of 2 | 419,131 |
| `AgentRuntimeRuns` | One run with every fault: `EditsNeedApproval`, `NeverStale`, `GuidanceKept`, `SlotWhileActive`, `DiffIsWhatRan`, `FinishedIsFinal`, `TypeOK` | 1 job at a time, 2 interchangeable pieces of guidance, 2 interchangeable cancels or redirects, 2 decisions, broken jobs, restarts, lost answers | 701,113 |
| `AgentRuntimeForks` | Two runs, under fairness: `OneActivePerTask`, `ComesToRest` | 2 runs, 1 task and the forks' clones, 2 jobs, 1 cancel, 1 decision each, no guidance, no fault | 270,335 |
| `AgentRuntimeGateRedirect` | departure, section 7 | 1 run, 1 job, 1 redirect | - |
| `WorkspaceParts` | `BoardConverges`, `EditsOnlyOwnFields`, `OwnerRemains`, `OwnerIsLastHandedTo`, `PlaybooksAreTrue`, `ShippedOnce`, `AnswerIsHonest`, `ReportStands` | below | 996,828 |
| `RoomLastOwner` | departure, section 7 | 2 users, 2 requests at a time, 4 in all | - |

`WorkspaceParts`, `EventStreamPage` and `IngestDeliveries` check modules that share no variable in one run: a variable names
the part that moves, and the others stay as they began. What a part can reach beside the others is what it can reach
alone, so the states of such a run are the sum of its parts' and nothing is lost. Where they do
interact, through the log, through the runs' rows or through a broadcast, the neighbour is in the module itself as an action that may
happen at any time (`OtherEvent`, `OtherSourceEvent`, `OtherRunEvent`, `OtherTrailEvent`, `Touch`, `ChangeState`, `OverwriteStatus`).
Bounds of `WorkspaceParts`: board, 2 pages with 2 requests each, 2 cards, 2 columns, 2 writes, lost broadcasts;
room, 3 users, 2 requests at a time, 4 in all; playbooks, 2 sources, 2 requests at a time, 5 in all, 2 runs; delivery, 2 callers, 3 calls,
2 repositories, 2 titles, 2 changes of either, 2 reviewed files; impact, every relation of at most 3 imports over 4 files under each limit; evidence, 2 finishers,
1 reader, a trail of 2 before they begin.

Why the bounds are enough. *Requests:* the worst sequences found take three (simulate, then two
that race); with four requests of every kind the state space no longer fits, and a
search through its first eight million states found no violation. The room needs four: two to make a second owner and two
to lose both. *Faults:* one crash between any two
database calls, at every such place; a second crash finds a log of the same kind as the first. Faults of
`AgentRuntime` are not counted: any number of restarts and losses.
*Scripts:* the executor tells steps apart by action, artifact, the gated flag and whether the event is
PR_DRAFTED or terminal; `MCGovernedRun` has a step of each kind, with runs of equal steps cut
to one. *Attempts:* two stand for five, since an attempt leaves nothing but a count behind; the theorem
covers every number. *Take:* one event per poll instead of a hundred makes a
backlog possible with three events. *Rules:* each kind of effect, scope and condition field, a tie, a broad
ALLOW above everything. *Jobs:* two on one thread are the race the runtime does not exclude; a third finds what
the second does. The safety properties of `AgentRuntimeRuns`, `EditsNeedApproval` aside, except that race, so the run spends its states
on what they do not except. With a second job and one piece of guidance in place of two it holds as well (3,293,548 states, too long
to repeat each time), and the theorems, `EditsApproved` first, cover any number of jobs. *Cancels and redirects:* two are one of each, or two of either, crossing between their reads and writes;
two pieces of guidance let a second redirect meet the re-planning of the first. *Writes and fetches:* a stale answer needs one write, one answer under way and one
later; two pages and two requests each make every crossing of two.

What the properties say:

- `StepsAuthorised`: a governed step the agent performed has a recorded verdict ALLOWED, or
  APPROVAL_REQUIRED and the approval of its action by somebody else than the requester; a pull request
  has the agent's draft.
- `StepsInOrder`, `GateHolds`: with one process, steps are settled once and in order through pauses,
  redirects, approvals and restarts, and nothing is performed after the gate opened before somebody
  approved. Both are about one process: a second one may still record an earlier step when
  the first has opened the gate, and repeats steps of the first, because `activeDrivers` is per process.
- `OneOpenGate`: by the unique key, also when both processes have seen no gate.
- `RunMoves`: a RUNNING run does not stay RUNNING.
- `BadgeIsHonest`: the verification badge is right in both directions on every log that adopted hashing at
  some point.
- `RefusedOnlyUnderContention`, `EveryCallReturns`, `ImplementsEventLog`: a call of `appendRunEvent` records
  its event once at the end, or gives up after as many competitors as it has attempts.
- `ProfileOnlyTightens`, `SameVerdictEveryTime`: about verdicts.
- `ShownInOrder`, `DoneIsComplete`, `EventsArrive`: the page shows a prefix of the log at all times, all of it
  if it listened to the end, and every event in the end, unless it stopped listening to a finished run or the server refused one of its connections.
- `PanelConverges`: a panel that has stopped asking shows the run as it is, if no answer crossed or was lost.
- `OneActiveRun`, `ClosedStaysClosed`, `AcceptedIsRecorded`: about deliveries.
- `EditsNeedApproval`: no sandbox is patched for a run that no member approved. `NeverStale`: nor with a plan older than an approved one, or
  without guidance asked for by then. `GuidanceKept`: guidance marked APPLIED is in the plan or in a job's hands. Both except two jobs on one thread and a job that went
  with guidance it had claimed. `DiffIsWhatRan`: the files named for delivery
  are those the diff was taken over. `SlotWhileActive`, `OneActivePerTask`: a run holds its task's slot exactly while active, and two never share it.
  `FinishedIsFinal`: an outcome is not overwritten. These three except the late writers (`Late`): a job scheduled for a run that was finished or worked on, a caller that
  gave up, and a cancel or redirect that had read the run at the gate. Everything else, decisions and jobs that come late included, leaves an outcome alone. `ComesToRest`: liveness, without faults.
- `BoardConverges`, `EditsOnlyOwnFields`, `OwnerRemains`, `OwnerIsLastHandedTo`, `PlaybooksAreTrue`, `ShippedOnce`, `AnswerIsHonest`, `DismissalsHold`: one for
  each part of the room; the comment above each names the code's promise and its exceptions. In the run of `EditsOnlyOwnFields` every card has the same title, since a second one does not
  fit beside the other parts; that the title is kept as well is `OnlyOwnFieldsEdited`, for any titles.
- `ReportStands`: a run is sealed once, behind everything its report counts; the report says that the run had ended and left no gate open, unless something stirred the run
  meanwhile; whoever is shown the seal is given the report.

The type invariants of the room's modules (`BoardTypeOK`, `RoomTypeOK`, `PlaybooksTypeOK`, `DeliveryTypeOK`, `ImpactTypeOK`, `SignalsTypeOK`, `PanelTypeOK`) are stated and hold under
the same configurations; no run spends a property on them. All but `SignalsTypeOK` are proved. `NothingByDefault` and `OwnRulesOnly` are proved instead of run.

Fairness. `GovernedRun`: weak fairness of each driver's and each handler's next call (a Node process runs
started work to its end, and a crash takes the work with it) and of `OpenStream`, because the
page of a RUNNING run reconnects by itself and each connection calls `resumeStalledRun`. No member owes
a request, and faults are bounded, not owed. `RunMoves` depends on somebody keeping the page open: that is
what `driver.ts:105-111` says too. `AuditChain`: a started call runs on. `EventStream`: the component renders, the browser
delivers and reconnects (`retry:` is sent), the handler's loop turns; the run owes nothing, and breaks are
bounded. A connection may be refused whenever one is asked for; nothing owes a refusal or prevents one, and `EventsArrive` excepts a page left without a source by it; in the run that adds `RunPanel` the same fairness holds of the same actions, and nothing is assumed of the panel. `AgentRuntime`: the event loop runs each background
task on, and a request that was sent is handled and answered; no member owes a decision, so a run may rest at the gate.

## 5. Proofs

All theorems hold for every value of the constants that satisfies the named assumptions of the module; TLC evaluates
those on every run.

- `GovernedRunProofs`. `TypeCorrect` from `TypeInv`: `TypeOK` with what a driver knows of its step
  (it is one of the script's, and the policy engine is asked only about steps with an action), without which
  `RecordStep` could write an event of no type. `GateIsUnique` from `TypeInv` and the same statement without counting: only
  `CreateGate` opens a gate, and only when none is open. `StepsAreAuthorised` from `AuthorityInv`, the invariant that
  links a verdict to its step: a step performed, and the step any driver is past the policy check with, is
  *cleared* (narration or authorised); a driver at `grant` has the verdict that asks for an approval on record; a gate
  is APPROVED only with a decision of a member who is not the requester, as is any approval about
  to commit; and a driver at `pullRequest` has recorded PR_DRAFTED. It is inductive because verdicts, decisions and the
  actions of gates are never taken back (`EvidenceStays`). `StepsStayInOrder`, with one process (`OneProcess`; two settle a step twice), from `OrderInv`: until it records
  its verdict a driver's step is above every step on record, and then above every settled one. Crashes and failed calls only take drivers away, and what is recorded
  by anyone else names no step. `GateAlwaysHolds`, for scripts whose tail is guarded (`GateGuarded`: behind a gate, every step but the last has an action no rule allows outright), joins the
  two: what the agent performs after the request is a later step of the script, its authority cannot be an ALLOWED verdict, so it is an approval.
- `AuditChainProofs`. `TypeCorrect`; `CallsImplementEventLog`, the refinement; `BadgeTellsTheTruth` from `LinkedInv`:
  every row links to the row before it and carries the digest of what it said when it was written, and a call about to insert
  holds the link of a row that may be taken but cannot have moved. `GivesUpUnderContention`, from a count of
  the rows added since the call began.
- `PolicyEngineProofs`. `TypeCorrect`, `ProfilesOnlyTighten`, `NothingIsAllowedByDefault`, `OwnRulesDecide`, `VerdictIsUnique`.
  `ProfilesOnlyTighten` and `NothingIsAllowedByDefault` are about the state alone: the order deny, approval, allow over a set that
  only grows with a profile. `NothingIsAllowedByDefault` and `OwnRulesDecide` are stated by no run. `VerdictIsUnique` needs that some matching rule is ahead of all others: the rule
  with the fewest ahead of it, which exists because the rules are finitely many (`RulesAssumption`: they are rows of a table).
- `IngestProofs`. `TypeCorrect`, `TaskHasOneActiveRun`, `ClosedRunsStayClosed` from `SlotInv`: the active runs are exactly
  those that hold the slot, and at most one holds it. `AcceptedStaysRecorded` from `RecordInv`, which adds what each request has been through (`Carried`): the events
  before its place in the batch are on record, with a run of their session. `DismissalsAlwaysHold`, about `Signals`, from `AlarmsInv`: an alarm of two runs carries the lower one's name
  wherever it is kept, and a dismissal is stored exactly when its decision is on the timeline.
- `AgentRuntimeProofs`. `TypeCorrect`, `EditsApproved`, both from one inductive invariant `IInv`. An approval could only be
  bypassed by a job that reaches `apply` without one, and the invariant says why none does: a resume has a member behind it from
  the request on (`Consent`); a start passes the gate by itself only with a plan that edits nothing (`NothingToApprove`), which stays so because
  nothing else drives the run until the request that creates it is through (`Alone`, `Begun`); and a fork stops at the gate its copy begins at (`Forked`).
  The other six come from `JInv`, which adds three things. `Steady`, about one run at a time: until two writers race, one job drives the run
  (`OneJob`), what the job has read is what the thread holds (`Reads`), its sandbox holds the plan it applied or nothing (`Boxed`), the slot is held exactly while the run is active (`Settled`), an approval names no plan newer than
  the thread's (`Older`), and applied guidance is in the thread or in the job's hands, unless the job that had claimed it was lost (`Guided`, `Kept`). `Apart`, about two: no two rows hold one task's slot. And `Seen`, about a cancel or redirect between its read and its write: if it read the gate,
  its run has been created and the request that opened it is through, so the write comes to a run that is parked, worked on or finished, and in the last case is marked. `NothingStale`, `GuidanceNeverLost`, `DeliveredIsWhatRan`, `SlotHeldWhileActive`, `OneActiveRunPerTask`
  and `OutcomeIsFinal` follow, with the exceptions their properties name. Each action is proved to keep `Steady` of the run it touches; a lemma (`Elsewhere`) keeps it of the others.
- `EvidenceProofs`. `EvidenceTypeCorrect`, `ReportAlwaysStands`, from `SealInv` (between the report and its event there is one finisher at most, the
  report is its bundle, and no seal is on the trail), `EndInv` (while nothing revives the run it stays ended from its first finisher on, with no
  gate open, and every bundle has it so) and `ReadInv` (a seal that was seen had its report). About `Impact`: `ImpactTypeCorrect`, `AnswerAlwaysHonest`, from `WalkInv`. The queue is in the order of distance, no two
  in it more than one apart (`BreadthFirst`); the importers of what was visited are found (`Explored`); so while everything that waits is K imports away or more,
  everything within K is found (`FoundWithin`, where the induction is), which is why what is found next is at its shortest distance (`Distances`). The inductions over
  numbers are by a least counterexample (`UpTo`), as the library's induction theorems cannot be instantiated.
- `WorkspaceProofs`. Of the members: `RoomTypeCorrect`; `OwnerAlwaysRemains` from `OwnerInv`: until an owner leaves behind a check, the room has an owner, and a change that was found
  harmless still leaves one (`Kept`); a request that skipped the check makes an owner. `OwnerAlwaysLastHandedTo` is inductive with the types alone: a hand-over
  is the only step that sets the owner or appends a transfer, and it does both. Of deliveries: `DeliveryTypeCorrect`, `AlwaysShippedOnce` from `DeliveryInv`: a caller between its branch and its link is alone with the branch (`BranchInv`), what it
  has put there is what the branch shows, and the pull request is open exactly once it has asked for it; a link is a complete branch's, and nobody was answered before there was one (`LinkInv`).
  Of playbooks: `PlaybooksTypeCorrect`, `PlaybooksAlwaysTrue` from `PlaybooksInv`: whatever names a playbook names a saved one, a run about to be started is one request's alone (`RunsArePlaybooks`), and
  the counts are of finite sets (`UsesInv`). Of the board: `BoardTypeCorrect`, `OnlyOwnFieldsEdited`, `BoardAlwaysConverges` from `BoardInv`: a card's row is its newest version and no version is given twice (`RowsInv`);
  an answer as new as the database says what the database holds (`AnswersInv`); and a page that will hear of nothing more has heard of the present, and shows it but for the moves it awaits,
  unless it was told of the past since (`Mirrors`).
- `StreamProofs`. Of the stream: `TimelineTypeCorrect`, `AlwaysShownInOrder`, `DoneIsAlwaysComplete` from `StreamInv`: each event on its way follows the one before it, among the frames or on the page, up to the handler's
  cursor (`FramesInv`); a connection resumes from what the page holds (`PageInv`); "done" comes behind the last event of a finished run (`DoneInv`). Of the panel: `PanelTypeCorrect`, `PanelAlwaysConverges`
  from `PanelInv`: unless a broadcast was missed or answers crossed, another refetch is owed, or the last request reads, or has read, what the database holds (`Follows`).

Model-checked only: liveness (`RunMoves`, `EveryCallReturns`, `EventsArrive`, `ComesToRest`), as the prover handles neither fairness nor
ENABLED, and with it the fair part of the refinement of `EventLog`; and `SignalsTypeOK`. Every invariant and every action property of a passing run is proved.

## 6. Not modelled

See `components` of `PROJECT.json` for each part. In short: insights, the dashboard and the control room are reads of tables the modules write, and pages render them.
Of the Python runtime, Docker, git, the language model, patching and the parsing of files are input and output: what they return is an arbitrary choice or
a fault. Redaction, path checks and globs are functions of strings without a protocol. Of the task board, positions; of delivery, the refresh of
a pull request's status; of the signals, failing checks. Permissions are a table without state beyond what `Room` and `GovernedRun` take of it.
Authentication, Liveblocks' own service and notifications are external or best effort. The preflight of a run is advisory.

## 7. Departures of the code from what it says of itself

With a run of its own, whose counterexample is the story:

| Run | What is said | What happens |
|---|---|---|
| `RejectedThenDelivered` | `approvals.ts:105-106`: a rejected gate ends the run | both reviewers read PENDING (`approvals.ts:40`), both commit; the pull request follows the rejection |
| `AgentRuntimeGateRedirect` | `routes.py:279`: a run parked at the gate "is re-planned immediately" | the web tier has set RUNNING before it calls; the endpoint re-plans only a run it finds AWAITING_APPROVAL, so the guidance stays PENDING and the run RUNNING with no job |
| `RoomLastOwner` | `members.ts:12-15`: "a concurrent pair of requests cannot leave a room ownerless" | both transactions count two owners under READ COMMITTED, and both commit |

Without a run: the statements are in the modules named, under "Departures" or beside the property they sharpen. To see one, put its
`INVARIANT` or `PROPERTY` line in place of those of the configuration named.

| Statement | Module, configuration | What happens |
|---|---|---|
| `TerminalIsFinal` (`interventions.ts:35-37`, a terminal outcome "must never be overwritten") | `GovernedRun`, `GovernedRun_Single` | statuses are written unconditionally (`mock-executor.ts:203`, `approvals.ts:79`): a run cancelled at its gate keeps the gate PENDING, and approving it sets the run RUNNING; a pause, finish or park under way overwrites CANCELLED |
| `NoPartialStep` (`mock-executor.ts:214-215`) | `GovernedRun`, `GovernedRun_Single` | POLICY_EVALUATED moves the cursor before the step's effects; a crash in between skips the step |
| `NoAnsweredGateParks` (`approvals.ts:56-58`) | `MCGovernedRun`, `GovernedRun_Single` | a gate can be answered as soon as it is inserted; `setStatus(AWAITING_APPROVAL)` then overwrites the RUNNING of the answer |
| `NoGateAfterFinish` (`mock-executor.ts:491-492`) | `MCGovernedRun`, `GovernedRun_Single` | a cancel at the gate ends the run and leaves the gate in the reviewers' queue |
| `SlotFreedWhenFinished` (`schema.prisma:432-433`) | `MCGovernedRun`, `GovernedRun_Single` | neither `finishRun` nor a rejection clears `activeTaskId` |
| `PendingGateBlocks` (`schema.prisma:772-774`) | `MCGovernedRun`, `GovernedRun_Single` | `advanceRun` looks for an APPROVED request and never for a PENDING one; a stale drive can have opened another gate meanwhile |
| `CancelRecordedOnce` (`interventions.ts:123`) | `MCGovernedRun`, `GovernedRun_Single` | two cancels read `cancelRequestedAt` before either commits |
| `CancelIsObserved` (`interventions.ts:97-98`) | `MCGovernedRun`, `GovernedRun_Single` with `Operations = {"simulate", "cancel"}` | nothing in the governed executor reads `cancelRequestedAt` |
| `UntouchedVerifies` (`hash-chain.ts:125-131`, `README.md:372-374`) | `AuditChain`, `AuditChain_Calls` with `MaxEdits = 0` | a plain row between two hashed ones makes the second link to the genesis hash, and verification fails on a log nobody touched |
| `MalformedNeverWidens` (`policy-engine/index.ts:40-45`) | `MCPolicyEngine`, `PolicyEngine_Verdicts` | a prohibition whose condition does not parse is dropped like any other rule |
| `RoomDefaultWins` (`create-run.ts:182-183`) | `MCPolicyEngine`, `PolicyEngine_Verdicts` | `orderBy: { roomId: "desc" }` puts the null room first in PostgreSQL |
| `SimulatorAgrees` (`README.md:332-335`) | `MCPolicyEngine`, `PolicyEngine_Verdicts` | the simulator passes no profile |
| `LastEventsAreShown` (`events/stream/route.ts:142-143`) | `EventStream`, `EventStream_Page` | the terminal status is sent before the last query's events; the page closes its source when it renders that status, and its list of events is initialised only once |
| `ReconnectsOnItsOwn` (`events/stream/route.ts:23-24`) | `MCEventStream`, `EventStream_Page` | an error answer ends the `EventSource` for good, and the component only clears `connected` (`run-timeline.tsx:102`): the page stays open and no further event arrives |
| `RecordedOnce` (`ingest.ts:172-174`) | `MCIngest`, `Ingest_Deliveries` | two deliveries of a batch that also ends its run both find no run of the session; the first creates, records and closes its run, the second creates another and records everything again |
| `FailuresRecorded` (`routes.py:127`) | `MCAgentRuntime`, `AgentRuntime_Runs` | the clauses that would record the failure name exception classes the module does not import: the run stays RUNNING |
| `AppliesShownPlan` (`backend_agent.py:395-396`) | `MCAgentRuntime`, `AgentRuntime_Runs` | after a redirect the panel shows the first PLAN artifact, the runtime applies the last |
| `AppliesApprovedPlan` (the same) | `MCAgentRuntime`, `AgentRuntime_Runs` | an approval names no plan: one that arrives late approves whatever plan is at the gate by then |
| `OutcomesStand` (`interventions.ts:35-37`) | `MCAgentRuntime`, `AgentRuntime_Runs` | a cancel and a redirect both read AWAITING_APPROVAL (108, 196); the cancel commits CANCELLED and gives the slot back (144-157), then the redirect writes RUNNING (226): the run is at work without its slot. Likewise either of them overwrites the FAILED or SUCCEEDED of a run that was resumed meanwhile |
| `NeverAppliedStale` (`interventions.ts:187-188`) | `MCAgentRuntime`, `AgentRuntime_Runs` | guidance is claimed before the plan it is for is checkpointed: if the job ends in between, no later plan has it, and a redirect that commits afterwards brings the run back to work and to its gate |
| `CancelConverges` (`interventions.ts:97-98`) | `MCAgentRuntime`, `AgentRuntime_Forks` | a cancel recorded while the job plans is not looked for before the run parks at the gate |
| `SavesOnlyOwnChanges` (`task-dialog.tsx:26`, "Changes are checked for conflicts") | `Board`, `Workspace_Parts` | the form sends the version the card has when it is saved (`task-form.tsx:69`) with the fields of when it was opened |
| `EveryPullRequestLinked` (`pull-requests.ts:33-34`) | `Delivery`, `Workspace_Parts` | a failure after GitHub opened the pull request leaves it without a link, and no retry can cut the branch again |
| `OnePullRequestPerRun` (the same) | `Delivery`, `Workspace_Parts` | between two attempts the room is connected to another repository, or the task, which names the branch, is renamed: the retry cuts another branch and opens another pull request, in the same repository even |
| `PartialIsFlagged` (`graph.py:64-66`) | `Impact`, `Workspace_Parts` | a file above `max_file_bytes` is skipped and no flag is set |
| `CriticalAgrees` (`impact.py:142-144`) | `Impact`, `Workspace_Parts` | the two matches differ on a star and on a longer name (`signals.ts:96-104`) |

Read, and not stated:

- `docs/agent-event-contract.md:159-160` says that `review_ready` gives the task's slot back, while
  REVIEW_READY is an active status and keeps it (`interventions.ts:26-34`, `ingest.ts:238-240`).
- `schema.prisma:865`: "A traversal bound was hit" sets `truncated`; the depth bound never does (`impact.py`).
- The runtime's clone of a repository is cached by branch and never refreshed (`repository/clone.py`, `blastradius/service.py`).
- A dismissed `critical_path` alarm is keyed by its run alone (`signals.ts:182`) and hides files touched later; and a
  dismissal's own DECISION_RECORDED counts as activity, so it clears "stalled".
- The comment "refresh on status changes" (`agent-run-panel.tsx:170`): the effect runs when the run's id changes. Without Liveblocks, a finished run can be shown with
  artifacts or events missing (two reads, and polling stops), a run that waits is not polled, and a late first answer replaces the run just started. `PanelConverges` excepts these.
- "Sealed last, so the bundle captures the completed run" (`mock-executor.ts:509`): an answer, a new gate or another status while or after the run ends makes a
  sealed report say that the run had not finished; `ReportStands` excepts it by `revived`. A stop between the report and its event leaves a report without EVIDENCE_FINALIZED. The count of
  events and the verification of one bundle are separate reads and may differ. The evidence page reads report and bundle at once (`evidence/[runId]/page.tsx:39-42`), and may
  show a trail with the seal and no report, unlike the route.
- The adapter reports a Notification as WAITING_FOR_INPUT, and no hook but SessionStart sets RUNNING again (`map-hook-event.mjs`): a run that works on still reads as waiting.
