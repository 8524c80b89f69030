------------------------------- MODULE Ingest -------------------------------
(***************************************************************************)
(* Reports of external agents on one task (src/lib/agent/ingest.ts, called *)
(* by src/app/api/agent-events/route.ts): adapters deliver batches of      *)
(* events, late, repeatedly and concurrently; each event is resolved to    *)
(* the run of its session, which the first one creates, and recorded with  *)
(* the status it reports.  Members start runs on the same task             *)
(* (src/lib/agent/runs.ts), and the task has room for one active run.      *)
(*                                                                         *)
(* resolveRun is a series of queries outside any transaction, each an      *)
(* action.  The transaction that records an event is one action: another   *)
(* one on the same run either committed before it or waits for the same    *)
(* sequence number until it has.                                           *)
(***************************************************************************)
EXTENDS Integers, Sequences, FiniteSets

CONSTANTS
  Sessions,     \* agent.sessionId
  Events,       \* events of the contract, by their (derived) event id
  SessionOf,    \* the session of each event
  ReportedBy,   \* the status each event reports or implies
  NoStatus,     \* ... if any
  Member,       \* in place of a session: a run a member has started
  Batches,      \* what an adapter may deliver in one request
  Deliveries,   \* the requests; a retry is another request with the same batch
  MaxMemberRuns \* bound: runs the members start

ActiveStatuses == {"QUEUED", "RUNNING", "AWAITING_APPROVAL", "WAITING_FOR_INPUT",
                   "BLOCKED", "REVIEW_READY"}
TerminalStatuses == {"SUCCEEDED", "FAILED", "CANCELLED", "MERGED", "ABANDONED"}
Statuses == ActiveStatuses \cup TerminalStatuses

ASSUME ReportAssumption ==
  /\ SessionOf \in [Events -> Sessions]
  /\ ReportedBy \in [Events -> (Statuses \ {"QUEUED", "AWAITING_APPROVAL", "SUCCEEDED"})
                                 \cup {NoStatus}]
  /\ NoStatus \notin Statuses /\ Member \notin Sessions
ASSUME BatchAssumption == Batches \subseteq Seq(Events) /\ <<>> \notin Batches
ASSUME BoundAssumption == MaxMemberRuns \in Nat

VARIABLES
  runs,    \* the task's AgentRun rows, in the order they were created
  request  \* the locals of each request

vars == <<runs, request>>

\* slot: activeTaskId is the task; it is unique.
Run == [session : Sessions \cup {Member}, status : Statuses, slot : BOOLEAN,
        events : Seq(Events)]

RequestPc == {"idle", "find", "look", "create", "seen", "append", "accepted", "failed"}

\* at is the place in the batch, run the row it was resolved to, 0 before.
Request == [pc : RequestPc, batch : Batches \cup {<<>>}, at : Nat, run : Nat]

TypeOK ==
  /\ runs \in Seq(Run)
  /\ request \in [Deliveries -> Request]
  /\ \A d \in Deliveries :
       /\ request[d].pc \in {"find", "look", "create", "seen", "append"} =>
            request[d].at \in DOMAIN request[d].batch
       /\ request[d].pc \in {"seen", "append"} => request[d].run \in DOMAIN runs

Init ==
  /\ runs = <<>>
  /\ request = [d \in Deliveries |-> [pc |-> "idle", batch |-> <<>>, at |-> 0, run |-> 0]]

Event(d) == request[d].batch[request[d].at]
RunsOf(session) == {i \in DOMAIN runs : runs[i].session = session}
Active == {i \in DOMAIN runs : runs[i].status \in ActiveStatuses}
Holders == {i \in DOMAIN runs : runs[i].slot}
Recorded(i, e) == \E k \in DOMAIN runs[i].events : runs[i].events[k] = e

NewRun(session) ==
  [session |-> session, status |-> "QUEUED", slot |-> TRUE, events |-> <<>>]

GoTo(d, label) == request' = [request EXCEPT ![d].pc = label]
Resolved(d, i) == request' = [request EXCEPT ![d].pc = "seen", ![d].run = i]

\* The next event of the batch, or 202 with a result for each.
NextEvent(d) ==
  LET here == request[d]
  IN IF here.at = Len(here.batch) THEN GoTo(d, "accepted")
     ELSE request' = [request EXCEPT ![d] = [pc |-> "find", batch |-> here.batch,
                                             at |-> here.at + 1, run |-> 0]]

-----------------------------------------------------------------------------
(* A request *)

Deliver(d) ==
  /\ request[d].pc = "idle"
  /\ \E batch \in Batches :
       request' = [request EXCEPT ![d] = [pc |-> "find", batch |-> batch, at |-> 1, run |-> 0]]
  /\ UNCHANGED runs

\* The latest run of the event's session, if there is one.
FindRun(d) ==
  /\ request[d].pc = "find"
  /\ LET found == RunsOf(SessionOf[Event(d)])
     IN \/ found = {} /\ GoTo(d, "look")
        \/ \E i \in found : (\A j \in found : j <= i) /\ Resolved(d, i)
  /\ UNCHANGED runs

\* Another run is active: RUN_ALREADY_ACTIVE.
LookForActive(d) ==
  /\ request[d].pc = "look"
  /\ GoTo(d, IF Active = {} THEN "create" ELSE "failed")
  /\ UNCHANGED runs

\* Faulty variant: the row does not take the task's slot.
CreateRunUnguarded(d) ==
  /\ request[d].pc = "create"
  /\ runs' = Append(runs, [NewRun(SessionOf[Event(d)]) EXCEPT !.slot = FALSE])
  /\ Resolved(d, Len(runs) + 1)

\* The new row takes the task's slot, or the unique key refuses it and the
\* request fails.
CreateRun(d) ==
  /\ request[d].pc = "create"
  /\ IF Holders # {} THEN GoTo(d, "failed") /\ UNCHANGED runs
     ELSE /\ runs' = Append(runs, NewRun(SessionOf[Event(d)]))
          /\ Resolved(d, Len(runs) + 1)

\* The fast path for a redelivery.
LookForEvent(d) ==
  /\ request[d].pc = "seen"
  /\ IF Recorded(request[d].run, Event(d)) THEN NextEvent(d) ELSE GoTo(d, "append")
  /\ UNCHANGED runs

\* Faulty variant: the status of the run is not looked at.
ReportedAnyway(run, e) ==
  IF ReportedBy[e] = NoStatus THEN run
  ELSE [run EXCEPT !.status = ReportedBy[e],
                   !.slot = run.slot /\ ReportedBy[e] \notin TerminalStatuses]

\* Faulty variant: an event without a status clears the run's.
ReportedBlank(run, e) ==
  IF run.status \in TerminalStatuses THEN run
  ELSE [run EXCEPT !.status = ReportedBy[e],
                   !.slot = run.slot /\ ReportedBy[e] \notin TerminalStatuses]

\* A status is not reported over a terminal one; a terminal one frees the slot.
Reported(run, e) ==
  IF ReportedBy[e] = NoStatus \/ run.status \in TerminalStatuses THEN run
  ELSE [run EXCEPT !.status = ReportedBy[e],
                   !.slot = run.slot /\ ReportedBy[e] \notin TerminalStatuses]

\* Faulty variant: any unique violation counts as a redelivery, also that of a
\* sequence number another event took.
AppendEventOnce(d) ==
  /\ request[d].pc = "append"
  /\ \/ runs[request[d].run].events # <<>> /\ UNCHANGED runs
     \/ LET i == request[d].run
        IN runs' = [runs EXCEPT ![i] = [Reported(runs[i], Event(d)) EXCEPT
                                          !.events = Append(runs[i].events, Event(d))]]
  /\ NextEvent(d)

\* The transaction: the next sequence number, and the status reported; or the
\* event's id is taken by now, and it counts as a redelivery.
AppendEvent(d) ==
  /\ request[d].pc = "append"
  /\ LET i == request[d].run
     IN IF Recorded(i, Event(d)) THEN UNCHANGED runs
        ELSE runs' = [runs EXCEPT ![i] = [Reported(runs[i], Event(d)) EXCEPT
                                            !.events = Append(runs[i].events, Event(d))]]
  /\ NextEvent(d)

\* The server stops, a query throws, or five sequence numbers were taken: the
\* adapter gets no answer or an error, and what was recorded stays.
Fail(d) ==
  /\ request[d].pc \in {"find", "look", "create", "seen", "append"}
  /\ GoTo(d, "failed")
  /\ UNCHANGED runs

-----------------------------------------------------------------------------
(* Members and the built-in runtime *)

\* createAgentRun: the check for an active run and the row are one transaction,
\* and the same unique key decides.
StartMemberRun ==
  /\ Cardinality(RunsOf(Member)) < MaxMemberRuns
  /\ Active = {} /\ Holders = {}
  /\ runs' = Append(runs, NewRun(Member))
  /\ UNCHANGED request

\* The runtime's update_run_status with a terminal status.
FinishMemberRun(i) ==
  /\ i \in Active \cap RunsOf(Member)
  /\ \E status \in {"SUCCEEDED", "FAILED", "CANCELLED"} :
       runs' = [runs EXCEPT ![i] = [@ EXCEPT !.status = status, !.slot = FALSE]]
  /\ UNCHANGED request

RequestStep(d) ==
  \/ FindRun(d) \/ LookForActive(d) \/ CreateRun(d) \/ LookForEvent(d) \/ AppendEvent(d)

Next ==
  \/ \E d \in Deliveries : Deliver(d) \/ RequestStep(d) \/ Fail(d)
  \/ StartMemberRun
  \/ \E i \in DOMAIN runs : FinishMemberRun(i)

Spec == Init /\ [][Next]_vars

-----------------------------------------------------------------------------
(* Properties *)

\* However many first events, redeliveries and members race, the task has one
\* active run at most (docs/agent-event-contract.md:87-89).
OneActiveRun == Cardinality(Active) <= 1

\* A late or repeated report never brings a closed run back, nor does it
\* replace its outcome (ingest.ts:222-223).
ClosedStaysClosed ==
  [][\A i \in DOMAIN runs :
       runs[i].status \in TerminalStatuses => runs'[i].status = runs[i].status]_vars

\* A batch that was accepted is on record in full, in runs of the sessions its
\* events belong to, although other requests raced for the same numbers.
AcceptedIsRecorded ==
  \A d \in Deliveries : request[d].pc = "accepted" =>
    \A k \in DOMAIN request[d].batch :
      \E i \in RunsOf(SessionOf[request[d].batch[k]]) : Recorded(i, request[d].batch[k])
=============================================================================
