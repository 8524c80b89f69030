------------------------------- MODULE Adapter -------------------------------
(***************************************************************************)
(* What an external agent reports: the contract's event types and statuses *)
(* (contracts/agent-events.ts), what ingestion makes of them               *)
(* (lib/agent/ingest.ts), and how the Claude Code adapter gets from a hook *)
(* to an event (adapters/claude-code).  Operators only; MCIngest takes the *)
(* events that Ingest is checked with from them.  The words of a prompt, a *)
(* command or a path are left out: a hook says whether it has them.        *)
(***************************************************************************)
EXTENDS Naturals, FiniteSets

\* EVENT_TYPE_MAP: what a reported event is on the timeline.
RecordedAs ==
    [agent_started |-> "AGENT_STARTED", agent_progress |-> "AGENT_PROGRESS",
     plan_created |-> "PLAN_CREATED", file_touched |-> "FILE_PATCHED",
     command_executed |-> "COMMAND_EXECUTED", test_started |-> "TESTS_STARTED",
     test_completed |-> "TESTS_FINISHED", error_detected |-> "ERROR_DETECTED",
     decision_recorded |-> "DECISION_RECORDED", instruction_added |-> "REDIRECT_REQUESTED",
     handoff_requested |-> "HANDOFF_REQUESTED", risk_flagged |-> "RISK_FLAGGED",
     pr_linked |-> "PR_LINKED", pr_updated |-> "PR_UPDATED", review_ready |-> "REVIEW_READY",
     status_changed |-> "AGENT_PROGRESS", merged |-> "RUN_MERGED", failed |-> "RUN_FAILED",
     cancelled |-> "RUN_CANCELLED"]
EventTypes == DOMAIN RecordedAs

\* STATUS_MAP: the statuses an adapter may name.
NamedStatus ==
    [running |-> "RUNNING", waiting_for_input |-> "WAITING_FOR_INPUT", blocked |-> "BLOCKED",
     review_ready |-> "REVIEW_READY", merged |-> "MERGED", abandoned |-> "ABANDONED",
     failed |-> "FAILED"]

\* IMPLIED_STATUS
ImpliedStatus ==
    [agent_started |-> "RUNNING", review_ready |-> "REVIEW_READY", merged |-> "MERGED",
     failed |-> "FAILED", cancelled |-> "CANCELLED"]

\* An event of the contract: `to` is the set of statuses its payload names, one or none.
Report(type, to) == [type |-> type, to |-> to]
Reports == [type : EventTypes, to : {{}} \cup {{name} : name \in DOMAIN NamedStatus}]

\* The status a run takes on by an event, if any.
NextStatus(event) ==
    IF event.type = "status_changed" /\ event.to # {}
    THEN {NamedStatus[name] : name \in event.to}
    ELSE {ImpliedStatus[type] : type \in {event.type} \cap DOMAIN ImpliedStatus}

-----------------------------------------------------------------------------
(* mapHookEvent *)

Editing == {"Edit", "Write", "NotebookEdit", "MultiEdit"}
Named == {"SessionStart", "UserPromptSubmit", "PostToolUse", "Notification", "Stop",
          "SessionEnd"}

\* session: it has a session_id; text: a prompt that is not blank; files: paths it
\* touched below or outside the working directory, the directory itself is none;
\* command: what is left of it when redacted.
Hooks ==
    [name : Named \cup {"another"}, session : BOOLEAN, text : BOOLEAN,
     tool : Editing \cup {"Bash", "Read"}, files : 0 .. 1, command : {"none", "test", "plain"}]

When(condition, event) == IF condition THEN {event} ELSE {}

\* One event or none: reads and searches are not reported, a file or a command
\* without content neither.
MapHookEvent(hook) ==
    LET Is(name) == hook.session /\ hook.name = name
        Used(tools) == Is("PostToolUse") /\ hook.tool \in tools
    IN When(Is("SessionStart"), Report("agent_started", {}))
       \cup When(Is("UserPromptSubmit") /\ hook.text, Report("instruction_added", {}))
       \cup When(Used(Editing) /\ hook.files > 0, Report("file_touched", {}))
       \cup When(Used({"Bash"}) /\ hook.command = "test", Report("test_completed", {}))
       \cup When(Used({"Bash"}) /\ hook.command = "plain", Report("command_executed", {}))
       \cup When(Is("Notification"), Report("status_changed", {"waiting_for_input"}))
       \cup When(Is("Stop") \/ Is("SessionEnd"), Report("agent_progress", {}))

\* devroom-hook.mjs: without its configuration, or on input that is not JSON, it is
\* silent; it posts an event once, and whatever becomes of that ends the hook with 0.
Published(configured, parsed, hook) == IF configured /\ parsed THEN MapHookEvent(hook) ELSE {}

-----------------------------------------------------------------------------
\* "An adapter may never claim SUCCEEDED or push a run past the approval gate"
\* (contracts/agent-events.ts:74-77), and of the hooks none ends a run: evaluated over
\* every report and every hook.
ASSUME NeverClaimsSuccess ==
    /\ \A event \in Reports : NextStatus(event) \cap {"SUCCEEDED", "AWAITING_APPROVAL", "QUEUED"} = {}
    /\ \A hook \in Hooks :
           /\ Cardinality(Published(TRUE, TRUE, hook)) <= 1
           /\ \A event \in Published(TRUE, TRUE, hook) :
                  NextStatus(event) \subseteq {"RUNNING", "WAITING_FOR_INPUT"}
=============================================================================
