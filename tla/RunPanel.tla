------------------------------ MODULE RunPanel ------------------------------
(***************************************************************************)
(* The panel of a task's agent run in one browser                          *)
(* (components/dev-room/agent-run-panel.tsx).  It polls while the run it   *)
(* shows is active, refetches when a broadcast names that run, at most     *)
(* once a window, and starts, reviews and decides.  A refetch asks for the *)
(* run and for what it recorded in separate requests, and the answers of   *)
(* two refetches may cross.                                                *)
(***************************************************************************)
EXTENDS Naturals, Sequences, SequencesExt

CONSTANTS
    NTaskRuns,      \* bound: runs of the task, numbered as they are created
    MaxWritten,     \* bound: what a run records (artifacts, events, interventions)
    MaxFetches,     \* bound: refetches under way
    Realtimes       \* whether the room is connected to Liveblocks

ASSUME PanelBounds ==
    /\ {NTaskRuns, MaxWritten, MaxFetches} \subseteq Nat
    /\ Realtimes \subseteq BOOLEAN

VARIABLES
    realtime,
    created,    \* the newest run of the task, 0 before the first
    state,      \* AgentRun.status: active ones, one that waits for a person, finished
    written,    \* how much each run has recorded
    signals,    \* RUN_UPDATED broadcasts under way
    view,       \* the component: run, its status, what is listed of it
    requests,   \* requests under way, the oldest first
    starting,   \* the server has made a run that the panel asked for, and not yet answered
    window,     \* the coalescing window is running
    trailing,   \* ... and a call is due at its end
    crossed,    \* history: an answer overtook that of an earlier request
    missed      \* history: an answer was lost

panelVars == <<realtime, created, state, written, signals, view, requests, starting, window,
               trailing, crossed, missed>>

TaskRuns == 1 .. NTaskRuns
States == {"active", "waiting", "finished"}

NoView == [run |-> 0, status |-> "none", listed |-> 0]
Unread == "unread"
NotListed == MaxWritten + 1

\* What: the task's latest run, asked for by the page ("first") or by a refetch
\* ("latest"); a "run" with what it recorded; or a "decision", which answers with
\* the run's row.
Request(what, of) ==
    [what |-> what, of |-> of, status |-> Unread,
     listed |-> IF what = "run" THEN NotListed ELSE 0]

PanelInit ==
    /\ realtime \in Realtimes
    /\ created = 0
    /\ state = [r \in TaskRuns |-> "active"]
    /\ written = [r \in TaskRuns |-> 0]
    /\ signals = {}
    /\ view = NoView
    /\ requests = <<Request("first", 0)>>
    /\ starting = FALSE
    /\ window = FALSE
    /\ trailing = FALSE
    /\ crossed = FALSE
    /\ missed = FALSE

-----------------------------------------------------------------------------
(* The run goes on, and the room is told after each write; a broadcast that *)
(* is lost leaves the panel as one without Liveblocks.                      *)

Announce(r) == signals' = IF realtime THEN signals \cup {r} ELSE {}

RecordMore(r) ==
    /\ r <= created /\ state[r] # "finished" /\ written[r] < MaxWritten
    /\ written' = [written EXCEPT ![r] = written[r] + 1]
    /\ Announce(r)
    /\ UNCHANGED <<realtime, created, state, view, requests, starting, window, trailing,
                   crossed, missed>>

ChangeState(r) ==
    /\ r <= created /\ state[r] # "finished"
    /\ \E s \in States \ {state[r]} : state' = [state EXCEPT ![r] = s]
    /\ Announce(r)
    /\ UNCHANGED <<realtime, created, written, view, requests, starting, window, trailing,
                   crossed, missed>>

\* A task has one active run; the next is created when the last has finished.
MayCreate == created < NTaskRuns /\ \A r \in 1 .. created : state[r] = "finished"

TeammateStarts ==
    /\ MayCreate
    /\ created' = created + 1
    /\ Announce(created + 1)
    /\ UNCHANGED <<realtime, state, written, view, requests, starting, window, trailing,
                   crossed, missed>>

-----------------------------------------------------------------------------
(* Requests and their answers *)

\* refetch, of the run that is shown by then.
RefetchRun == Append(requests, Request(IF view.run = 0 THEN "latest" ELSE "run", view.run))

\* The server reads the run's row, and in other requests what it recorded.
ReadRow(i) ==
    /\ requests[i].status = Unread
    /\ LET r == IF requests[i].of = 0 THEN created ELSE requests[i].of
       IN requests' = [requests EXCEPT ![i] = [requests[i] EXCEPT
                      !.of = r, !.status = IF r = 0 THEN "none" ELSE state[r]]]
    /\ UNCHANGED <<realtime, created, state, written, signals, view, starting, window, trailing,
                   crossed, missed>>

ReadRecorded(i) ==
    /\ requests[i].listed = NotListed
    /\ requests' = [requests EXCEPT ![i] = [requests[i] EXCEPT !.listed = written[requests[i].of]]]
    /\ UNCHANGED <<realtime, created, state, written, signals, view, starting, window, trailing,
                   crossed, missed>>

\* setRun: another run than the one shown clears nothing, but its effect refetches.
Show(run, status, listed, rest) ==
    /\ view' = [run |-> run, status |-> status, listed |-> listed]
    /\ requests' = IF run # view.run THEN Append(rest, Request("run", run)) ELSE rest

\* No run yet: what is shown stays as it is, unless it is the page that asked.
Blank(a) == view' = IF a.what = "first" THEN [view EXCEPT !.run = 0, !.status = "none"] ELSE view

\* An answered decision or control refetches the run it was about.
Answer(i) ==
    /\ requests[i].status # Unread /\ requests[i].listed # NotListed
    /\ LET a == requests[i]
           rest == IF a.what \in {"decision", "control"}
                   THEN Append(RemoveAt(requests, i), Request("run", a.of))
                   ELSE RemoveAt(requests, i)
       IN /\ CASE a.what = "control" -> requests' = rest /\ UNCHANGED view
               [] a.what # "control" /\ a.of = 0 -> requests' = rest /\ Blank(a)
               [] OTHER ->
                    Show(a.of, a.status, IF a.what = "run" THEN a.listed ELSE view.listed, rest)
          /\ crossed' = (crossed \/ i > 1)
    /\ UNCHANGED <<realtime, created, state, written, signals, starting, window, trailing, missed>>

\* "transient": what is shown stays as it is.
LoseAnswer(i) ==
    /\ requests' = RemoveAt(requests, i)
    /\ missed' = TRUE
    /\ UNCHANGED <<realtime, created, state, written, signals, view, starting, window, trailing,
                   crossed>>

-----------------------------------------------------------------------------
(* What makes the panel ask *)

\* The interval runs while the run that is shown is active.
PollRun ==
    /\ view.run # 0 /\ view.status = "active" /\ Len(requests) < MaxFetches
    /\ requests' = RefetchRun
    /\ UNCHANGED <<realtime, created, state, written, signals, view, starting, window, trailing,
                   crossed, missed>>

\* Faulty variant: a call within the window is dropped.
HearLeadingOnly(r) ==
    /\ r \in signals
    /\ signals' = signals \ {r}
    /\ IF view.run \notin {0, r} \/ window THEN UNCHANGED <<requests, window>>
       ELSE Len(requests) < MaxFetches /\ requests' = RefetchRun /\ window' = TRUE
    /\ UNCHANGED <<realtime, created, state, written, view, starting, trailing, crossed, missed>>

\* RunRealtime, through useCoalescedCallback: at once, or at the end of the window.
HearRunUpdated(r) ==
    /\ r \in signals
    /\ signals' = signals \ {r}
    /\ IF view.run \notin {0, r} THEN UNCHANGED <<requests, window, trailing>>
       ELSE IF window THEN trailing' = TRUE /\ UNCHANGED <<requests, window>>
       ELSE /\ Len(requests) < MaxFetches
            /\ requests' = RefetchRun /\ window' = TRUE /\ UNCHANGED trailing
    /\ UNCHANGED <<realtime, created, state, written, view, starting, crossed, missed>>

\* The window ends; the call at its end opens the next one.
WindowEnds ==
    /\ window
    /\ IF trailing THEN Len(requests) < MaxFetches /\ requests' = RefetchRun /\ UNCHANGED window
       ELSE window' = FALSE /\ UNCHANGED requests
    /\ trailing' = FALSE
    /\ UNCHANGED <<realtime, created, state, written, signals, view, starting, crossed, missed>>

\* startRun and requestReview: the buttons are off while one is under way or the
\* run shown is active.  The server may refuse, which changes nothing.
CreateTaskRun ==
    /\ ~starting /\ view.status # "active" /\ MayCreate
    /\ starting' = TRUE
    /\ created' = created + 1 /\ Announce(created + 1)
    /\ UNCHANGED <<realtime, state, written, view, requests, window, trailing, crossed,
                   missed>>

\* The answer: the new run is shown, with nothing listed; or the error of a
\* runtime that did not take it.
RunStarted ==
    /\ starting
    /\ starting' = FALSE
    /\ Show(created, "active", 0, requests) \/ UNCHANGED <<view, requests>>
    /\ UNCHANGED <<realtime, created, state, written, signals, window, trailing, crossed, missed>>

\* decide: what the server does with it is a change of state like any other.
Decide ==
    /\ view.status = "active" /\ Len(requests) < MaxFetches
    /\ requests' = Append(requests, Request("decision", view.run))
    /\ UNCHANGED <<realtime, created, state, written, signals, view, starting, window, trailing,
                   crossed, missed>>

\* RunControls: offered for an active run.
Control ==
    /\ view.status = "active" /\ Len(requests) < MaxFetches
    /\ requests' = Append(requests, Request("control", view.run))
    /\ UNCHANGED <<realtime, created, state, written, signals, view, starting, window, trailing,
                   crossed, missed>>

PanelNext ==
    \/ \E r \in TaskRuns : RecordMore(r) \/ ChangeState(r) \/ HearRunUpdated(r)
    \/ TeammateStarts
    \/ \E i \in DOMAIN requests : ReadRow(i) \/ ReadRecorded(i) \/ Answer(i) \/ LoseAnswer(i)
    \/ PollRun \/ Decide \/ Control \/ WindowEnds \/ CreateTaskRun \/ RunStarted

PanelSpec == PanelInit /\ [][PanelNext]_panelVars

-----------------------------------------------------------------------------
PanelTypeOK ==
    /\ created \in 0 .. NTaskRuns /\ signals \subseteq TaskRuns
    /\ state \in [TaskRuns -> States]
    /\ written \in [TaskRuns -> 0 .. MaxWritten]
    /\ view.run \in 0 .. NTaskRuns /\ view.status \in States \cup {"none"}
    /\ view.listed \in 0 .. MaxWritten

PanelAtRest ==
    /\ requests = <<>> /\ signals = {} /\ ~trailing /\ ~starting
    /\ view.run # 0 /\ view.status # "active"

\* A panel that stops asking shows the run as it is: a burst of broadcasts, a
\* start under way and a poll leave nothing stale behind, unless answers crossed
\* or one was lost.  Without broadcasts that holds of a finished run's status.
PanelConverges ==
    PanelAtRest /\ ~crossed /\ ~missed =>
        /\ realtime \/ view.status = "finished" => view.status = state[view.run]
        /\ realtime => view.listed = written[view.run]
=============================================================================
