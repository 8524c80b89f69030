---------------------------- MODULE EventStream ----------------------------
(***************************************************************************)
(* The live timeline of one run: the page that was rendered on the server  *)
(* (src/app/(control-room)/runs/[runId]/page.tsx), the component that      *)
(* keeps it up to date (src/components/agentguard/run-timeline.tsx) and    *)
(* the Server-Sent Events handler it listens to                            *)
(* (src/app/api/runs/[runId]/events/stream/route.ts).  The run itself is   *)
(* the environment: it records events, changes its status, and finishes.   *)
(*                                                                         *)
(* An event is its sequence, so the log is how many there are.  The        *)
(* browser's EventSource delivers frames in order, reconnects by itself    *)
(* with the id of the last event it delivered, and keeps what was sent     *)
(* before the connection ended well, but not what was under way when it    *)
(* broke.  An answer that is an error ends it: it does not try again.      *)
(***************************************************************************)
EXTENDS Integers, Sequences, SequencesExt

CONSTANTS
  Statuses,         \* the run's statuses
  TerminalStatuses, \* those nothing follows
  NoStatus,         \* what a page shows before it is loaded
  Take,             \* events per poll: 100
  MaxEvents,        \* bound: events the run records
  MaxVersions,      \* bound: status changes of the run
  MaxBreaks         \* bound: connections that break or reach MAX_STREAM_MS

ASSUME StatusAssumption ==
  /\ TerminalStatuses \subseteq Statuses
  /\ NoStatus \notin Statuses
  /\ Statuses \ TerminalStatuses # {}
ASSUME BoundAssumption ==
  Take \in Nat \ {0} /\ {MaxEvents, MaxVersions, MaxBreaks} \subseteq Nat

VARIABLES
  status,   \* AgentRun.status
  version,  \* AgentRun.runVersion, incremented with every status change
  recorded, \* how many RunEvent rows the run has
  final,    \* how many it had when it finished; history
  page,     \* the component's state
  source,   \* the browser's EventSource
  server,   \* the locals of the handler that serves it
  frames,   \* frames sent and not delivered yet
  breaks    \* connections ended without "done"

runVars == <<status, version, recorded, final>>
vars == <<runVars, page, source, server, frames, breaks>>

\* phase: rendered by the server, listening, rendered again and about to run
\* the effect.  seen is the status the last effect ran with, after the last
\* sequence of the render it belongs to.
Page == [phase : {"blank", "loading", "live", "effect"}, shown : Seq(Nat),
         status : Statuses \cup {NoStatus}, seen : Statuses \cup {NoStatus},
         after : Nat]

\* after is in the URL, lastId the id of the last event delivered, 0 if none.
\* refused: the browser gave it up, having been answered with an error.
Source == [open : BOOLEAN, after : Nat, lastId : Nat, done : BOOLEAN, refused : BOOLEAN]

Server == [at : {"ended", "poll", "status", "drain"}, cursor : Nat,
           lastVersion : Nat]

Frame ==
  [kind : {"run-event"}, value : Nat] \cup [kind : {"run-status"}, value : Statuses]
    \cup {[kind |-> "done"]}

TypeOK ==
  /\ status \in Statuses
  /\ version \in 0 .. MaxVersions
  /\ recorded \in 0 .. MaxEvents
  /\ final \in 0 .. recorded
  /\ page \in Page
  /\ source \in Source
  /\ server \in Server /\ server.cursor <= recorded
  /\ frames \in Seq(Frame)
  /\ breaks \in 0 .. MaxBreaks

Init ==
  /\ status \in Statuses \ TerminalStatuses
  /\ version = 0
  /\ recorded = 0
  /\ final = 0
  /\ page = [phase |-> "blank", shown |-> <<>>, status |-> NoStatus,
             seen |-> NoStatus, after |-> 0]
  /\ source = [open |-> FALSE, after |-> 0, lastId |-> 0, done |-> FALSE, refused |-> FALSE]
  /\ server = [at |-> "ended", cursor |-> 0, lastVersion |-> version]
  /\ frames = <<>>
  /\ breaks = 0

-----------------------------------------------------------------------------
(* The run *)

\* An event is recorded; finishRun records some after the terminal status.
Record ==
  /\ recorded < MaxEvents
  /\ recorded' = recorded + 1
  /\ UNCHANGED <<status, version, final, page, source, server, frames, breaks>>

\* A hand-over changes the version alone.
ChangeStatus ==
  /\ status \notin TerminalStatuses
  /\ version < MaxVersions
  /\ status' \in Statuses
  /\ version' = version + 1
  /\ final' = IF status' \in TerminalStatuses THEN recorded ELSE final
  /\ UNCHANGED <<recorded, page, source, server, frames, breaks>>

-----------------------------------------------------------------------------
(* The page *)

LastShown == IF page.shown = <<>> THEN 0 ELSE Last(page.shown)
UpTo(n) == [i \in 1 .. n |-> i]
Between(a, b) == [i \in 1 .. b - a |-> a + i]

\* page.tsx reads the run, then its events.
LoadRun ==
  /\ page.phase = "blank"
  /\ page' = [page EXCEPT !.phase = "loading", !.status = status]
  /\ UNCHANGED <<runVars, source, server, frames, breaks>>

LoadEvents ==
  /\ page.phase = "loading"
  /\ page' = [page EXCEPT !.phase = "effect", !.shown = UpTo(recorded), !.after = recorded]
  /\ UNCHANGED <<runVars, source, server, frames, breaks>>

\* setStatus with another status renders the component again, with the events
\* of that moment; the effect runs after the paint.
Render ==
  /\ page.phase = "live"
  /\ page.status # page.seen
  /\ page' = [page EXCEPT !.phase = "effect", !.after = LastShown]
  /\ UNCHANGED <<runVars, source, server, frames, breaks>>

\* The effect: close the old source, and open one behind the events of its
\* render unless the run is finished.  The old handler notices the abort.
Effect ==
  /\ page.phase = "effect"
  /\ page' = [page EXCEPT !.phase = "live", !.seen = page.status]
  /\ source' = [open |-> page.status \notin TerminalStatuses, after |-> page.after,
                lastId |-> 0, done |-> FALSE, refused |-> FALSE]
  /\ server' = [server EXCEPT !.at = "ended"]
  /\ frames' = <<>>
  /\ UNCHANGED <<runVars, breaks>>

\* Faulty variant: what the page holds already is appended again.
DeliverEventTwice ==
  /\ source.open /\ frames # <<>> /\ Head(frames).kind = "run-event"
  /\ LET sequence == Head(frames).value
     IN /\ page' = [page EXCEPT !.shown = Append(@, sequence)]
        /\ source' = [source EXCEPT !.lastId = sequence]
  /\ frames' = Tail(frames)
  /\ UNCHANGED <<runVars, server, breaks>>

\* A "run-event" frame: appended unless the page holds the event already.
DeliverEvent ==
  /\ source.open /\ frames # <<>> /\ Head(frames).kind = "run-event"
  /\ LET sequence == Head(frames).value
     IN /\ page' = IF Contains(page.shown, sequence) THEN page
                   ELSE [page EXCEPT !.shown = Append(@, sequence)]
        /\ source' = [source EXCEPT !.lastId = sequence]
  /\ frames' = Tail(frames)
  /\ UNCHANGED <<runVars, server, breaks>>

DeliverStatus ==
  /\ source.open /\ frames # <<>> /\ Head(frames).kind = "run-status"
  /\ page' = [page EXCEPT !.status = Head(frames).value]
  /\ frames' = Tail(frames)
  /\ UNCHANGED <<runVars, source, server, breaks>>

DeliverDone ==
  /\ source.open /\ frames # <<>> /\ Head(frames).kind = "done"
  /\ source' = [source EXCEPT !.open = FALSE, !.done = TRUE]
  /\ frames' = Tail(frames)
  /\ UNCHANGED <<runVars, page, server, breaks>>

-----------------------------------------------------------------------------
(* The handler *)

\* Faulty variant: the source is given up when its connection ends.
ConnectOnce ==
  /\ source.open /\ server.at = "ended" /\ frames = <<>> /\ breaks = 0
  /\ server' = [at |-> "poll", lastVersion |-> version,
                cursor |-> IF source.lastId # 0 THEN source.lastId ELSE source.after]
  /\ UNCHANGED <<runVars, page, source, frames, breaks>>

\* GET: Last-Event-ID before the URL's after; the version of this moment is the
\* one later polls compare with.
Connect ==
  /\ source.open /\ server.at = "ended" /\ frames = <<>>
  /\ server' = [at |-> "poll", lastVersion |-> version,
                cursor |-> IF source.lastId # 0 THEN source.lastId ELSE source.after]
  /\ UNCHANGED <<runVars, page, source, frames, breaks>>

\* The handler's catch: a session that ended, a member removed or a query that
\* failed is answered with an error, and the component only shows that it is
\* not connected.  Nothing but an effect opens a source again.
Refuse ==
  /\ source.open /\ server.at = "ended" /\ frames = <<>>
  /\ source' = [source EXCEPT !.open = FALSE, !.refused = TRUE]
  /\ UNCHANGED <<runVars, page, server, frames, breaks>>

EventFrames(sequences) ==
  [i \in DOMAIN sequences |-> [kind |-> "run-event", value |-> sequences[i]]]

\* The first query of a turn: at most Take events behind the cursor.
Poll ==
  /\ server.at = "poll"
  /\ LET upTo == Min({recorded, server.cursor + Take})
     IN /\ frames' = frames \o EventFrames(Between(server.cursor, upTo))
        /\ server' = [server EXCEPT !.at = "status", !.cursor = upTo]
  /\ UNCHANGED <<runVars, page, source, breaks>>

\* The second: tell the page the status when it is not the one last told.
CheckStatus ==
  /\ server.at = "status"
  /\ server' = [server EXCEPT !.lastVersion = version,
                  !.at = IF status \in TerminalStatuses THEN "drain" ELSE "poll"]
  /\ frames' = IF version = server.lastVersion THEN frames
               ELSE Append(frames, [kind |-> "run-status", value |-> status])
  /\ UNCHANGED <<runVars, page, source, breaks>>

\* Faulty variant: a finished run's stream is closed without the last query.
CloseUndrained ==
  /\ server.at = "drain"
  /\ frames' = Append(frames, [kind |-> "done"])
  /\ server' = [server EXCEPT !.at = "ended"]
  /\ UNCHANGED <<runVars, page, source, breaks>>

\* The third, for a finished run: everything behind the cursor, and "done".
Drain ==
  /\ server.at = "drain"
  /\ frames' = Append(frames \o EventFrames(Between(server.cursor, recorded)),
                      [kind |-> "done"])
  /\ server' = [server EXCEPT !.at = "ended", !.cursor = recorded]
  /\ UNCHANGED <<runVars, page, source, breaks>>

\* The connection reaches MAX_STREAM_MS between two turns, or it breaks and
\* takes the frames under way with it.
Expire ==
  /\ breaks < MaxBreaks
  /\ server.at = "poll"
  /\ server' = [server EXCEPT !.at = "ended"]
  /\ breaks' = breaks + 1
  /\ UNCHANGED <<runVars, page, source, frames>>

Break ==
  /\ breaks < MaxBreaks
  /\ source.open
  /\ server.at # "ended" \/ frames # <<>>
  /\ server' = [server EXCEPT !.at = "ended"]
  /\ frames' = <<>>
  /\ breaks' = breaks + 1
  /\ UNCHANGED <<runVars, page, source>>

Deliver == DeliverEvent \/ DeliverStatus \/ DeliverDone
Serve == Connect \/ Poll \/ CheckStatus \/ Drain
PageStep == LoadRun \/ LoadEvents \/ Render \/ Effect

Next ==
  \/ Record \/ ChangeStatus
  \/ PageStep \/ Deliver
  \/ Serve \/ Refuse \/ Expire \/ Break

Spec == Init /\ [][Next]_vars

\* A page that was asked for renders, the browser delivers what arrived and
\* reconnects, and the handler's loop goes on.  The run owes nothing, and a
\* connection may always be refused instead.
FairSpec == Spec /\ WF_vars(PageStep) /\ WF_vars(Deliver) /\ WF_vars(Serve)

-----------------------------------------------------------------------------
(* Properties *)

\* Reconnections, re-opened sources and replays never leave a gap, repeat an
\* event or swap two: what the page shows is always a prefix of the log
\* (route.ts:18-21, "resumes rather than replaying (and never drops events in
\* the gap").
ShownInOrder == page.shown = UpTo(Len(page.shown)) /\ Len(page.shown) <= recorded

\* A page that listened until "done" shows every event recorded before the run
\* finished, the ones between the handler's two queries included.
DoneIsComplete ==
  source.done => Len(page.shown) >= final

\* The page listens no more: its source was refused, and no status it has yet
\* to render will open another.
GaveUp == page.phase = "live" /\ source.refused /\ page.status = page.seen

\* An event recorded while the page is open is shown in the end, unless the
\* page has stopped listening because the run is finished or because one of
\* its connections was refused.
EventsArrive ==
  \A n \in 1 .. MaxEvents :
    recorded >= n ~>
      \/ Len(page.shown) >= n
      \/ page.phase = "live" /\ ~source.open /\ status \in TerminalStatuses
      \/ GaveUp

\* route.ts:142-143, "so a terminal run never loses its last events": a page
\* that stopped listening to a finished run shows what was recorded before it
\* finished.
LastEventsAreShown ==
  page.phase = "live" /\ page.seen \in TerminalStatuses => Len(page.shown) >= final
=============================================================================
