------------------------------ MODULE MCIngest ------------------------------
(***************************************************************************)
(* Instances of Ingest and Signals for TLC.  Two sessions, one of which    *)
(* starts, reports progress and fails; and the alarms a room computes from *)
(* what its runs report.  They share no variable, so `about` names the one *)
(* that moves.  Requests are interchangeable.                              *)
(***************************************************************************)
EXTENDS Ingest, Signals, Adapter, TLC

VARIABLE about

\* Three hooks of a Claude Code session, the last word of another adapter about it,
\* and the first one of another session.
Hook(name) == [name |-> name, session |-> TRUE, text |-> TRUE, tool |-> "Edit", files |-> 1,
               command |-> "none"]
MCReports ==
  [started |-> Published(TRUE, TRUE, Hook("SessionStart")),
   progress |-> Published(TRUE, TRUE, Hook("PostToolUse")),
   waiting |-> Published(TRUE, TRUE, Hook("Notification")),
   failed |-> {Report("failed", {})},
   other |-> Published(TRUE, TRUE, Hook("SessionStart"))]
MCEvents == DOMAIN MCReports
MCSessionOf == [e \in MCEvents |-> IF e = "other" THEN "s2" ELSE "s1"]
MCReportedBy ==
  [e \in MCEvents |->
     LET statuses == UNION {NextStatus(report) : report \in MCReports[e]}
     IN IF statuses = {} THEN NoStatus ELSE CHOOSE status \in statuses : TRUE]
MCBatches == {<<"started", "progress">>, <<"started", "failed">>, <<"waiting">>, <<"other">>}
MCSymmetry == Permutations(Deliveries) \cup Permutations(Dismissers)

MCInit == about \in {"reports", "alarms"} /\ Init /\ SignalsInit

MCNext ==
  /\ UNCHANGED about
  /\ \/ about = "reports" /\ Next /\ UNCHANGED signalVars
     \/ about = "alarms" /\ SignalsNext /\ UNCHANGED vars

MCSpec == MCInit /\ [][MCNext]_<<about, vars, signalVars>>

-----------------------------------------------------------------------------
(* Departures: what a comment of the code says and the code does not do.  No
   run spends its time on it; README, section 7, says how to see it. *)

\* ingest.ts:172-175, "Idempotent: a redelivery returns the original event with
\* `duplicate: true` and writes nothing": no event is on record twice.
RecordedOnce ==
  \A i, j \in DOMAIN runs :
    \A k \in DOMAIN runs[i].events, m \in DOMAIN runs[j].events :
      runs[i].events[k] = runs[j].events[m] => i = j /\ k = m
=============================================================================
