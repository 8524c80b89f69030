--------------------------- MODULE MCEventStream ---------------------------
(***************************************************************************)
(* Instances of EventStream and RunPanel for TLC: the two ways a page      *)
(* follows a run.  They share no variable, so `follows` names the one that *)
(* moves; the fairness of the timeline says nothing of the panel's part.   *)
(***************************************************************************)
EXTENDS EventStream, RunPanel

VARIABLE follows

MCStatuses == {"RUNNING", "AWAITING_APPROVAL", "SUCCEEDED"}
MCTerminal == {"SUCCEEDED"}

MCInit ==
  /\ follows \in {"timeline", "panel"}
  /\ Init /\ PanelInit
  /\ follows = "timeline" => ~realtime
  /\ follows = "panel" => status = "RUNNING"

\* PanelConverges says nothing of what follows a crossing or a loss.
PanelGoesOn == PanelNext /\ ~crossed /\ ~missed

MCNext ==
  /\ UNCHANGED follows
  /\ \/ follows = "timeline" /\ Next /\ UNCHANGED panelVars
     \/ follows = "panel" /\ PanelGoesOn /\ UNCHANGED vars

MCSpec ==
  /\ MCInit /\ [][MCNext]_<<follows, vars, panelVars>>
  /\ WF_vars(PageStep) /\ WF_vars(Deliver) /\ WF_vars(Serve)

\* Departure: a source reconnects on its own, so an event recorded while the
\* page is open always arrives (route.ts:23-24).  A refused one never does.
ReconnectsOnItsOwn ==
  \A n \in 1 .. MaxEvents :
    recorded >= n ~>
      \/ Len(page.shown) >= n
      \/ page.phase = "live" /\ ~source.open /\ status \in TerminalStatuses
=============================================================================
