------------------------------- MODULE Signals -------------------------------
(***************************************************************************)
(* Risk signals: computed from the room's active runs on every read, never *)
(* stored.  Stored is only what a member dismissed, under a key that the   *)
(* next computation must find again, and the decision on the run's         *)
(* timeline.  A page reads the runs, then their events, and the            *)
(* dismissals last, each as it then is.                                    *)
(***************************************************************************)
EXTENDS Naturals, FiniteSets

CONSTANTS
    NRuns,          \* runs of the room, in the order of their ids
    Paths,
    Critical,       \* paths under a critical prefix of the room's repository
    ScopeGrowth,    \* thresholds().scopeGrowthFiles
    Dismissers,     \* bound: dismissals being stored at once
    MaxDecisions,   \* bound: dismissals asked for
    MaxLog          \* bound: length of a run's log

RunIds == 1 .. NRuns

ASSUME BoundedSignals == {NRuns, ScopeGrowth, MaxDecisions, MaxLog} \subseteq Nat
ASSUME CriticalPaths == Critical \subseteq Paths

VARIABLES
    live,       \* runs in an active status
    touched,    \* the paths in the payloads of a run's events
    quiet,      \* runs without an event for longer than the threshold
    logged,     \* length of each run's log
    dismissals, \* RiskSignalDismissal: <<run, key>>
    decisions,  \* DECISION_RECORDED events: how many for each run and key
    storing,    \* each dismissal's progress
    attempts,      \* dismissals so far, for the bound
    rows,       \* the page's load: the active runs, before their events are read
    loading,    \* the page's load: the signals before the dismissals are read
    shown       \* the signals on the page

signalVars == <<live, touched, quiet, logged, dismissals, decisions, storing, attempts, rows, loading, shown>>

Spare == [at |-> "spare"]

\* A signal's identity: its kind and, for an overlap, the other run.
Keys == ({"overlapping_work"} \X RunIds)
            \cup ({"critical_path", "scope_growth", "stalled"} \X {0})

SignalsInit ==
    /\ live = RunIds
    /\ touched = [r \in RunIds |-> {}]
    /\ quiet = {}
    /\ logged = [r \in RunIds |-> 0]
    /\ dismissals = {}
    /\ decisions = [r \in RunIds |-> [k \in Keys |-> 0]]
    /\ storing = [d \in Dismissers |-> Spare]
    /\ attempts = 0
    /\ rows = {}
    /\ loading = {}
    /\ shown = {}

-----------------------------------------------------------------------------
(* computeRoomSignals.  The runs come from the database in any order. *)

Sharing(active) == {p \in active \X active : touched[p[1]] \cap touched[p[2]] # {}}
Overlap(p) == <<p[1], <<"overlapping_work", p[2]>>>>

\* Faulty variant: a pair of runs is reported from the one whose row comes first.
OverlapsByRow(active, first) ==
    {Overlap(p) : p \in {q \in Sharing(active) :
        q[1] # q[2] /\ (q[1] = first \/ (q[2] # first /\ q[1] < q[2]))}}

\* A pair of runs is reported from the one with the lower id, so whose row comes
\* first makes no difference.
Overlaps(active, first) == {Overlap(p) : p \in {q \in Sharing(active) : q[1] < q[2]}}

Alarms(active) ==
    {<<r, <<"critical_path", 0>>>> : r \in {x \in active : touched[x] \cap Critical # {}}}
    \cup {<<r, <<"scope_growth", 0>>>> :
             r \in {x \in active : Cardinality(touched[x]) > ScopeGrowth}}
    \cup {<<r, <<"stalled", 0>>>> : r \in active \cap quiet}

\* The first query; a room without active runs has no alarms.
ReadRuns ==
    /\ rows = {} /\ loading = {}
    /\ \/ live = {} /\ shown' = {} /\ UNCHANGED rows
       \/ live # {} /\ rows' = {live} /\ UNCHANGED shown
    /\ UNCHANGED <<live, touched, quiet, logged, dismissals, decisions, storing, attempts, loading>>

\* The events of those runs, some of which may have ended by now.
ReadEvents ==
    /\ \E active \in rows : \E first \in active :
          loading' = {Alarms(active) \cup Overlaps(active, first)}
    /\ rows' = {}
    /\ UNCHANGED <<live, touched, quiet, logged, dismissals, decisions, storing, attempts, shown>>

ReadDismissals ==
    /\ \E facts \in loading : shown' = facts \ dismissals
    /\ loading' = {}
    /\ UNCHANGED <<live, touched, quiet, logged, dismissals, decisions, storing, attempts, rows>>

-----------------------------------------------------------------------------
(* dismissSignal: the row and the decision in one transaction.  The number of
   the event is unique in the run, and whoever comes second rolls back. *)

Store(d, next) == storing' = [storing EXCEPT ![d] = next]

AskDismissal(d) ==
    /\ storing[d] = Spare /\ attempts < MaxDecisions
    /\ attempts' = attempts + 1
    /\ \E s \in shown : Store(d, [at |-> "upsert", run |-> s[1], key |-> s[2]])
    /\ UNCHANGED <<live, touched, quiet, logged, dismissals, decisions, rows, loading, shown>>

ReadLogEnd(d) ==
    /\ storing[d].at = "upsert"
    /\ Store(d, [at |-> "event", run |-> storing[d].run, key |-> storing[d].key,
                 last |-> logged[storing[d].run]])
    /\ UNCHANGED <<live, touched, quiet, logged, dismissals, decisions, attempts, rows, loading, shown>>

Dismiss(d) ==
    /\ storing[d].at = "event"
    /\ LET r == storing[d].run
       IN IF logged[r] # storing[d].last THEN UNCHANGED <<dismissals, decisions, logged, quiet>>
          ELSE /\ logged[r] < MaxLog
               /\ dismissals' = dismissals \cup {<<r, storing[d].key>>}
               /\ decisions' = [decisions EXCEPT ![r] = [decisions[r] EXCEPT
                                    ![storing[d].key] = decisions[r][storing[d].key] + 1]]
               /\ logged' = [logged EXCEPT ![r] = logged[r] + 1]
               /\ quiet' = quiet \ {r}
    /\ Store(d, Spare)
    /\ UNCHANGED <<live, touched, attempts, rows, loading, shown>>

-----------------------------------------------------------------------------
(* The runs go on: an event names a path, time passes, a run ends. *)

Touch(r, path) ==
    /\ r \in live /\ logged[r] < MaxLog
    /\ touched' = [touched EXCEPT ![r] = touched[r] \cup {path}]
    /\ logged' = [logged EXCEPT ![r] = logged[r] + 1]
    /\ quiet' = quiet \ {r}
    /\ UNCHANGED <<live, dismissals, decisions, storing, attempts, rows, loading, shown>>

FallQuiet(r) ==
    /\ r \in live \ quiet
    /\ quiet' = quiet \cup {r}
    /\ UNCHANGED <<live, touched, logged, dismissals, decisions, storing, attempts, rows, loading, shown>>

EndRun(r) ==
    /\ r \in live
    /\ live' = live \ {r}
    /\ UNCHANGED <<touched, quiet, logged, dismissals, decisions, storing, attempts, rows, loading, shown>>

SignalsNext ==
    \/ ReadRuns \/ ReadEvents \/ ReadDismissals
    \/ \E d \in Dismissers : AskDismissal(d) \/ ReadLogEnd(d) \/ Dismiss(d)
    \/ \E r \in RunIds : FallQuiet(r) \/ EndRun(r) \/ \E path \in Paths : Touch(r, path)

SignalsSpec == SignalsInit /\ [][SignalsNext]_signalVars

-----------------------------------------------------------------------------
SignalsTypeOK ==
    /\ live \subseteq RunIds /\ quiet \subseteq RunIds
    /\ touched \in [RunIds -> SUBSET Paths]
    /\ dismissals \subseteq RunIds \X Keys
    /\ shown \subseteq RunIds \X Keys
    /\ \A d \in Dismissers : storing[d] = Spare \/ storing[d].key \in Keys

About(s, r, o) == s[2][1] = "overlapping_work" /\ {s[1], s[2][2]} = {r, o}

\* "Deterministic identity, so a dismissal survives recomputation": a page that
\* loads after two runs' overlap was dismissed says nothing of it again, from
\* neither run, in whatever order the rows come (computeRoomSignals).
DismissalSurvives ==
    \A r, o \in RunIds :
        (\E d \in dismissals : About(d, r, o)) /\ loading # {} /\ loading' = {}
            => ~\E s \in shown' : About(s, r, o)

\* What is dismissed is on the timeline and the other way round, however many
\* members decide at once (dismissSignal, "recorded twice on purpose").
DecisionsRecorded ==
    \A r \in RunIds, k \in Keys : <<r, k>> \in dismissals <=> decisions[r][k] > 0

\* A dismissal is kept: on the timeline, and by every page that loads after it.
DismissalsHold == [][DecisionsRecorded' /\ DismissalSurvives]_signalVars
=============================================================================
