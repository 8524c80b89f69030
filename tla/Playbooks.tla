----------------------------- MODULE Playbooks -----------------------------
(***************************************************************************)
(* Successful runs saved as playbooks, and runs started from them.  Saving *)
(* stores the playbook and an event of the run it came from in one         *)
(* transaction.  Starting from a playbook is a chain of calls with nothing *)
(* around them: the process may stop between any two.                      *)
(***************************************************************************)
EXTENDS Naturals, FiniteSets

CONSTANTS
    Sources,       \* successful runs, and the playbooks they may become
    Servings,      \* bound: requests being served at once
    Runs,          \* ids of runs to be started, each used once
    MaxServed,     \* bound: requests in all
    MaxRunEvents   \* bound: length of a source run's log

ASSUME BoundedPlaybooks == MaxServed \in Nat /\ MaxRunEvents \in Nat

VARIABLES
    saved,      \* Playbook rows, by their unique sourceRunId
    archived,   \* isArchived
    uses,       \* usageCount
    events,     \* length of each source run's log
    marks,      \* PLAYBOOK_SAVED events in it
    run,        \* AgentRun: the playbook a run names, and how its start went
    serving,    \* each request's progress
    served,     \* requests so far, for the bound
    stopped     \* history: playbooks a process stopped on before it counted the use

playbookVars == <<saved, archived, uses, events, marks, run, serving, served, stopped>>

Vacant == [at |-> "vacant"]
NoRun == [of |-> "none", start |-> "none"]

PlaybooksInit ==
    /\ saved = {}
    /\ archived = {}
    /\ uses = [p \in Sources |-> 0]
    /\ events = [p \in Sources |-> 0]
    /\ marks = [p \in Sources |-> 0]
    /\ run = [r \in Runs |-> NoRun]
    /\ serving = [q \in Servings |-> Vacant]
    /\ served = 0
    /\ stopped = {}

Go(q, next) == serving' = [serving EXCEPT ![q] = next]

\* A request is taken on while the bound allows; `next` is where its first step leads.
Serve(q, next) ==
    /\ serving[q] = Vacant /\ served < MaxServed
    /\ served' = served + 1
    /\ Go(q, next)

\* createPlaybook, outside the transaction: not saved already.
FindSource(q, p) ==
    /\ p \notin saved
    /\ Serve(q, [at |-> "save", of |-> p])
    /\ UNCHANGED <<saved, archived, uses, events, marks, run, stopped>>

\* In the transaction: where the run's log ends.
ReadLog(q) ==
    /\ serving[q].at = "save"
    /\ Go(q, [at |-> "commit", of |-> serving[q].of, last |-> events[serving[q].of]])
    /\ UNCHANGED <<saved, archived, uses, events, marks, run, served, stopped>>

\* Both rows, each under its unique key, or neither.
SavePlaybook(q) ==
    /\ serving[q].at = "commit"
    /\ LET p == serving[q].of
       IN IF p \in saved \/ events[p] # serving[q].last THEN UNCHANGED <<saved, events, marks>>
          ELSE /\ events[p] < MaxRunEvents
               /\ saved' = saved \cup {p}
               /\ events' = [events EXCEPT ![p] = events[p] + 1]
               /\ marks' = [marks EXCEPT ![p] = marks[p] + 1]
    /\ Go(q, Vacant)
    /\ UNCHANGED <<archived, uses, run, served, stopped>>

OtherSourceEvent(p) ==
    /\ events[p] < MaxRunEvents
    /\ events' = [events EXCEPT ![p] = events[p] + 1]
    /\ UNCHANGED <<saved, archived, uses, marks, run, serving, served, stopped>>

\* setPlaybookArchived: archive or restore.
Archive(p) ==
    /\ p \in saved /\ served < MaxServed
    /\ served' = served + 1
    /\ archived' = IF p \in archived THEN archived \ {p} ELSE archived \cup {p}
    /\ UNCHANGED <<saved, uses, events, marks, run, serving, stopped>>

-----------------------------------------------------------------------------
(* POST tasks/[taskId]/runs with a playbook. *)

\* requirePlaybookForRun
RequirePlaybook(q, p) ==
    /\ p \in saved \ archived
    /\ Serve(q, [at |-> "create", of |-> p])
    /\ UNCHANGED <<saved, archived, uses, events, marks, run, stopped>>

\* createAgentRun, which refuses a task that has an active run already.
CreateRun(q) ==
    /\ serving[q].at = "create"
    /\ \/ Go(q, Vacant) /\ UNCHANGED run
       \/ \E r \in {x \in Runs : run[x] = NoRun} :
            /\ run' = [run EXCEPT ![r] = [of |-> serving[q].of, start |-> "queued"]]
            /\ Go(q, [at |-> "start", of |-> serving[q].of, run |-> r])
    /\ UNCHANGED <<saved, archived, uses, events, marks, served, stopped>>

\* Faulty variant: the use is counted whether or not the run starts.
StartAnyway(q) ==
    /\ serving[q].at = "start"
    /\ \E answer \in {"started", "failed"} :
         run' = [run EXCEPT ![serving[q].run] = [of |-> serving[q].of, start |-> answer]]
    /\ Go(q, [at |-> "count", of |-> serving[q].of])
    /\ UNCHANGED <<saved, archived, uses, events, marks, served, stopped>>

\* startAgentRun: the runtime takes the run, or the run is marked failed.
StartRun(q) ==
    /\ serving[q].at = "start"
    /\ \/ /\ run' = [run EXCEPT ![serving[q].run] = [of |-> serving[q].of, start |-> "started"]]
          /\ Go(q, [at |-> "count", of |-> serving[q].of])
       \/ /\ run' = [run EXCEPT ![serving[q].run] = [of |-> serving[q].of, start |-> "failed"]]
          /\ Go(q, Vacant)
    /\ UNCHANGED <<saved, archived, uses, events, marks, served, stopped>>

\* recordPlaybookUse: one atomic increment.
RecordUse(q) ==
    /\ serving[q].at = "count"
    /\ uses' = [uses EXCEPT ![serving[q].of] = uses[serving[q].of] + 1]
    /\ Go(q, Vacant)
    /\ UNCHANGED <<saved, archived, events, marks, run, served, stopped>>

\* The process that serves the request stops.
StopServing(q) ==
    /\ serving[q] # Vacant
    /\ stopped' = IF serving[q].at \in {"start", "count"} THEN stopped \cup {serving[q].of}
                  ELSE stopped
    /\ Go(q, Vacant)
    /\ UNCHANGED <<saved, archived, uses, events, marks, run, served>>

PlaybooksNext ==
    \/ \E q \in Servings :
         \/ \E p \in Sources : FindSource(q, p) \/ RequirePlaybook(q, p)
         \/ ReadLog(q) \/ SavePlaybook(q)
         \/ CreateRun(q) \/ StartRun(q) \/ RecordUse(q) \/ StopServing(q)
    \/ \E p \in Sources : Archive(p) \/ OtherSourceEvent(p)

PlaybooksSpec == PlaybooksInit /\ [][PlaybooksNext]_playbookVars

-----------------------------------------------------------------------------
PlaybooksTypeOK ==
    /\ archived \subseteq saved /\ saved \subseteq Sources
    /\ \A p \in Sources : {uses[p], events[p], marks[p]} \subseteq Nat
    /\ \A r \in Runs : run[r] = NoRun \/ run[r].of \in saved

\* A run becomes a playbook once, and its timeline says so exactly when it has,
\* however many members save it at once (createPlaybook).
SavedOnce == \A p \in Sources : marks[p] = IF p \in saved THEN 1 ELSE 0

Started(p) == {r \in Runs : run[r].of = p /\ run[r].start = "started"}
Counting(p) == {q \in Servings : serving[q].at = "count" /\ serving[q].of = p}

\* "A failed start never inflates usage": a playbook's use count is the number of
\* runs started from it whose use is not about to be counted.  It falls behind,
\* never ahead, when the process stops in between.
UsesAreStarts ==
    \A p \in Sources :
        LET due == uses[p] + Cardinality(Counting(p))
        IN due <= Cardinality(Started(p))
           /\ (p \notin stopped => due = Cardinality(Started(p)))

\* A playbook and the tables around it tell one story: saved once and marked so,
\* used as often as its runs were started.
PlaybooksAreTrue == SavedOnce /\ UsesAreStarts
=============================================================================
