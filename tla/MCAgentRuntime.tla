--------------------------- MODULE MCAgentRuntime ---------------------------
EXTENDS AgentRuntime, TLC

\* Nothing tells two background tasks apart, or two requests, or two texts.
Symmetry == Permutations(Jobs) \cup Permutations(Controls) \cup Permutations(Guidance)

(***************************************************************************)
(* Departures: what a comment of the code says and the code does not do    *)
(***************************************************************************)
\* "A run parked at the approval gate is re-planned immediately here"
\* (api/routes.py): guidance sent at the gate is planned with, or the run ends.
\* The web application leaves the gate before it calls the endpoint.
RedirectAtGateReplans ==
    \A r \in Runs, g \in Guidance :
        (run[r].status = "RUNNING" /\ note[r][g] = "PENDING") ~>
            (note[r][g] = "APPLIED" \/ run[r].status # "RUNNING")

\* "failures are recorded durably inside" (api/routes.py, _execute_start): a run
\* that says it is running is being worked on.  The clauses that would record
\* the failure name exception classes the module does not import.
FailuresRecorded ==
    \A r \in Runs : run[r].status = "RUNNING" =>
        Live(r) # {} \/ \E c \in calls : c.run = r /\ ~(c.handled /\ ~Unanswerable(c))

\* "resuming applies exactly the approved plan" (backend_agent.py), where the
\* member approves the plan the run's panel shows.  The panel shows the first
\* PLAN artifact, the runtime applies the last one.
AppliesShownPlan ==
    \A r \in Runs : run[r].source = "none" =>
        \A w \in wrote[r] : \E a \in approved[r] : a.shown = w.plan

\* The same sentence for the checkpointed plan: an approval names no plan, so one
\* that is slow to arrive approves whatever plan is at the gate by then.
AppliesApprovedPlan ==
    \A r \in Runs : Undisturbed(r, {"overlap"}) =>
        \A w \in wrote[r] : \E a \in approved[r] : a.plan = w.plan

\* "Terminal statuses: the run is finished and its outcome must never be
\* overwritten" (interventions.ts).  Besides the late jobs and the callers that gave
\* up, a cancel or redirect that read the run at the gate writes CANCELLED or
\* RUNNING though the run has finished since, and a redirect that commits after a
\* cancel leaves it RUNNING without its slot.
OutcomesStand ==
    [][\A r \in Runs : run[r].status \in Terminal /\ run'[r].status # run[r].status
           => taint'[r] \cap {"overlap", "gaveUp"} # {}]_vars

\* "An already approved plan can therefore never be applied with stale
\* instructions" (interventions.ts).  Guidance claimed by a job that goes before it
\* has checkpointed its plan is in no later plan; a redirect read before and
\* committed after brings the run back to the gate all the same.
NeverAppliedStale ==
    \A r \in Runs : Undisturbed(r, {"overlap"}) =>
        \A w \in wrote[r] : \E a \in approved[r] : a.plan <= w.plan /\ a.asked \subseteq w.notes

\* "the runtime observes it at its next safe checkpoint ... and writes the
\* terminal status" (interventions.ts): a run whose cancellation is recorded
\* while it plans parks at the gate and waits for a member all the same.
CancelConverges ==
    \A r \in Runs : run[r].cancel ~> run[r].status \in Terminal
=============================================================================
