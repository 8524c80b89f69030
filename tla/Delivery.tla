------------------------------ MODULE Delivery ------------------------------
(***************************************************************************)
(* A successful run shipped as a draft pull request.  GitHub and the       *)
(* database cannot commit together: the branch, the files and the pull     *)
(* request are made by one call each, any of which may fail, with its      *)
(* effect or without, and only then are the link and its event stored.     *)
(* Callers run at once; meanwhile the room may be connected to another     *)
(* repository, and the task that names the branch may be renamed.          *)
(***************************************************************************)
EXTENDS Naturals

CONSTANTS
    Callers,        \* bound: requests to ship the run that are served at once
    Repositories,
    Headings,       \* titles the run's task may have
    NReviewed,      \* files in the run's reviewed DIFF
    MaxCalls,       \* bound: requests in all
    MaxRecorded,    \* bound: length of the run's log
    MaxConnects     \* bound: how often the room is connected anew, or the task renamed

ASSUME BoundedDelivery == {NReviewed, MaxCalls, MaxRecorded, MaxConnects} \subseteq Nat

VARIABLES
    active,     \* the RepositoryConnection that isActive
    heading,    \* AgentTask.title
    branch,     \* GitHub: files on the run's branch, NoBranch before it is cut
    pulls,      \* GitHub: pull requests made from that branch
    isOpen,     \* GitHub: whether the last of them is open
    link,       \* PullRequestLink of the run: its branch and number
    drafted,    \* PR_DRAFTED events of the run
    recorded,   \* all events of the run
    call,       \* each caller's progress
    told,       \* history: the links callers were answered with
    calls, connects

deliveryVars == <<active, heading, branch, pulls, isOpen, link, drafted, recorded, call, told,
                  calls, connects>>

NoBranch == NReviewed + 1
\* The run's branch is one of a repository and has a name made from the title.
Branches == [repo : Repositories, heading : Headings]
NoLink == [place |-> [repo |-> "none", heading |-> "none"], number |-> 0]
Idle == [at |-> "idle"]
Working == {"run", "repository", "branch", "files", "pull", "store", "stored", "winner"}

DeliveryInit ==
    /\ active \in Repositories /\ heading \in Headings
    /\ branch = [p \in Branches |-> NoBranch]
    /\ pulls = [p \in Branches |-> 0]
    /\ isOpen = [p \in Branches |-> FALSE]
    /\ link = NoLink
    /\ drafted = 0
    /\ recorded = 0
    /\ call = [c \in Callers |-> Idle]
    /\ told = {}
    /\ calls = 0
    /\ connects = 0

Onward(c, next) == call' = [call EXCEPT ![c] = next]
Step(at, place, n) == [at |-> at, place |-> place, n |-> n]

\* A remote call that took effect: its answer arrives, or the caller sees an error.
Called(c, next) == Onward(c, next) \/ Onward(c, Idle)

\* An error is thrown; what was made on GitHub stays.
GiveUp(c) ==
    /\ call[c] # Idle
    /\ Onward(c, Idle)
    /\ UNCHANGED <<active, heading, branch, pulls, isOpen, link, drafted, recorded, told, calls, connects>>

Told(c, answer) == told' = told \cup {answer} /\ Onward(c, Idle)

-----------------------------------------------------------------------------
(* createDraftPrForRun *)

FindLink(c) ==
    /\ call[c] = Idle /\ calls < MaxCalls
    /\ calls' = calls + 1
    /\ IF link # NoLink THEN Told(c, link) ELSE Onward(c, [at |-> "run"]) /\ UNCHANGED told
    /\ UNCHANGED <<active, heading, branch, pulls, isOpen, link, drafted, recorded, connects>>

ReadFinishedRun(c) ==
    /\ call[c].at = "run"
    /\ Onward(c, [at |-> "repository", heading |-> heading])
    /\ UNCHANGED <<active, heading, branch, pulls, isOpen, link, drafted, recorded, told, calls, connects>>

FindRepository(c) ==
    /\ call[c].at = "repository"
    /\ Onward(c, Step("branch", [repo |-> active, heading |-> call[c].heading], 0))
    /\ UNCHANGED <<active, heading, branch, pulls, isOpen, link, drafted, recorded, told, calls, connects>>

\* Faulty variant: a branch that exists already is taken for one's own.
TakeBranch(c) ==
    /\ call[c].at = "branch"
    /\ LET p == call[c].place
       IN branch' = [branch EXCEPT ![p] = IF branch[p] = NoBranch THEN 0 ELSE branch[p]]
    /\ Called(c, Step("files", call[c].place, 0))
    /\ UNCHANGED <<active, heading, pulls, isOpen, link, drafted, recorded, told, calls, connects>>

\* GitHub cuts a branch once; the second request for it ends in an error, which
\* is what keeps two callers apart.
CreateBranch(c) ==
    /\ call[c].at = "branch" /\ branch[call[c].place] = NoBranch
    /\ branch' = [branch EXCEPT ![call[c].place] = 0]
    /\ Called(c, Step("files", call[c].place, 0))
    /\ UNCHANGED <<active, heading, pulls, isOpen, link, drafted, recorded, told, calls, connects>>

\* One commit a file, in the order of the DIFF.
PutFile(c) ==
    /\ call[c].at = "files" /\ call[c].n < NReviewed
    /\ LET p == call[c].place
           n == call[c].n + 1
       IN /\ branch' = [branch EXCEPT ![p] = IF branch[p] < n THEN n ELSE branch[p]]
          /\ Called(c, Step("files", p, n))
    /\ UNCHANGED <<active, heading, pulls, isOpen, link, drafted, recorded, told, calls, connects>>

\* GitHub refuses a second open pull request of one branch.
CreateDraftPullRequest(c) ==
    /\ call[c].at = "files" /\ call[c].n = NReviewed /\ ~isOpen[call[c].place]
    /\ LET p == call[c].place
       IN /\ pulls' = [pulls EXCEPT ![p] = pulls[p] + 1]
          /\ isOpen' = [isOpen EXCEPT ![p] = TRUE]
          /\ Called(c, Step("store", p, pulls[p] + 1))
    /\ UNCHANGED <<active, heading, branch, link, drafted, recorded, told, calls, connects>>

\* The transaction inserts the link, reads where the log ends, and commits both
\* rows or neither.
ReadLastEvent(c) ==
    /\ call[c].at = "store"
    /\ Onward(c, [at |-> "stored", place |-> call[c].place, n |-> call[c].n, last |-> recorded])
    /\ UNCHANGED <<active, heading, branch, pulls, isOpen, link, drafted, recorded, told, calls, connects>>

StoreLink(c) ==
    /\ call[c].at = "stored" /\ link = NoLink /\ recorded = call[c].last /\ recorded < MaxRecorded
    /\ link' = [place |-> call[c].place, number |-> call[c].n]
    /\ drafted' = drafted + 1
    /\ recorded' = recorded + 1
    /\ Told(c, link')
    /\ UNCHANGED <<active, heading, branch, pulls, isOpen, calls, connects>>

\* P2002, from the link's key or the event's: nothing was stored.
LosesRace(c) ==
    /\ call[c].at = "stored" /\ (link # NoLink \/ recorded # call[c].last)
    /\ Onward(c, Step("winner", call[c].place, call[c].n))
    /\ UNCHANGED <<active, heading, branch, pulls, isOpen, link, drafted, recorded, told, calls, connects>>

\* findUniqueOrThrow: without a link the conflict was the event's, an error.
FindWinner(c) ==
    /\ call[c].at = "winner"
    /\ IF link # NoLink THEN Told(c, link) ELSE Onward(c, Idle) /\ UNCHANGED told
    /\ UNCHANGED <<active, heading, branch, pulls, isOpen, link, drafted, recorded, calls, connects>>

-----------------------------------------------------------------------------
(* POST rooms/[roomId]/repository: one repository is active at a time. *)

ConnectRepository(r) ==
    /\ connects < MaxConnects /\ r # active
    /\ active' = r
    /\ connects' = connects + 1
    /\ UNCHANGED <<heading, branch, pulls, isOpen, link, drafted, recorded, call, told, calls>>

\* updateTask: the title may be edited at any time.
RenameTask(h) ==
    /\ connects < MaxConnects /\ h # heading
    /\ heading' = h
    /\ connects' = connects + 1
    /\ UNCHANGED <<active, branch, pulls, isOpen, link, drafted, recorded, call, told, calls>>

\* Someone closes the pull request on GitHub; whatever else records an event.
ClosePullRequest(p) ==
    /\ isOpen[p]
    /\ isOpen' = [isOpen EXCEPT ![p] = FALSE]
    /\ UNCHANGED <<active, heading, branch, pulls, link, drafted, recorded, call, told, calls, connects>>

OtherRunEvent ==
    /\ recorded < MaxRecorded
    /\ recorded' = recorded + 1
    /\ UNCHANGED <<active, heading, branch, pulls, isOpen, link, drafted, call, told, calls, connects>>

Ship(c) ==
    \/ FindLink(c) \/ ReadFinishedRun(c) \/ FindRepository(c)
    \/ CreateBranch(c) \/ PutFile(c) \/ CreateDraftPullRequest(c)
    \/ ReadLastEvent(c) \/ StoreLink(c) \/ LosesRace(c) \/ FindWinner(c)
    \/ GiveUp(c)

DeliveryNext ==
    \/ \E c \in Callers : Ship(c)
    \/ \E r \in Repositories : ConnectRepository(r)
    \/ \E h \in Headings : RenameTask(h)
    \/ \E p \in Branches : ClosePullRequest(p)
    \/ OtherRunEvent

DeliverySpec == DeliveryInit /\ [][DeliveryNext]_deliveryVars

-----------------------------------------------------------------------------
DeliveryTypeOK ==
    /\ active \in Repositories /\ heading \in Headings
    /\ branch \in [Branches -> 0 .. NoBranch]
    /\ pulls \in [Branches -> Nat]
    /\ isOpen \in [Branches -> BOOLEAN]
    /\ \A c \in Callers : call[c] = Idle \/ call[c].at \in Working

\* However many ship the run, retry after an error or lose an answer, and even
\* if the pull request was closed meanwhile, a branch gets one of them
\* (createDraftPrForRun, "idempotent").
OnePullRequest == \A p \in Branches : pulls[p] <= 1

\* What the comment says without "a branch": the run has one pull request.  Between
\* two attempts the room may be connected elsewhere and the task renamed, and then
\* the run is given another branch, and another pull request.
OnePullRequestPerRun == \A p, q \in Branches : pulls[p] > 0 /\ pulls[q] > 0 => p = q

\* The stored link leads to a pull request that was made, with every reviewed
\* file on its branch, and the timeline tells of it exactly once.
LinkIsDelivered ==
    IF link = NoLink THEN drafted = 0
    ELSE /\ drafted = 1
         /\ link.number \in 1 .. pulls[link.place]
         /\ branch[link.place] = NReviewed

\* Everyone who is answered is answered with the stored link, also the one who
\* opened a pull request in vain.
AllToldTheLink == told \subseteq {link} /\ NoLink \notin told

\* What createDraftPrForRun promises of one branch: one pull request, one link, and
\* one answer.
ShippedOnce == OnePullRequest /\ LinkIsDelivered /\ AllToldTheLink

\* "a repeat request returns the existing link instead of opening a second PR":
\* a pull request that was opened gets its link.  An error after it was opened
\* leaves it without one, and no retry can cut the branch again.
EveryPullRequestLinked ==
    (\A c \in Callers : call[c] = Idle) =>
        \A p \in Branches : pulls[p] > 0 => link = [place |-> p, number |-> pulls[p]]
=============================================================================
