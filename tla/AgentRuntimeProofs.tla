------------------------- MODULE AgentRuntimeProofs -------------------------
(***************************************************************************)
(* Theorems about AgentRuntime, for every set of runs, tasks, background   *)
(* jobs and texts, every number of decisions and every choice of faults:   *)
(* the types are right, no file is patched for a run before a member has   *)
(* approved a plan of that run (IInv), and, over what happens to one run   *)
(* at a time (Steady), no file is patched by a stale plan, guidance is not *)
(* lost, a slot is held while its run is active, what is delivered is what *)
(* ran, and a finished run stays finished.                                 *)
(***************************************************************************)
EXTENDS AgentRuntime, TLAPS

USE DisjointNames, BoundedDecisions, KnownFaults

Busy(j) == job[j].kind # "idle"
Opening(c) == c.op \in Creating /\ ~c.handled

\* A row nobody has inserted has no job and no request.
Begun ==
    \A r \in Runs : run[r].status = "NONE" =>
        /\ \A j \in Jobs : Busy(j) => job[j].run # r
        /\ \A c \in calls : c.run # r

\* A fork knows what it copies.
Forked ==
    /\ \A c \in calls : c.op = "fork" => run[c.run].source \in Runs
    /\ \A j \in Jobs : job[j].kind = "fork" => run[job[j].run].source \in Runs

\* Until the request or the job that creates a run is through, the run is not at
\* the gate and nothing else drives it.
Alone ==
    /\ \A c, d \in calls : Opening(c) /\ Opening(d) /\ c.run = d.run => c = d
    /\ \A c \in calls : Opening(c) =>
         /\ run[c.run].status # "AWAITING_APPROVAL"
         /\ \A j \in Jobs : Busy(j) => job[j].run # c.run
    /\ \A j \in Jobs : job[j].kind \in Creating =>
         /\ run[job[j].run].status # "AWAITING_APPROVAL"
         /\ \A k \in Jobs : Busy(k) /\ job[k].run = job[j].run => k = j

\* An approval on its way, and the job it schedules, have a member behind them.
Consent ==
    /\ \A c \in calls : c.op = "approve" => approved[c.run] # {}
    /\ \A j \in Jobs : job[j].kind = "resume" => approved[job[j].run] # {}

\* A start job passes the gate by itself only with a plan that edits nothing.
NothingToApprove ==
    \A j \in Jobs : job[j].kind = "start" =>
        /\ job[j].at = "load" => thread[job[j].run].state.plan.edits = "none"
        /\ job[j].at = "apply" => job[j].mem.plan.edits = "none"

\* What a cancel or redirect transaction has read stays true of its run as far as
\* nothing unmakes it: it was made, and if it was at the gate it is not queued and no
\* request that creates it is under way.
Seen ==
    \A m \in Controls : control[m] \in Control =>
        /\ run[control[m].run].status # "NONE"
        /\ control[m].atGate =>
             /\ run[control[m].run].status # "QUEUED"
             /\ \A c \in calls : Opening(c) => c.run # control[m].run

IInv == /\ TypeOK /\ Begun /\ Forked /\ Alone /\ Consent /\ NothingToApprove
        /\ EditsNeedApproval

Thread == [next : Nodes, state : Channels]

-----------------------------------------------------------------------------
(* What a job does *)

\* A job that writes a last status and is gone, whatever else it leaves behind.
LEMMA OverKeeps ==
  ASSUME IInv, NEW j \in Jobs, Busy(j), NEW s \in Status, s # "NONE",
         Became(job[j].run, s), Over(j), taint' \in [Runs -> SUBSET Marks],
         UNCHANGED <<note, thread, art, calls, decided, control, approved, wrote>>,
         s = "AWAITING_APPROVAL" => job[j].kind \in {"start", "replan", "fork"}
  PROVE  IInv'
<1>0. job[j] \in Task /\ job[j].run \in Runs
  BY DEF IInv, TypeOK, Busy, Task, Idle
<1>1. TypeOK'
  <2>1. run' \in [Runs -> Row]
    BY <1>0 DEF IInv, TypeOK, Became, Updated, Row
  <2>2. job' \in [Jobs -> {Idle} \cup Task]
    BY <1>0 DEF IInv, TypeOK, Over
  <2>3. QED BY <2>1, <2>2 DEF IInv, TypeOK
<1>2. Begun'
  BY <1>0 DEF IInv, TypeOK, Begun, Busy, Became, Updated, Over, Idle
<1>3. Forked'
  BY <1>0 DEF IInv, TypeOK, Forked, Busy, Became, Updated, Over, Idle, Call, Task
<1>4. Alone'
  <2>1. \A c, d \in calls' : Opening(c) /\ Opening(d) /\ c.run = d.run => c = d
    BY DEF IInv, Alone
  <2>2. \A k \in Jobs : job'[k].kind # "idle" => k # j /\ job'[k] = job[k]
    BY DEF IInv, TypeOK, Over, Idle
  <2>3. \A r \in Runs : r # job[j].run => run'[r] = run[r]
    BY DEF IInv, TypeOK, Became
  <2>4. run'[job[j].run].status = s
    BY <1>0 DEF IInv, TypeOK, Became, Updated, Row
  <2>5. \A c \in calls' : Opening(c) =>
          /\ run'[c.run].status # "AWAITING_APPROVAL"
          /\ \A k \in Jobs : job'[k].kind # "idle" => job'[k].run # c.run
    BY <2>2, <2>3, <1>0 DEF IInv, TypeOK, Alone, Busy, Call
  <2>6. \A k \in Jobs : job'[k].kind \in Creating =>
          /\ run'[job'[k].run].status # "AWAITING_APPROVAL"
          /\ \A l \in Jobs : job'[l].kind # "idle" /\ job'[l].run = job'[k].run => l = k
    BY SMTT(30), <2>2, <2>3, <1>0 DEF IInv, TypeOK, Alone, Busy, Creating, Idle, Task
  <2>7. QED BY <2>1, <2>5, <2>6 DEF Alone, Opening, Busy, Creating
<1>5. Consent'
  BY <1>0 DEF IInv, TypeOK, Consent, Busy, Became, Updated, Over, Idle, Call, Task
<1>6. NothingToApprove'
  BY <1>0 DEF IInv, TypeOK, NothingToApprove, Busy, Became, Updated, Over, Idle, Call, Task
<1>7. EditsNeedApproval'
  BY DEF IInv, EditsNeedApproval
<1>8. QED BY <1>1, <1>2, <1>3, <1>4, <1>5, <1>6, <1>7 DEF IInv

LEMMA EndKeeps ==
  ASSUME IInv, NEW j \in Jobs, Busy(j), NEW s \in Status, s # "NONE", End(j, s),
         s = "AWAITING_APPROVAL" => job[j].kind \in {"start", "replan", "fork"}
  PROVE  IInv'
<1>1. /\ Became(job[j].run, s) /\ Over(j)
      /\ UNCHANGED <<note, thread, art, calls, decided, control, approved, wrote>>
  BY DEF End
<1>2. taint' \in [Runs -> SUBSET Marks]
  BY DEF IInv, TypeOK, End
<1>3. QED BY <1>1, <1>2, OverKeeps

\* A job that goes on, for the run it was scheduled for: it may have written
\* RUNNING, and changes no other run's thread.
LEMMA MoveKeeps ==
  ASSUME IInv, NEW j \in Jobs, Busy(j),
         NEW kind \in Kinds, NEW stage \in Stages, NEW mem \in Channels, NEW box \in Nat,
         Moved(j, kind, stage, mem, box),
         kind = job[j].kind \/ (job[j].kind = "resume" /\ kind = "replan"),
         run' = run \/ Became(job[j].run, "RUNNING"),
         thread' \in [Runs -> Thread],
         \A r \in Runs : r # job[j].run => thread'[r] = thread[r],
         note' \in [Runs -> [Guidance -> {"NONE", "PENDING", "APPLIED"}]],
         art' \in [Runs -> [first : Nat, last : Nat, diff : Nat, inBox : Nat]],
         wrote' \in [Runs -> SUBSET [plan : Nat, notes : SUBSET Guidance]],
         taint' \in [Runs -> SUBSET Marks],
         UNCHANGED <<calls, decided, control, approved>>,
         \A r \in Runs : wrote'[r] # {} => approved[r] # {},
         kind = "start" =>
            /\ stage = "load" => thread'[job[j].run].state.plan.edits = "none"
            /\ stage = "apply" => mem.plan.edits = "none"
  PROVE  IInv'
<1>0. job[j] \in Task /\ job[j].run \in Runs
  BY DEF IInv, TypeOK, Busy, Task, Idle
<1>a. /\ run' \in [Runs -> Row]
      /\ \A r \in Runs : /\ run'[r].source = run[r].source
                         /\ run'[r].status = run[r].status
                              \/ (r = job[j].run /\ run'[r].status = "RUNNING")
  <2>1. CASE run' = run
    BY <2>1 DEF IInv, TypeOK
  <2>2. CASE Became(job[j].run, "RUNNING")
    BY <1>0, <2>2 DEF IInv, TypeOK, Became, Updated, Row, Status, Active, Terminal
  <2>3. QED BY <2>1, <2>2
<1>b. /\ job' \in [Jobs -> {Idle} \cup Task]
      /\ job'[j] \in Task /\ job'[j].kind = kind /\ job'[j].run = job[j].run
      /\ job'[j].at = stage /\ job'[j].mem = mem
      /\ \A k \in Jobs : k # j => job'[k] = job[k]
  BY <1>0 DEF IInv, TypeOK, Moved, Task
<1>c. \A k \in Jobs : job'[k].kind # "idle" => job[k].kind # "idle" /\ job'[k].run = job[k].run
  BY <1>b DEF Busy
<1>d. \A k \in Jobs : job[k].kind # "idle" => job[k].run \in Runs
  BY DEF IInv, TypeOK, Task, Idle
<1>1. TypeOK'
  BY <1>a, <1>b DEF IInv, TypeOK, Thread
<1>2. Begun'
  <2>1. run[job[j].run].status # "NONE"
    BY <1>0 DEF IInv, Begun
  <2>2. SUFFICES ASSUME NEW r \in Runs, run'[r].status = "NONE"
                 PROVE  /\ \A k \in Jobs : job'[k].kind # "idle" => job'[k].run # r
                        /\ \A c \in calls' : c.run # r
    BY DEF Begun, Busy
  <2>3. run[r].status = "NONE"
    BY <1>a, <2>1, <2>2
  <2>4. QED BY SMTT(30), <1>c, <2>3 DEF IInv, Begun, Busy
<1>3. Forked'
  <2>1. \A k \in Jobs : job'[k].kind = "fork" =>
          /\ job[k].kind = "fork" /\ job'[k].run = job[k].run /\ job[k].run \in Runs
    BY <1>b, <1>c, <1>d
  <2>2. \A c \in calls : c.run \in Runs
    BY DEF IInv, TypeOK, Call
  <2>3. \A c \in calls' : c.op = "fork" => run'[c.run].source \in Runs
    BY <1>a, <2>2 DEF IInv, Forked
  <2>4. \A k \in Jobs : job'[k].kind = "fork" => run'[job'[k].run].source \in Runs
    BY <1>a, <2>1 DEF IInv, Forked
  <2>5. QED BY <2>3, <2>4 DEF Forked
<1>4. Alone'
  <2>1. \A c, d \in calls' : Opening(c) /\ Opening(d) /\ c.run = d.run => c = d
    BY DEF IInv, Alone
  <2>2. \A c \in calls' : Opening(c) =>
          /\ run'[c.run].status # "AWAITING_APPROVAL"
          /\ \A k \in Jobs : job'[k].kind # "idle" => job'[k].run # c.run
    BY <1>a, <1>c DEF IInv, TypeOK, Alone, Busy, Call
  <2>3. \A k \in Jobs : job'[k].kind \in Creating =>
          /\ run'[job'[k].run].status # "AWAITING_APPROVAL"
          /\ \A l \in Jobs : job'[l].kind # "idle" /\ job'[l].run = job'[k].run => l = k
    <3> SUFFICES ASSUME NEW k \in Jobs, job'[k].kind \in Creating
                 PROVE  /\ run'[job'[k].run].status # "AWAITING_APPROVAL"
                        /\ \A l \in Jobs : job'[l].kind # "idle" /\ job'[l].run = job'[k].run
                                => l = k
      OBVIOUS
    <3>1. job[k].kind \in Creating /\ job'[k].run = job[k].run /\ job[k].run \in Runs
      BY <1>b, <1>c, <1>d DEF Creating
    <3>2. /\ run[job[k].run].status # "AWAITING_APPROVAL"
          /\ \A l \in Jobs : job[l].kind # "idle" /\ job[l].run = job[k].run => l = k
      BY <3>1 DEF IInv, Alone, Busy
    <3>3. QED BY <3>1, <3>2, <1>a, <1>c
  <2>4. QED BY <2>1, <2>2, <2>3 DEF Alone, Opening, Busy, Creating
<1>5. Consent'
  <2>1. \A k \in Jobs : job'[k].kind = "resume" =>
          job[k].kind = "resume" /\ job'[k].run = job[k].run
    BY <1>b, <1>c
  <2>2. QED BY <2>1 DEF IInv, Consent
<1>6. NothingToApprove'
  <2> SUFFICES ASSUME NEW k \in Jobs, job'[k].kind = "start"
               PROVE  /\ job'[k].at = "load" => thread'[job'[k].run].state.plan.edits = "none"
                      /\ job'[k].at = "apply" => job'[k].mem.plan.edits = "none"
    BY DEF NothingToApprove
  <2>1. CASE k = j
    BY <2>1, <1>b
  <2>2. CASE k # j
    <3>1. job'[k] = job[k] /\ job[k].kind \in Creating /\ job[k].run \in Runs
      BY <2>2, <1>b, <1>d DEF Creating
    <3>2. job[k].run # job[j].run
      BY <2>2, <3>1 DEF IInv, Alone, Busy
    <3>3. thread'[job[k].run] = thread[job[k].run]
      BY <3>1, <3>2
    <3>4. QED BY <3>1, <3>3 DEF IInv, NothingToApprove
  <2>3. QED BY <2>1, <2>2
<1>7. EditsNeedApproval'
  BY DEF EditsNeedApproval
<1>8. QED BY <1>1, <1>2, <1>3, <1>4, <1>5, <1>6, <1>7 DEF IInv

\* What a live job is made of.
LEMMA JobTyped ==
  ASSUME IInv, NEW j \in Jobs, Busy(j)
  PROVE  /\ job[j] \in Task /\ job[j].run \in Runs
         /\ job[j].kind \in Kinds /\ job[j].at \in Stages /\ job[j].box \in Nat
         /\ job[j].mem \in Channels /\ job[j].mem.plan \in Plans
         /\ job[j].mem.applied \in BOOLEAN /\ job[j].mem.passed \in BOOLEAN
         /\ job[j].mem.notes \in SUBSET Guidance
         /\ thread[job[j].run] \in Thread /\ thread[job[j].run].state \in Channels
         /\ thread[job[j].run].next \in Nodes
         /\ thread[job[j].run].state.plan \in Plans
         /\ art[job[j].run] \in [first : Nat, last : Nat, diff : Nat, inBox : Nat]
<1>1. job[j] \in Task
  BY DEF IInv, TypeOK, Busy, Idle
<1>2. /\ job[j].run \in Runs /\ job[j].kind \in Kinds /\ job[j].at \in Stages
      /\ job[j].box \in Nat /\ job[j].mem \in Channels
  BY <1>1 DEF Task
<1>3. /\ job[j].mem.plan \in Plans /\ job[j].mem.applied \in BOOLEAN
      /\ job[j].mem.passed \in BOOLEAN /\ job[j].mem.notes \in SUBSET Guidance
  BY <1>2 DEF Channels
<1>4. /\ thread[job[j].run] \in Thread
      /\ art[job[j].run] \in [first : Nat, last : Nat, diff : Nat, inBox : Nat]
  BY <1>2 DEF IInv, TypeOK, Thread
<1>5. thread[job[j].run].state \in Channels /\ thread[job[j].run].next \in Nodes
  BY <1>4 DEF Thread
<1>6. thread[job[j].run].state.plan \in Plans
  BY <1>5 DEF Channels
<1>7. QED BY <1>1, <1>2, <1>3, <1>4, <1>5, <1>6

\* A job that only changes its stage, and perhaps writes RUNNING first.
LEMMA StageKeeps ==
  ASSUME IInv, NEW j \in Jobs, Busy(j), NEW stage \in Stages, GoTo(j, stage),
         run' = run \/ Became(job[j].run, "RUNNING"),
         UNCHANGED <<note, thread, art, calls, decided, control, approved, wrote, taint>>,
         job[j].kind = "start" =>
            /\ stage = "load" => thread[job[j].run].state.plan.edits = "none"
            /\ stage # "apply"
  PROVE  IInv'
<1>1. Moved(j, job[j].kind, stage, job[j].mem, job[j].box)
  BY DEF GoTo
<1>2. /\ job[j].kind \in Kinds /\ job[j].mem \in Channels /\ job[j].box \in Nat
  BY JobTyped
<1>3. /\ thread' \in [Runs -> Thread]
      /\ note' \in [Runs -> [Guidance -> {"NONE", "PENDING", "APPLIED"}]]
      /\ art' \in [Runs -> [first : Nat, last : Nat, diff : Nat, inBox : Nat]]
      /\ wrote' \in [Runs -> SUBSET [plan : Nat, notes : SUBSET Guidance]]
      /\ taint' \in [Runs -> SUBSET Marks]
      /\ \A r \in Runs : wrote'[r] # {} => approved[r] # {}
  BY DEF IInv, TypeOK, Thread, EditsNeedApproval
<1>4. QED BY <1>1, <1>2, <1>3, MoveKeeps

\* A graph node that ends in a checkpoint of its own thread.
LEMMA NodeKeeps ==
  ASSUME IInv, NEW j \in Jobs, Busy(j), NEW mem \in Channels, NEW next \in Nodes,
         NEW stage \in Stages, NEW box \in Nat, Node(j, mem, next, stage, box),
         art' \in [Runs -> [first : Nat, last : Nat, diff : Nat, inBox : Nat]],
         wrote' \in [Runs -> SUBSET [plan : Nat, notes : SUBSET Guidance]],
         \A r \in Runs : wrote'[r] # {} => approved[r] # {},
         stage \notin {"load", "apply"},
         UNCHANGED <<run, note, calls, decided, control, approved, taint>>
  PROVE  IInv'
<1>1. Moved(j, job[j].kind, stage, mem, box)
  BY DEF Node
<1>2. job[j].kind \in Kinds /\ job[j].run \in Runs
  BY JobTyped
<1>3. /\ thread' \in [Runs -> Thread]
      /\ \A r \in Runs : r # job[j].run => thread'[r] = thread[r]
  BY <1>2 DEF IInv, TypeOK, Node, Thread
<1>4. /\ note' \in [Runs -> [Guidance -> {"NONE", "PENDING", "APPLIED"}]]
      /\ taint' \in [Runs -> SUBSET Marks]
  BY DEF IInv, TypeOK
<1>5. QED BY <1>1, <1>2, <1>3, <1>4, MoveKeeps

\* A job that dies writes nothing.
LEMMA DiesKeeps ==
  ASSUME IInv, NEW j \in Jobs, Busy(j), Dies(j)
  PROVE  IInv'
<1>1. job[j].run \in Runs
  BY JobTyped
<1>2. \A k \in Jobs : job'[k].kind # "idle" => k # j /\ job'[k] = job[k]
  BY DEF IInv, TypeOK, Dies, Over, Idle
<1>3. TypeOK'
  <2>1. job' \in [Jobs -> {Idle} \cup Task]
    BY DEF IInv, TypeOK, Dies, Over
  <2>2. taint' \in [Runs -> SUBSET Marks]
    <3>1. {"died"} \cup When(job[j].at = "propose", "lost") \subseteq Marks
      BY DEF When, Marks
    <3>2. QED BY <1>1, <3>1 DEF IInv, TypeOK, Dies, Tainted
  <2>3. QED BY <2>1, <2>2 DEF IInv, TypeOK, Dies
<1>4. Begun' /\ Forked' /\ Alone'
  <2>1. Begun'
    BY <1>2 DEF IInv, Begun, Busy, Dies
  <2>2. Forked'
    BY <1>2 DEF IInv, Forked, Dies
  <2>3. Alone'
    BY <1>2 DEF IInv, Alone, Opening, Creating, Busy, Dies
  <2>4. QED BY <2>1, <2>2, <2>3
<1>5. Consent' /\ NothingToApprove' /\ EditsNeedApproval'
  BY <1>2 DEF IInv, Consent, NothingToApprove, EditsNeedApproval, Dies
<1>6. QED BY <1>3, <1>4, <1>5 DEF IInv

-----------------------------------------------------------------------------
(* The steps of the jobs *)

LEMMA StateTyped ==
  ASSUME NEW plan \in Plans, NEW applied \in BOOLEAN, NEW passed \in BOOLEAN,
         NEW notes \in SUBSET Guidance
  PROVE  State(plan, applied, passed, notes) \in Channels
BY DEF State, Channels

LEMMA BeginKeeps ==
  ASSUME IInv, NEW j \in Jobs, Begin(j)
  PROVE  IInv'
<1>1. Busy(j) /\ "prepare" \in Stages
  BY DEF Begin, At, Busy, Stages
<1>2. QED BY <1>1, StageKeeps DEF Begin

LEMMA PrepareKeeps ==
  ASSUME IInv, NEW j \in Jobs, Prepare(j)
  PROVE  IInv'
<1>1. Busy(j) /\ job[j].kind \in {"start", "resume"}
  BY DEF Prepare, At, Busy
<1>2. CASE End(j, "FAILED")
  BY <1>1, <1>2, EndKeeps DEF Status, Terminal
<1>3. CASE /\ Became(job[j].run, "RUNNING")
           /\ GoTo(j, IF job[j].kind = "start" THEN "inspect" ELSE "load")
           /\ UNCHANGED <<note, thread, art, calls, decided, control, approved, wrote, taint>>
  <2>1. CASE job[j].kind = "start"
    BY <1>1, <1>3, <2>1, StageKeeps DEF Stages
  <2>2. CASE job[j].kind # "start"
    BY <1>1, <1>3, <2>2, StageKeeps DEF Stages
  <2>3. QED BY <2>1, <2>2
<1>4. QED BY <1>2, <1>3 DEF Prepare

LEMMA LoadKeeps ==
  ASSUME IInv, NEW j \in Jobs, Load(j)
  PROVE  IInv'
<1> DEFINE t == thread[job[j].run]
<1>1. Busy(j) /\ job[j].at = "load"
  BY DEF Load, Busy
<1>2. /\ t.state \in Channels /\ t.next \in Stages /\ t.next # "load"
      /\ job[j].kind \in Kinds /\ job[j].box \in Nat
  BY <1>1, JobTyped DEF Nodes, Stages
<1>3. Moved(j, job[j].kind, t.next, t.state, job[j].box)
  BY DEF Load
<1>4. job[j].kind = "start" => t.state.plan.edits = "none"
  BY <1>1 DEF IInv, NothingToApprove
<1>5. /\ thread' \in [Runs -> Thread] /\ thread' = thread
      /\ note' \in [Runs -> [Guidance -> {"NONE", "PENDING", "APPLIED"}]]
      /\ art' \in [Runs -> [first : Nat, last : Nat, diff : Nat, inBox : Nat]]
      /\ wrote' \in [Runs -> SUBSET [plan : Nat, notes : SUBSET Guidance]]
      /\ taint' \in [Runs -> SUBSET Marks]
      /\ \A r \in Runs : wrote'[r] # {} => approved[r] # {}
      /\ run' = run /\ UNCHANGED <<calls, decided, control, approved>>
  BY DEF IInv, TypeOK, Thread, EditsNeedApproval, Load
<1> HIDE DEF t
<1>6. QED BY <1>1, <1>2, <1>3, <1>4, <1>5, MoveKeeps

LEMMA SteeredKeeps ==
  ASSUME IInv, NEW j \in Jobs, Steered(j)
  PROVE  IInv'
<1>1. Busy(j)
  BY DEF Steered, Busy
<1>2. CASE job[j].kind = "resume"
  <2>1. /\ Moved(j, "replan", "recheck", job[j].mem, 0)
        /\ UNCHANGED <<run, note, thread, art, calls, decided, control, approved, wrote, taint>>
    BY <1>2 DEF Steered
  <2>2. "replan" \in Kinds /\ "recheck" \in Stages /\ job[j].mem \in Channels /\ 0 \in Nat
    BY <1>1, JobTyped DEF Kinds, Stages
  <2>3. /\ thread' \in [Runs -> Thread]
        /\ note' \in [Runs -> [Guidance -> {"NONE", "PENDING", "APPLIED"}]]
        /\ art' \in [Runs -> [first : Nat, last : Nat, diff : Nat, inBox : Nat]]
        /\ wrote' \in [Runs -> SUBSET [plan : Nat, notes : SUBSET Guidance]]
        /\ taint' \in [Runs -> SUBSET Marks]
        /\ \A r \in Runs : wrote'[r] # {} => approved[r] # {}
    BY <2>1 DEF IInv, TypeOK, Thread, EditsNeedApproval
  <2>4. QED BY <1>1, <1>2, <2>1, <2>2, <2>3, MoveKeeps
<1>3. CASE job[j].kind = "replan"
  BY <1>1, <1>3, EndKeeps DEF Steered, Status, Terminal
<1>4. CASE job[j].kind = "start"
  BY <1>1, <1>4, DiesKeeps DEF Steered
<1>5. QED BY <1>2, <1>3, <1>4 DEF Steered

LEMMA CheckpointKeeps ==
  ASSUME IInv, NEW j \in Jobs, NEW stage, Checkpoint(j, stage)
  PROVE  IInv'
<1>1. Busy(j) /\ End(j, "CANCELLED")
  BY DEF Checkpoint, Busy
<1>2. QED BY <1>1, EndKeeps DEF Status, Terminal

LEMMA InspectKeeps ==
  ASSUME IInv, NEW j \in Jobs, Inspect(j)
  PROVE  IInv'
<1>1. Busy(j) /\ Node(j, job[j].mem, "plan", "plan", job[j].box)
  BY DEF Inspect, Passes, Busy
<1>2. /\ job[j].mem \in Channels /\ job[j].box \in Nat
      /\ "plan" \in Nodes /\ "plan" \in Stages
  BY <1>1, JobTyped DEF Nodes, Stages
<1>3. /\ art' \in [Runs -> [first : Nat, last : Nat, diff : Nat, inBox : Nat]]
      /\ wrote' \in [Runs -> SUBSET [plan : Nat, notes : SUBSET Guidance]]
      /\ \A r \in Runs : wrote'[r] # {} => approved[r] # {}
      /\ UNCHANGED <<run, note, calls, decided, control, approved, taint>>
  BY DEF IInv, TypeOK, Inspect, EditsNeedApproval
<1>4. QED BY <1>1, <1>2, <1>3, NodeKeeps

LEMMA ClaimKeeps ==
  ASSUME IInv, NEW j \in Jobs, Claim(j)
  PROVE  IInv'
<1> DEFINE r == job[j].run
           mem == State(job[j].mem.plan, job[j].mem.applied, job[j].mem.passed,
                        job[j].mem.notes \cup Pending(r))
<1>1. Busy(j)
  BY DEF Claim, Passes, Busy
<1>2. /\ job[j].kind \in Kinds /\ job[j].box \in Nat /\ r \in Runs /\ "propose" \in Stages
  BY <1>1, JobTyped DEF Stages
<1>3. mem \in Channels
  <2>1. Pending(r) \in SUBSET Guidance
    BY DEF Pending
  <2>2. QED BY <1>1, <2>1, JobTyped, StateTyped
<1>4. Moved(j, job[j].kind, "propose", mem, job[j].box)
  BY DEF Claim
<1>5. note' \in [Runs -> [Guidance -> {"NONE", "PENDING", "APPLIED"}]]
  BY <1>2 DEF IInv, TypeOK, Claim
<1>6. /\ thread' \in [Runs -> Thread]
      /\ art' \in [Runs -> [first : Nat, last : Nat, diff : Nat, inBox : Nat]]
      /\ wrote' \in [Runs -> SUBSET [plan : Nat, notes : SUBSET Guidance]]
      /\ taint' \in [Runs -> SUBSET Marks]
      /\ \A s \in Runs : wrote'[s] # {} => approved[s] # {}
      /\ thread' = thread /\ run' = run /\ UNCHANGED <<calls, decided, control, approved>>
  BY DEF IInv, TypeOK, Thread, EditsNeedApproval, Claim
<1> HIDE DEF mem, r
<1>7. QED BY <1>1, <1>2, <1>3, <1>4, <1>5, <1>6, MoveKeeps

LEMMA ProposeKeeps ==
  ASSUME IInv, NEW j \in Jobs, NEW e \in Edits, Propose(j, e)
  PROVE  IInv'
<1> DEFINE r == job[j].run
           newest == IF art[r].last > job[j].mem.plan.id THEN art[r].last ELSE job[j].mem.plan.id
           p == [id |-> newest + 1, edits |-> e]
           mem == State(p, job[j].mem.applied, job[j].mem.passed, job[j].mem.notes)
           stage == IF job[j].kind = "resume" THEN "end" ELSE "gate"
<1>1. Busy(j)
  BY DEF Propose, Busy
<1>2. /\ r \in Runs /\ job[j].box \in Nat /\ stage \in Stages /\ stage \notin {"load", "apply"}
      /\ "apply" \in Nodes
  BY <1>1, JobTyped DEF Stages, Nodes
<1>3. newest \in Nat
  BY <1>1, JobTyped DEF Plans
<1>4. p \in Plans /\ p.id \in Nat
  <2> HIDE DEF newest
  <2>1. QED BY <1>3 DEF Plans
<1>5. mem \in Channels
  <2> HIDE DEF p
  <2>1. QED BY <1>1, <1>4, JobTyped, StateTyped
<1>6. Node(j, mem, "apply", stage, job[j].box)
  BY DEF Propose
<1>7. art' \in [Runs -> [first : Nat, last : Nat, diff : Nat, inBox : Nat]]
  <2>1. art' = [art EXCEPT ![r] = Artifacts(IF art[r].first = 0 THEN p.id ELSE art[r].first,
                                            p.id, art[r].diff, art[r].inBox)]
    BY DEF Propose
  <2> HIDE DEF p
  <2>2. Artifacts(IF art[r].first = 0 THEN p.id ELSE art[r].first,
                  p.id, art[r].diff, art[r].inBox)
           \in [first : Nat, last : Nat, diff : Nat, inBox : Nat]
    BY <1>1, <1>4, JobTyped DEF Artifacts
  <2>3. QED BY <1>2, <2>1, <2>2 DEF IInv, TypeOK
<1>8. /\ wrote' \in [Runs -> SUBSET [plan : Nat, notes : SUBSET Guidance]]
      /\ \A s \in Runs : wrote'[s] # {} => approved[s] # {}
      /\ UNCHANGED <<run, note, calls, decided, control, approved, taint>>
  BY DEF IInv, TypeOK, EditsNeedApproval, Propose
<1> HIDE DEF mem, stage, p, r
<1>9. QED BY <1>1, <1>2, <1>5, <1>6, <1>7, <1>8, NodeKeeps

LEMMA GateKeeps ==
  ASSUME IInv, NEW j \in Jobs, Gate(j)
  PROVE  IInv'
<1> DEFINE e == thread[job[j].run].state.plan.edits
<1>1. Busy(j) /\ job[j].kind \in {"start", "replan"}
  BY DEF Gate, At, Busy
<1>2. CASE e # "none"
  BY <1>1, <1>2, EndKeeps DEF Gate, Status, Active
<1>3. CASE e = "none" /\ job[j].kind = "replan"
  BY <1>1, <1>3, EndKeeps DEF Gate, Status, Terminal
<1>4. CASE e = "none" /\ job[j].kind # "replan"
  <2>1. /\ GoTo(j, "load") /\ "load" \in Stages /\ run' = run
        /\ UNCHANGED <<note, thread, art, calls, decided, control, approved, wrote, taint>>
    BY <1>4 DEF Gate, Stages
  <2>2. QED BY <1>1, <1>4, <2>1, StageKeeps
<1>5. QED BY <1>2, <1>3, <1>4

\* The only step that patches files: a re-plan may not, and a start job gets
\* here with a plan that edits nothing.
LEMMA ApplyKeeps ==
  ASSUME IInv, NEW j \in Jobs, Apply(j)
  PROVE  IInv'
<1> DEFINE r == job[j].run
           m == job[j].mem
           e == m.plan.edits
<1>1. /\ Busy(j) /\ job[j].at = "apply" /\ job[j].kind \in {"start", "resume", "replan"}
  BY DEF Apply, Free, Passes, Busy
<1>2. /\ r \in Runs /\ m \in Channels /\ m.plan \in Plans /\ m.plan.id \in Nat
      /\ m.notes \in SUBSET Guidance /\ job[j].box \in Nat
      /\ "tests" \in Nodes /\ "tests" \in Stages
  BY <1>1, JobTyped DEF Plans, Nodes, Stages
<1>3. /\ State(m.plan, TRUE, m.passed, m.notes) \in Channels
      /\ State(m.plan, FALSE, m.passed, m.notes) \in Channels
  BY <1>1, JobTyped, StateTyped
<1>4. CASE e = "forbidden" \/ (e = "some" /\ job[j].kind = "replan")
  BY <1>1, <1>4, EndKeeps DEF Apply, Status, Terminal
<1>5. CASE e = "some" /\ job[j].kind # "replan"
  <2>1. /\ Node(j, State(m.plan, TRUE, m.passed, m.notes), "tests", "tests", m.plan.id)
        /\ wrote' = [wrote EXCEPT ![r] = wrote[r] \cup {[plan |-> m.plan.id, notes |-> m.notes]}]
        /\ UNCHANGED <<run, note, art, calls, decided, control, approved, taint>>
    BY <1>5 DEF Apply
  <2>2. approved[r] # {}
    BY <1>1, <1>5 DEF IInv, Consent, NothingToApprove
  <2>3. [plan |-> m.plan.id, notes |-> m.notes] \in [plan : Nat, notes : SUBSET Guidance]
    BY <1>2
  <2> HIDE DEF r, m
  <2>4. /\ wrote' \in [Runs -> SUBSET [plan : Nat, notes : SUBSET Guidance]]
        /\ \A s \in Runs : wrote'[s] # {} => approved[s] # {}
    BY <1>2, <2>1, <2>2, <2>3 DEF IInv, TypeOK, EditsNeedApproval
  <2>5. art' \in [Runs -> [first : Nat, last : Nat, diff : Nat, inBox : Nat]]
    BY <2>1 DEF IInv, TypeOK
  <2>6. QED BY ZenonT(30), <1>1, <1>2, <1>3, <2>1, <2>4, <2>5, NodeKeeps
<1>6. CASE e # "forbidden" /\ e # "some"
  <2>1. /\ Node(j, State(m.plan, FALSE, m.passed, m.notes), "tests", "tests", job[j].box)
        /\ wrote' = wrote
        /\ UNCHANGED <<run, note, art, calls, decided, control, approved, taint>>
    BY <1>6 DEF Apply
  <2>2. /\ wrote' \in [Runs -> SUBSET [plan : Nat, notes : SUBSET Guidance]]
        /\ \A s \in Runs : wrote'[s] # {} => approved[s] # {}
        /\ art' \in [Runs -> [first : Nat, last : Nat, diff : Nat, inBox : Nat]]
    BY <2>1 DEF IInv, TypeOK, EditsNeedApproval
  <2> HIDE DEF r, m
  <2>3. QED BY <1>1, <1>2, <1>3, <2>1, <2>2, NodeKeeps
<1>7. QED BY <1>4, <1>5, <1>6

LEMMA TestsKeeps ==
  ASSUME IInv, NEW j \in Jobs, NEW ok \in BOOLEAN, Tests(j, ok)
  PROVE  IInv'
<1> DEFINE m == job[j].mem
           mem == State(m.plan, m.applied, ok, m.notes)
<1>1. Busy(j)
  BY DEF Tests, Free, Passes, Busy
<1>2. CASE job[j].kind = "replan"
  BY <1>1, <1>2, EndKeeps DEF Tests, Status, Terminal
<1>3. CASE job[j].kind # "replan"
  <2>1. /\ Node(j, mem, "diff", "diff", job[j].box)
        /\ UNCHANGED <<run, note, art, calls, decided, control, approved, wrote, taint>>
    BY <1>3 DEF Tests
  <2>2. mem \in Channels /\ job[j].box \in Nat /\ "diff" \in Nodes /\ "diff" \in Stages
    BY <1>1, JobTyped, StateTyped DEF Nodes, Stages
  <2>3. /\ art' \in [Runs -> [first : Nat, last : Nat, diff : Nat, inBox : Nat]]
        /\ wrote' \in [Runs -> SUBSET [plan : Nat, notes : SUBSET Guidance]]
        /\ \A r \in Runs : wrote'[r] # {} => approved[r] # {}
    BY <2>1 DEF IInv, TypeOK, EditsNeedApproval
  <2> HIDE DEF mem
  <2>4. QED BY <1>1, <2>1, <2>2, <2>3, NodeKeeps
<1>4. QED BY <1>2, <1>3

LEMMA DiffKeeps ==
  ASSUME IInv, NEW j \in Jobs, Diff(j)
  PROVE  IInv'
<1> DEFINE r == job[j].run
           mem == job[j].mem
           files == IF mem.applied THEN mem.plan.id ELSE 0
<1>1. Busy(j)
  BY DEF Diff, Free, Passes, Busy
<1>2. CASE job[j].kind = "replan"
  BY <1>1, <1>2, EndKeeps DEF Diff, Status, Terminal
<1>3. CASE job[j].kind # "replan"
  <2>1. /\ Node(j, mem, "summary", "summary", job[j].box)
        /\ art' = [art EXCEPT ![r] = Artifacts(art[r].first, art[r].last, files, job[j].box)]
        /\ UNCHANGED <<run, note, calls, decided, control, approved, wrote, taint>>
    BY <1>3 DEF Diff
  <2>2. /\ mem \in Channels /\ job[j].box \in Nat /\ files \in Nat /\ r \in Runs
        /\ "summary" \in Nodes /\ "summary" \in Stages
    BY <1>1, JobTyped DEF Nodes, Stages, Plans
  <2>3. Artifacts(art[r].first, art[r].last, files, job[j].box)
           \in [first : Nat, last : Nat, diff : Nat, inBox : Nat]
    <3> HIDE DEF files
    <3>1. QED BY <1>1, <2>2, JobTyped DEF Artifacts
  <2> HIDE DEF files, mem, r
  <2>4. art' \in [Runs -> [first : Nat, last : Nat, diff : Nat, inBox : Nat]]
    BY <2>1, <2>2, <2>3 DEF IInv, TypeOK
  <2>5. /\ wrote' \in [Runs -> SUBSET [plan : Nat, notes : SUBSET Guidance]]
        /\ \A s \in Runs : wrote'[s] # {} => approved[s] # {}
    BY <2>1 DEF IInv, TypeOK, EditsNeedApproval
  <2>6. QED BY <1>1, <2>1, <2>2, <2>4, <2>5, NodeKeeps
<1>4. QED BY <1>2, <1>3

LEMMA SummarizeKeeps ==
  ASSUME IInv, NEW j \in Jobs, Summarize(j)
  PROVE  IInv'
<1>1. Busy(j) /\ Node(j, job[j].mem, "end", "end", job[j].box)
  BY DEF Summarize, Busy
<1>2. /\ job[j].mem \in Channels /\ job[j].box \in Nat
      /\ "end" \in Nodes /\ "end" \in Stages
  BY <1>1, JobTyped DEF Nodes, Stages
<1>3. /\ art' \in [Runs -> [first : Nat, last : Nat, diff : Nat, inBox : Nat]]
      /\ wrote' \in [Runs -> SUBSET [plan : Nat, notes : SUBSET Guidance]]
      /\ \A r \in Runs : wrote'[r] # {} => approved[r] # {}
      /\ UNCHANGED <<run, note, calls, decided, control, approved, taint>>
  BY DEF IInv, TypeOK, Summarize, EditsNeedApproval
<1>4. QED BY <1>1, <1>2, <1>3, NodeKeeps

LEMMA FinalizeKeeps ==
  ASSUME IInv, NEW j \in Jobs, Finalize(j)
  PROVE  IInv'
<1>1. Busy(j)
  BY DEF Finalize, Busy
<1>2. CASE job[j].kind = "replan"
  <2>1. /\ GoTo(j, "gate") /\ "gate" \in Stages /\ run' = run
        /\ UNCHANGED <<note, thread, art, calls, decided, control, approved, wrote, taint>>
    BY <1>2 DEF Finalize, Stages
  <2>2. QED BY <1>1, <1>2, <2>1, StageKeeps
<1>3. CASE job[j].kind # "replan"
  <2>1. End(j, "FAILED") \/ End(j, "SUCCEEDED")
    BY <1>3 DEF Finalize
  <2>2. QED BY <1>1, <2>1, EndKeeps DEF Status, Terminal
<1>4. QED BY <1>2, <1>3

LEMMA RecheckKeeps ==
  ASSUME IInv, NEW j \in Jobs, Recheck(j)
  PROVE  IInv'
<1>1. Busy(j) /\ job[j].kind = "replan"
  BY DEF Recheck, At, Busy
<1>2. CASE Stopped(j)
  BY <1>1, <1>2, EndKeeps DEF Recheck, Status, Terminal
<1>3. CASE ~Stopped(j)
  <2>1. /\ GoTo(j, "rewind") /\ "rewind" \in Stages /\ run' = run
        /\ UNCHANGED <<note, thread, art, calls, decided, control, approved, wrote, taint>>
    BY <1>3 DEF Recheck, Stages
  <2>2. QED BY <1>1, <2>1, StageKeeps
<1>4. QED BY <1>2, <1>3

LEMMA RewindKeeps ==
  ASSUME IInv, NEW j \in Jobs, Rewind(j)
  PROVE  IInv'
<1>1. Busy(j) /\ job[j].kind = "replan" /\ Moved(j, job[j].kind, "load", job[j].mem, job[j].box)
  BY DEF Rewind, At, Busy, GoTo
<1>2. /\ job[j].kind \in Kinds /\ job[j].mem \in Channels /\ job[j].box \in Nat
      /\ "load" \in Stages /\ job[j].run \in Runs
  BY <1>1, JobTyped DEF Stages
<1>3. /\ thread' \in [Runs -> Thread]
      /\ \A r \in Runs : r # job[j].run => thread'[r] = thread[r]
  BY <1>2 DEF IInv, TypeOK, Rewind, Thread, Nodes
<1>4. /\ note' \in [Runs -> [Guidance -> {"NONE", "PENDING", "APPLIED"}]]
      /\ art' \in [Runs -> [first : Nat, last : Nat, diff : Nat, inBox : Nat]]
      /\ wrote' \in [Runs -> SUBSET [plan : Nat, notes : SUBSET Guidance]]
      /\ taint' \in [Runs -> SUBSET Marks]
      /\ \A r \in Runs : wrote'[r] # {} => approved[r] # {}
      /\ run' = run /\ UNCHANGED <<calls, decided, control, approved>>
  BY DEF IInv, TypeOK, EditsNeedApproval, Rewind
<1>5. QED BY <1>1, <1>2, <1>3, <1>4, MoveKeeps

LEMMA RejectKeeps ==
  ASSUME IInv, NEW j \in Jobs, Reject(j)
  PROVE  IInv'
BY EndKeeps DEF Reject, At, Busy, Status, Terminal

LEMMA ForkKeeps ==
  ASSUME IInv, NEW j \in Jobs, ForkCheck(j) \/ ForkCopy(j) \/ ForkPark(j)
  PROVE  IInv'
<1>1. Busy(j) /\ job[j].kind = "fork" /\ job[j].kind \in Kinds
  BY DEF ForkCheck, ForkCopy, ForkPark, At, Busy, Kinds
<1>2. CASE ForkCheck(j)
  <2>1. CASE End(j, "FAILED")
    BY <1>1, <2>1, EndKeeps DEF Status, Terminal
  <2>2. CASE ~End(j, "FAILED")
    <3>1. /\ GoTo(j, "copy") /\ "copy" \in Stages /\ run' = run
          /\ UNCHANGED <<note, thread, art, calls, decided, control, approved, wrote, taint>>
      BY <1>2, <2>2 DEF ForkCheck, Stages
    <3>2. QED BY <1>1, <3>1, StageKeeps
  <2>3. QED BY <2>1, <2>2
<1>3. CASE ForkCopy(j)
  <2>1. /\ Moved(j, job[j].kind, "park", job[j].mem, job[j].box) /\ "park" \in Stages
        /\ job[j].mem \in Channels /\ job[j].box \in Nat /\ job[j].run \in Runs
    BY <1>1, <1>3, JobTyped DEF ForkCopy, GoTo, Stages
  <2>2. run[job[j].run].source \in Runs
    BY <1>1 DEF IInv, Forked
  <2>3. /\ thread' \in [Runs -> Thread]
        /\ \A r \in Runs : r # job[j].run => thread'[r] = thread[r]
    BY <1>3, <2>1, <2>2 DEF IInv, TypeOK, ForkCopy, Thread
  <2>4. taint' \in [Runs -> SUBSET Marks]
    BY <1>3, <2>1 DEF IInv, TypeOK, ForkCopy, Tainted, When, Marks
  <2>5. /\ note' \in [Runs -> [Guidance -> {"NONE", "PENDING", "APPLIED"}]]
        /\ art' \in [Runs -> [first : Nat, last : Nat, diff : Nat, inBox : Nat]]
        /\ wrote' \in [Runs -> SUBSET [plan : Nat, notes : SUBSET Guidance]]
        /\ \A r \in Runs : wrote'[r] # {} => approved[r] # {}
        /\ run' = run /\ UNCHANGED <<calls, decided, control, approved>>
    BY <1>3 DEF IInv, TypeOK, EditsNeedApproval, ForkCopy
  <2>6. QED BY <1>1, <2>1, <2>3, <2>4, <2>5, MoveKeeps
<1>4. CASE ForkPark(j)
  BY <1>1, <1>4, EndKeeps DEF ForkPark, Status, Active
<1>5. QED BY <1>2, <1>3, <1>4

LEMMA ReviewRunKeeps ==
  ASSUME IInv, NEW j \in Jobs, ReviewRun(j)
  PROVE  IInv'
<1>1. Busy(j) /\ (End(j, "SUCCEEDED") \/ End(j, "FAILED"))
  BY DEF ReviewRun, At, Busy
<1>2. QED BY <1>1, EndKeeps DEF Status, Terminal

LEMMA BreakKeeps ==
  ASSUME IInv, NEW j \in Jobs, Break(j)
  PROVE  IInv'
<1>1. Busy(j) /\ job[j].run \in Runs
  BY JobTyped DEF Break, Busy
<1>2. CASE Dies(j)
  BY <1>1, <1>2, DiesKeeps
<1>3. CASE ~Dies(j)
  <2>1. /\ Became(job[j].run, "FAILED") /\ Over(j)
        /\ Tainted(job[j].run, When(job[j].at = "propose", "lost"))
        /\ UNCHANGED <<note, thread, art, calls, decided, control, approved, wrote>>
    BY <1>3 DEF Break
  <2>2. taint' \in [Runs -> SUBSET Marks]
    <3>1. When(job[j].at = "propose", "lost") \subseteq Marks
      BY DEF When, Marks
    <3>2. QED BY <1>1, <2>1, <3>1 DEF IInv, TypeOK, Tainted
  <2>3. QED BY <1>1, <2>1, <2>2, OverKeeps DEF Status, Terminal
<1>4. QED BY <1>2, <1>3

-----------------------------------------------------------------------------
(* What the web application and the endpoints do *)

\* The only step that makes a run: its row and the request that brings it up.
LEMMA InsertKeeps ==
  ASSUME IInv, NEW r \in Runs, NEW agent \in Agents, NEW t \in Tasks \cup Runs \cup {"none"},
         NEW source \in Runs \cup {"none"}, NEW op \in Creating,
         op = "fork" => source \in Runs,
         Insert(r, agent, t, source), Send(op, r)
  PROVE  IInv'
<1> DEFINE c0 == [op |-> op, run |-> r, handled |-> FALSE]
           row == [status |-> "QUEUED", agent |-> agent, task |-> t,
                   slot |-> TRUE, cancel |-> FALSE, source |-> source]
<1>1. /\ \A j \in Jobs : Busy(j) => job[j].run # r
      /\ \A c \in calls : c.run # r
  BY DEF IInv, Begun, Insert
<1>2. row \in Row /\ c0 \in Call
  BY DEF Row, Call, Status, Active, Creating
<1>3. /\ run' \in [Runs -> Row] /\ run'[r].status = "QUEUED" /\ run'[r].source = source
      /\ \A s \in Runs : s # r => run'[s] = run[s]
  BY <1>2 DEF IInv, TypeOK, Insert
<1>4. calls' = calls \cup {c0} /\ c0.run = r /\ c0.op = op
  BY DEF Send
<1>5. /\ UNCHANGED <<note, thread, art, job, decided, control, approved, wrote, taint>>
      /\ \A c \in calls : c.run \in Runs
      /\ \A j \in Jobs : Busy(j) => job[j].run \in Runs
      /\ \A j \in Jobs : job[j].kind = "fork" => Busy(j)
      /\ \A j \in Jobs : job[j].kind \in Creating => Busy(j)
  BY DEF IInv, TypeOK, Insert, Busy, Task, Idle, Call, Creating
<1> HIDE DEF c0, row
<1>6. TypeOK'
  BY <1>2, <1>3, <1>4, <1>5 DEF IInv, TypeOK
<1>7. Begun'
  BY <1>1, <1>3, <1>4, <1>5 DEF IInv, Begun, Busy
<1>8. Forked'
  <2>1. \A c \in calls' : c.op = "fork" => run'[c.run].source \in Runs
    BY <1>1, <1>3, <1>4, <1>5 DEF IInv, Forked
  <2>2. \A j \in Jobs : job'[j].kind = "fork" => run'[job'[j].run].source \in Runs
    BY <1>1, <1>3, <1>5 DEF IInv, Forked
  <2>3. QED BY <2>1, <2>2 DEF Forked
<1>9. Alone'
  <2>1. \A c, d \in calls' : Opening(c) /\ Opening(d) /\ c.run = d.run => c = d
    BY <1>1, <1>4, <1>5 DEF IInv, Alone
  <2>2. \A c \in calls' : Opening(c) =>
          /\ run'[c.run].status # "AWAITING_APPROVAL"
          /\ \A j \in Jobs : job'[j].kind # "idle" => job'[j].run # c.run
    BY <1>1, <1>3, <1>4, <1>5 DEF IInv, Alone, Busy
  <2>3. \A j \in Jobs : job'[j].kind \in Creating =>
          /\ run'[job'[j].run].status # "AWAITING_APPROVAL"
          /\ \A k \in Jobs : job'[k].kind # "idle" /\ job'[k].run = job'[j].run => k = j
    BY <1>1, <1>3, <1>5 DEF IInv, Alone, Busy
  <2>4. QED BY <2>1, <2>2, <2>3 DEF Alone, Opening, Busy, Creating
<1>10. Consent'
  BY <1>4, <1>5 DEF IInv, Consent, Creating
<1>11. NothingToApprove' /\ EditsNeedApproval'
  BY <1>5 DEF IInv, NothingToApprove, EditsNeedApproval
<1>12. QED BY <1>6, <1>7, <1>8, <1>9, <1>10, <1>11 DEF IInv

\* A request or a status that changes while no job moves and no run is made:
\* requests are only dropped, except that members may decide and redirect.
LEMMA RequestKeeps ==
  ASSUME IInv, NEW r \in Runs, run[r].status # "NONE",
         run' \in [Runs -> Row],
         \A s \in Runs : s # r => run'[s] = run[s],
         run'[r].source = run[r].source, run'[r].status # "NONE",
         run'[r].status = "AWAITING_APPROVAL" => run[r].status = "AWAITING_APPROVAL",
         calls' \subseteq Call,
         \A c \in calls' : c \in calls \/ (c.run = r /\ (Opening(c) => FALSE)
                             /\ c.op # "fork"
                             /\ (c.op = "approve" => approved'[r] # {})),
         note' \in [Runs -> [Guidance -> {"NONE", "PENDING", "APPLIED"}]],
         decided' \in [Runs -> Nat], control' \in [Controls -> {Unsent, Done} \cup Control],
         approved' \in [Runs -> SUBSET [plan : Nat, shown : Nat, asked : SUBSET Guidance]],
         \A s \in Runs : approved[s] \subseteq approved'[s],
         taint' \in [Runs -> SUBSET Marks],
         UNCHANGED <<thread, art, job, wrote>>
  PROVE  IInv'
<1>1. /\ \A c \in calls : c.run \in Runs
      /\ \A j \in Jobs : Busy(j) => job[j].run \in Runs
      /\ \A j \in Jobs : job[j].kind \in Kinds => Busy(j)
  BY DEF IInv, TypeOK, Busy, Task, Idle, Call, Kinds
<1>2. \A s \in Runs : /\ run'[s].source = run[s].source
                      /\ run'[s].status = "NONE" => run[s].status = "NONE" /\ s # r
                      /\ run'[s].status = "AWAITING_APPROVAL"
                           => run[s].status = "AWAITING_APPROVAL"
  OBVIOUS
<1>3. TypeOK'
  BY DEF IInv, TypeOK
<1>4. Begun'
  <2> SUFFICES ASSUME NEW s \in Runs, run'[s].status = "NONE"
               PROVE  /\ \A j \in Jobs : job'[j].kind # "idle" => job'[j].run # s
                      /\ \A c \in calls' : c.run # s
    BY DEF Begun, Busy
  <2>1. run[s].status = "NONE" /\ s # r
    BY <1>2
  <2>2. QED BY <2>1 DEF IInv, Begun, Busy
<1>5. Forked'
  <2>1. \A c \in calls' : c.op = "fork" => run'[c.run].source \in Runs
    BY <1>1, <1>2 DEF IInv, Forked
  <2>2. \A j \in Jobs : job'[j].kind = "fork" => run'[job'[j].run].source \in Runs
    BY <1>1, <1>2 DEF IInv, Forked, Kinds
  <2>3. QED BY <2>1, <2>2 DEF Forked
<1>6. Alone'
  <2>1. \A c, d \in calls' : Opening(c) /\ Opening(d) /\ c.run = d.run => c = d
    BY DEF IInv, Alone
  <2>2. \A c \in calls' : Opening(c) =>
          /\ run'[c.run].status # "AWAITING_APPROVAL"
          /\ \A j \in Jobs : job'[j].kind # "idle" => job'[j].run # c.run
    BY <1>1, <1>2 DEF IInv, Alone, Busy
  <2>3. \A j \in Jobs : job'[j].kind \in Creating =>
          /\ run'[job'[j].run].status # "AWAITING_APPROVAL"
          /\ \A k \in Jobs : job'[k].kind # "idle" /\ job'[k].run = job'[j].run => k = j
    BY <1>1, <1>2 DEF IInv, Alone, Busy, Creating, Kinds
  <2>4. QED BY <2>1, <2>2, <2>3 DEF Alone, Opening, Busy, Creating
<1>7. Consent'
  <2>1. \A c \in calls' : c.op = "approve" => approved'[c.run] # {}
    <3> SUFFICES ASSUME NEW c \in calls', c.op = "approve" PROVE approved'[c.run] # {}
      OBVIOUS
    <3>1. CASE c \in calls
      BY <3>1, <1>1 DEF IInv, Consent
    <3>2. CASE c \notin calls
      BY <3>2
    <3>3. QED BY <3>1, <3>2
  <2>2. \A j \in Jobs : job'[j].kind = "resume" => approved'[job'[j].run] # {}
    BY <1>1 DEF IInv, Consent, Kinds
  <2>3. QED BY <2>1, <2>2 DEF Consent
<1>8. NothingToApprove'
  BY DEF IInv, NothingToApprove
<1>9. EditsNeedApproval'
  BY DEF IInv, EditsNeedApproval
<1>10. QED BY <1>3, <1>4, <1>5, <1>6, <1>7, <1>8, <1>9 DEF IInv

LEMMA CreatedKeeps ==
  ASSUME IInv, NEW r \in Runs, NEW s \in Runs,
         (\E t \in Tasks : CreateRun(r, t)) \/ Fork(r, s) \/ Review(r, s)
  PROVE  IInv'
<1>1. run[s] \in Row
  BY DEF IInv, TypeOK
<1>2. CASE \E t \in Tasks : CreateRun(r, t)
  BY <1>2, InsertKeeps DEF CreateRun, Agents, Creating
<1>3. CASE Fork(r, s)
  <2>1. run[s].agent \in Agents
    BY <1>1 DEF Row
  <2>2. Insert(r, run[s].agent, r, s) /\ Send("fork", r) /\ s \in Runs
    BY <1>3 DEF Fork
  <2>3. QED BY <2>1, <2>2, InsertKeeps DEF Creating
<1>4. CASE Review(r, s)
  <2>1. run[s].task \in Tasks \cup Runs \cup {"none"}
    BY <1>1 DEF Row
  <2>2. Insert(r, "reviewer-agent", run[s].task, s) /\ Send("review", r)
    BY <1>4 DEF Review
  <2>3. QED BY <2>1, <2>2, InsertKeeps DEF Creating, Agents
<1>5. QED BY <1>2, <1>3, <1>4

LEMMA DroppedKeeps ==
  ASSUME IInv, NEW c \in calls, GiveUp(c) \/ Drop(c) \/ Answered(c)
  PROVE  IInv'
<1>1. c.run \in Runs /\ run[c.run].status # "NONE" /\ run[c.run] \in Row /\ calls \subseteq Call
  BY DEF IInv, TypeOK, Begun, Call
<1>2. CASE GiveUp(c)
  <2>1. /\ run' \in [Runs -> Row]
        /\ \A s \in Runs : s # c.run => run'[s] = run[s]
        /\ run'[c.run].source = run[c.run].source
        /\ run'[c.run].status = "FAILED"
    BY <1>1, <1>2 DEF IInv, TypeOK, GiveUp, Became, Updated, Row, Status, Terminal
  <2>2. taint' \in [Runs -> SUBSET Marks]
    BY <1>1, <1>2 DEF IInv, TypeOK, GiveUp, Tainted, When, Marks
  <2>3. calls' \subseteq calls /\ UNCHANGED <<note, thread, art, job, decided, control, approved, wrote>>
    BY <1>2 DEF GiveUp
  <2>4. /\ note' \in [Runs -> [Guidance -> {"NONE", "PENDING", "APPLIED"}]]
        /\ decided' \in [Runs -> Nat] /\ control' \in [Controls -> {Unsent, Done} \cup Control]
        /\ approved' \in [Runs -> SUBSET [plan : Nat, shown : Nat, asked : SUBSET Guidance]]
        /\ \A s \in Runs : approved[s] \subseteq approved'[s]
    BY <2>3 DEF IInv, TypeOK
  <2>5. \A d \in calls' : d \in calls
    BY <2>3
  <2>6. QED BY <1>1, <2>1, <2>2, <2>3, <2>4, <2>5, RequestKeeps
<1>3. CASE Drop(c) \/ Answered(c)
  <2>1. /\ calls' \subseteq calls
        /\ UNCHANGED <<run, note, thread, art, job, decided, control, approved, wrote, taint>>
    BY <1>3 DEF Drop, Answered
  <2>2. /\ run' \in [Runs -> Row]
        /\ note' \in [Runs -> [Guidance -> {"NONE", "PENDING", "APPLIED"}]]
        /\ decided' \in [Runs -> Nat] /\ control' \in [Controls -> {Unsent, Done} \cup Control]
        /\ approved' \in [Runs -> SUBSET [plan : Nat, shown : Nat, asked : SUBSET Guidance]]
        /\ taint' \in [Runs -> SUBSET Marks]
        /\ \A s \in Runs : approved[s] \subseteq approved'[s]
    BY <2>1 DEF IInv, TypeOK
  <2>3. \A d \in calls' : d \in calls
    BY <2>1
  <2>4. QED BY <1>1, <2>1, <2>2, <2>3, RequestKeeps
<1>4. QED BY <1>2, <1>3

LEMMA DecideKeeps ==
  ASSUME IInv, NEW r \in Runs, NEW op \in {"approve", "reject"}, Decide(r, op)
  PROVE  IInv'
<1> DEFINE c0 == [op |-> op, run |-> r, handled |-> FALSE]
           a0 == [plan |-> thread[r].state.plan.id, shown |-> art[r].first, asked |-> Asked(r)]
<1>1. c0 \in Call /\ c0.run = r /\ c0.op = op /\ ~(Opening(c0))
  BY DEF Call, Opening, Creating
<1>2. a0 \in [plan : Nat, shown : Nat, asked : SUBSET Guidance]
  <2>1. thread[r].state.plan.id \in Nat
    BY DEF IInv, TypeOK, Channels, Plans
  <2>2. art[r].first \in Nat
    BY DEF IInv, TypeOK
  <2>3. QED BY <2>1, <2>2 DEF Asked
<1>3. /\ UNCHANGED <<run, note, thread, art, job, control, wrote, taint>>
      /\ run[r].status = "AWAITING_APPROVAL"
      /\ decided' = [decided EXCEPT ![r] = decided[r] + 1]
      /\ approved' = IF op = "approve" THEN [approved EXCEPT ![r] = approved[r] \cup {a0}]
                                       ELSE approved
      /\ calls' = calls \cup {c0}
  BY DEF Decide, Send
<1> HIDE DEF c0, a0
<1>4. /\ approved' \in [Runs -> SUBSET [plan : Nat, shown : Nat, asked : SUBSET Guidance]]
      /\ \A s \in Runs : approved[s] \subseteq approved'[s]
      /\ op = "approve" => approved'[r] # {}
  <2>1. CASE op = "approve"
    <3>1. approved' = [approved EXCEPT ![r] = approved[r] \cup {a0}]
      BY <1>3, <2>1
    <3>2. approved \in [Runs -> SUBSET [plan : Nat, shown : Nat, asked : SUBSET Guidance]]
      BY DEF IInv, TypeOK
    <3>3. QED BY <1>2, <3>1, <3>2
  <2>2. CASE op # "approve"
    BY <1>3, <2>2 DEF IInv, TypeOK
  <2>3. QED BY <2>1, <2>2
<1>5. /\ run' \in [Runs -> Row]
      /\ note' \in [Runs -> [Guidance -> {"NONE", "PENDING", "APPLIED"}]]
      /\ decided' \in [Runs -> Nat] /\ control' \in [Controls -> {Unsent, Done} \cup Control]
      /\ taint' \in [Runs -> SUBSET Marks]
      /\ calls' \subseteq Call
  BY <1>1, <1>3 DEF IInv, TypeOK
<1>6. \A c \in calls' : c \in calls \/ (c.run = r /\ (Opening(c) => FALSE)
                             /\ c.op # "fork"
                             /\ (c.op = "approve" => approved'[r] # {}))
  BY <1>1, <1>3, <1>4
<1>7. QED BY <1>3, <1>4, <1>5, <1>6, RequestKeeps

\* What a cancel or redirect transaction that is about to write holds.
LEMMA ControlTyped ==
  ASSUME IInv, Seen, NEW m \in Controls, NEW op \in {"cancel", "redirect"}, Written(m, op)
  PROVE  /\ control[m] \in Control /\ control[m].run \in Runs
         /\ run[control[m].run].status # "NONE"
         /\ control' \in [Controls -> {Unsent, Done} \cup Control]
         /\ \A n \in Controls : control'[n] = control[n] \/ control'[n] = Done
<1>1. control[m] \in Control
  BY DEF IInv, TypeOK, Written, Unsent, Done
<1>2. control' = [control EXCEPT ![m] = Done]
  BY DEF Written
<1>3. /\ control' \in [Controls -> {Unsent, Done} \cup Control]
      /\ \A n \in Controls : control'[n] = control[n] \/ control'[n] = Done
  BY <1>2 DEF IInv, TypeOK
<1>4. control[m].run \in Runs
  BY <1>1 DEF Control
<1>5. QED BY <1>1, <1>3, <1>4 DEF Seen

LEMMA ReadKeeps ==
  ASSUME IInv, NEW r \in Runs, NEW m \in Controls, NEW op \in {"cancel", "redirect"},
         Read(m, op, r)
  PROVE  IInv'
<1> DEFINE x == [op |-> op, run |-> r, atGate |-> run[r].status = "AWAITING_APPROVAL"]
<1>1. x \in Control
  BY DEF Control
<1>2. /\ control' = [control EXCEPT ![m] = x] /\ run[r].status # "NONE"
      /\ UNCHANGED <<run, note, thread, art, job, calls, decided, approved, wrote, taint>>
  BY DEF Read, Active
<1> HIDE DEF x
<1>3. control' \in [Controls -> {Unsent, Done} \cup Control]
  BY <1>1, <1>2 DEF IInv, TypeOK
<1>4. /\ run' \in [Runs -> Row]
      /\ note' \in [Runs -> [Guidance -> {"NONE", "PENDING", "APPLIED"}]]
      /\ decided' \in [Runs -> Nat]
      /\ approved' \in [Runs -> SUBSET [plan : Nat, shown : Nat, asked : SUBSET Guidance]]
      /\ taint' \in [Runs -> SUBSET Marks]
      /\ calls' \subseteq Call
      /\ \A c \in calls' : c \in calls
      /\ \A s \in Runs : approved[s] \subseteq approved'[s]
  BY <1>2 DEF IInv, TypeOK
<1>5. QED BY <1>2, <1>3, <1>4, RequestKeeps

LEMMA CancelCommitKeeps ==
  ASSUME IInv, Seen, NEW m \in Controls, CancelCommit(m)
  PROVE  IInv'
<1>0. PICK r \in Runs : r = control[m].run
  BY ControlTyped DEF CancelCommit
<1> DEFINE gone == Updated(r, "CANCELLED", FALSE, TRUE)
           asked == Updated(r, run[r].status, run[r].slot, TRUE)
           marks == When(Live(r) # {}, "overlap")
                      \cup When(run[r].status \in Terminal \ {"CANCELLED"}, "overtaken")
<1>1. /\ run[r].status # "NONE" /\ run[r] \in Row
      /\ control' \in [Controls -> {Unsent, Done} \cup Control]
  BY <1>0, ControlTyped DEF CancelCommit, IInv, TypeOK
<1>2. /\ gone \in Row /\ gone.status = "CANCELLED" /\ gone.source = run[r].source
      /\ asked \in Row /\ asked.status = run[r].status /\ asked.source = run[r].source
  BY <1>1 DEF Updated, Row, Status, Terminal
<1>3. marks \subseteq Marks
  BY DEF When, Marks
<1>4. /\ UNCHANGED <<note, thread, art, job, calls, decided, approved, wrote>>
      /\ \/ run' = [run EXCEPT ![r] = gone] /\ Tainted(r, marks)
         \/ run' = [run EXCEPT ![r] = asked] /\ taint' = taint
  BY <1>0 DEF CancelCommit
<1> HIDE DEF gone, asked, marks
<1>5. /\ run' \in [Runs -> Row]
      /\ \A s \in Runs : s # r => run'[s] = run[s]
      /\ run'[r].source = run[r].source
      /\ run'[r].status # "NONE"
      /\ run'[r].status = "AWAITING_APPROVAL" => run[r].status = "AWAITING_APPROVAL"
  <2>1. PICK x \in Row : /\ run' = [run EXCEPT ![r] = x] /\ x.source = run[r].source
                         /\ x.status \in {"CANCELLED", run[r].status}
    BY <1>1, <1>2, <1>4
  <2>2. run \in [Runs -> Row] /\ run'[r] = x
    BY <1>1, <2>1 DEF IInv, TypeOK
  <2>3. QED BY <1>1, <2>1, <2>2
<1>6. taint' \in [Runs -> SUBSET Marks]
  BY <1>1, <1>3, <1>4 DEF IInv, TypeOK, Tainted
<1>7. /\ note' \in [Runs -> [Guidance -> {"NONE", "PENDING", "APPLIED"}]]
      /\ decided' \in [Runs -> Nat]
      /\ approved' \in [Runs -> SUBSET [plan : Nat, shown : Nat, asked : SUBSET Guidance]]
      /\ \A s \in Runs : approved[s] \subseteq approved'[s]
      /\ calls' \subseteq Call
      /\ \A c \in calls' : c \in calls
  BY <1>4 DEF IInv, TypeOK
<1>8. UNCHANGED <<thread, art, job, wrote>>
  BY <1>4
<1>9. QED BY <1>1, <1>5, <1>6, <1>7, <1>8, RequestKeeps

LEMMA RedirectCommitKeeps ==
  ASSUME IInv, Seen, NEW m \in Controls, NEW g \in Guidance, RedirectCommit(m, g)
  PROVE  IInv'
<1>0. PICK r \in Runs : r = control[m].run
  BY ControlTyped DEF RedirectCommit
<1> DEFINE c0 == [op |-> "redirect", run |-> r, handled |-> FALSE]
           again == Updated(r, "RUNNING", run[r].slot, run[r].cancel)
           marks == {"gateRedirect"} \cup When(run[r].status \in Terminal, "overtaken")
<1>1. /\ run[r].status # "NONE" /\ run[r] \in Row
      /\ control' \in [Controls -> {Unsent, Done} \cup Control]
  BY <1>0, ControlTyped DEF RedirectCommit, IInv, TypeOK
<1>2. c0 \in Call /\ c0.run = r /\ c0.op = "redirect" /\ ~(Opening(c0))
  BY <1>1 DEF Call, Opening, Creating
<1>3. /\ again \in Row /\ again.status = "RUNNING" /\ again.source = run[r].source
      /\ marks \subseteq Marks
  BY <1>1 DEF Updated, Row, Status, Active, When, Marks
<1>4. /\ UNCHANGED <<thread, art, job, decided, approved, wrote>>
      /\ calls' = calls \cup {c0}
      /\ note' = [note EXCEPT ![r] = [note[r] EXCEPT ![g] = "PENDING"]]
      /\ \/ run' = run /\ taint' = taint
         \/ run' = [run EXCEPT ![r] = again] /\ Tainted(r, marks)
  BY <1>0 DEF RedirectCommit, Recorded, Send, Replanning, Became, Terminal
<1> HIDE DEF c0, again, marks
<1>5. /\ run' \in [Runs -> Row]
      /\ \A s \in Runs : s # r => run'[s] = run[s]
      /\ run'[r].source = run[r].source
      /\ run'[r].status # "NONE"
      /\ run'[r].status = "AWAITING_APPROVAL" => run[r].status = "AWAITING_APPROVAL"
  <2>1. run \in [Runs -> Row]
    BY DEF IInv, TypeOK
  <2>2. CASE run' = run
    BY <1>1, <2>1, <2>2
  <2>3. CASE run' = [run EXCEPT ![r] = again]
    BY <1>1, <1>3, <2>1, <2>3
  <2>4. QED BY <1>4, <2>2, <2>3
<1>6. taint' \in [Runs -> SUBSET Marks]
  <2>1. taint \in [Runs -> SUBSET Marks]
    BY DEF IInv, TypeOK
  <2>2. taint' = taint \/ taint' = [taint EXCEPT ![r] = taint[r] \cup marks]
    BY <1>4 DEF Tainted
  <2>3. QED BY <1>1, <1>3, <2>1, <2>2
<1>7. note' \in [Runs -> [Guidance -> {"NONE", "PENDING", "APPLIED"}]]
  <2>1. note[r] \in [Guidance -> {"NONE", "PENDING", "APPLIED"}]
    BY <1>1 DEF IInv, TypeOK
  <2>2. [note[r] EXCEPT ![g] = "PENDING"] \in [Guidance -> {"NONE", "PENDING", "APPLIED"}]
    BY <2>1
  <2>3. QED BY <1>1, <1>4, <2>2 DEF IInv, TypeOK
<1>8. /\ decided' \in [Runs -> Nat]
      /\ approved' \in [Runs -> SUBSET [plan : Nat, shown : Nat, asked : SUBSET Guidance]]
      /\ \A s \in Runs : approved[s] \subseteq approved'[s]
      /\ calls' \subseteq Call
  BY <1>2, <1>4 DEF IInv, TypeOK
<1>9. \A c \in calls' : c \in calls \/ (c.run = r /\ (Opening(c) => FALSE)
                             /\ c.op # "fork"
                             /\ (c.op = "approve" => approved'[r] # {}))
  BY <1>2, <1>4
<1>10. UNCHANGED <<thread, art, job, wrote>>
  BY <1>4
<1>11. QED BY <1>1, <1>5, <1>6, <1>7, <1>8, <1>9, <1>10, RequestKeeps

\* A request the runtime takes: it is gone, or kept only for its answer.
LEMMA TakenCall ==
  ASSUME IInv, NEW c \in calls, ~c.handled, Handled(c)
  PROVE  /\ calls' \subseteq Call
         /\ \A d \in calls' : \/ d \in calls /\ d # c
                              \/ d.run = c.run /\ d.op = c.op /\ d.handled /\ c.op \in Creating
<1> DEFINE c1 == [op |-> c.op, run |-> c.run, handled |-> TRUE]
<1>1. c \in Call /\ calls \subseteq Call
  BY DEF IInv, TypeOK
<1>3. c1 \in Call /\ c1.run = c.run /\ c1.op = c.op
  BY <1>1 DEF Call
<1>4. c1.handled
  <2>1. c1.handled = TRUE
    OBVIOUS
  <2>2. QED BY <2>1, Zenon
<1> HIDE DEF c1
<1>5. CASE c.op \in Creating
  <2>1. calls' = (calls \ {c}) \cup {c1}
    BY <1>5 DEF Handled, c1
  <2>2. calls' \subseteq Call
    <3>1. c1 \in Call
      BY <1>3
    <3>2. QED BY <1>1, <2>1, <3>1
  <2>3. ASSUME NEW d \in calls'
        PROVE  \/ d \in calls /\ d # c
               \/ d.run = c.run /\ d.op = c.op /\ d.handled /\ c.op \in Creating
    <3>1. CASE d = c1
      BY <1>3, <1>4, <1>5, <3>1, Zenon
    <3>2. CASE d # c1
      BY <2>1, <3>2
    <3>3. QED BY <3>1, <3>2
  <2>4. QED BY <2>2, <2>3
<1>6. CASE c.op \notin Creating
  <2>1. calls' = calls \ {c}
    BY <1>6 DEF Handled
  <2>2. QED BY <1>1, <2>1
<1>7. QED BY <1>5, <1>6

LEMMA RefuseKeeps ==
  ASSUME IInv, NEW c \in calls, ~c.handled, Refuse(c),
         run' = run \/ (c.op = "start" /\ Became(c.run, "FAILED"))
  PROVE  IInv'
<1>1. c.run \in Runs /\ run[c.run].status # "NONE" /\ run[c.run] \in Row
  BY DEF IInv, TypeOK, Begun, Call
<1>2. /\ run' \in [Runs -> Row]
      /\ \A s \in Runs : s # c.run => run'[s] = run[s]
      /\ \A s \in Runs : run'[s].source = run[s].source
      /\ \A s \in Runs : run'[s].status = run[s].status \/ run'[s].status = "FAILED"
  <2>1. CASE run' = run
    BY <2>1 DEF IInv, TypeOK
  <2>2. CASE Became(c.run, "FAILED")
    <3>1. run' = [run EXCEPT ![c.run] = Updated(c.run, "FAILED", FALSE, run[c.run].cancel)]
      BY <2>2 DEF Became, Terminal
    <3>2. Updated(c.run, "FAILED", FALSE, run[c.run].cancel) \in Row
      BY <1>1 DEF Updated, Row, Status, Terminal
    <3>3. QED BY <1>1, <3>1, <3>2 DEF IInv, TypeOK, Updated
  <2>3. QED BY <2>1, <2>2
<1>3. /\ UNCHANGED <<note, thread, art, job, decided, control, approved, wrote, taint>>
      /\ Handled(c)
  BY DEF Refuse
<1>4. /\ \A d \in calls : d.run \in Runs
      /\ \A j \in Jobs : Busy(j) => job[j].run \in Runs
      /\ \A j \in Jobs : job[j].kind \in Kinds => Busy(j)
  BY DEF IInv, TypeOK, Busy, Task, Idle, Call, Kinds
<1>5. \A d \in calls' : \/ d \in calls /\ d # c
                        \/ d.run = c.run /\ d.op = c.op /\ d.handled /\ c.op \in Creating
  BY <1>3, TakenCall
<1>6. TypeOK'
  BY <1>2, <1>3, TakenCall DEF IInv, TypeOK
<1>7. Begun'
  <2> SUFFICES ASSUME NEW s \in Runs, run'[s].status = "NONE"
               PROVE  /\ \A j \in Jobs : job'[j].kind # "idle" => job'[j].run # s
                      /\ \A d \in calls' : d.run # s
    BY DEF Begun, Busy
  <2>1. run[s].status = "NONE"
    BY <1>2
  <2>2. QED BY <1>3, <1>5, <2>1 DEF IInv, Begun, Busy
<1>8. Forked'
  <2>1. \A d \in calls' : d.op = "fork" => run'[d.run].source \in Runs
    BY <1>1, <1>2, <1>4, <1>5 DEF IInv, Forked
  <2>2. \A j \in Jobs : job'[j].kind = "fork" => run'[job'[j].run].source \in Runs
    BY <1>2, <1>3, <1>4 DEF IInv, Forked, Kinds
  <2>3. QED BY <2>1, <2>2 DEF Forked
<1>9. Alone'
  <2>1. \A d, e \in calls' : Opening(d) /\ Opening(e) /\ d.run = e.run => d = e
    BY <1>5 DEF IInv, Alone, Opening
  <2>2. \A d \in calls' : Opening(d) =>
          /\ run'[d.run].status # "AWAITING_APPROVAL"
          /\ \A j \in Jobs : job'[j].kind # "idle" => job'[j].run # d.run
    BY <1>2, <1>3, <1>4, <1>5 DEF IInv, Alone, Busy, Opening
  <2>3. \A j \in Jobs : job'[j].kind \in Creating =>
          /\ run'[job'[j].run].status # "AWAITING_APPROVAL"
          /\ \A k \in Jobs : job'[k].kind # "idle" /\ job'[k].run = job'[j].run => k = j
    BY <1>2, <1>3, <1>4 DEF IInv, Alone, Busy, Creating, Kinds
  <2>4. QED BY <2>1, <2>2, <2>3 DEF Alone, Opening, Busy, Creating
<1>10. Consent'
  BY <1>3, <1>5 DEF IInv, Consent, Creating
<1>11. NothingToApprove' /\ EditsNeedApproval'
  BY <1>3 DEF IInv, NothingToApprove, EditsNeedApproval
<1>12. QED BY <1>6, <1>7, <1>8, <1>9, <1>10, <1>11 DEF IInv

\* A request that becomes a job: one that creates a run is that run's only one,
\* any other found the run at the gate, where nothing that creates it is left.
LEMMA ScheduleKeeps ==
  ASSUME IInv, NEW c \in calls, ~c.handled, NEW kind \in Kinds, NEW at \in Stages,
         Schedule(c, kind, at),
         at \notin {"load", "apply"},
         kind \in Creating => c.op = kind,
         kind \notin Creating => run[c.run].status = "AWAITING_APPROVAL",
         kind = "resume" => c.op = "approve"
  PROVE  IInv'
<1>1. c.run \in Runs /\ run[c.run].status # "NONE" /\ c \in Call
  BY DEF IInv, TypeOK, Begun, Call
<1>2. PICK i \in Jobs :
         /\ job[i].kind = "idle"
         /\ job' = [job EXCEPT ![i] = [kind |-> kind, run |-> c.run, at |-> at,
                                       mem |-> Empty, box |-> 0]]
  BY DEF Schedule
<1>3. [kind |-> kind, run |-> c.run, at |-> at, mem |-> Empty, box |-> 0] \in Task
  BY <1>1 DEF Task, Empty, Channels, NoPlan, Plans, Edits
<1>4. /\ job' \in [Jobs -> {Idle} \cup Task]
      /\ job'[i].kind = kind /\ job'[i].run = c.run /\ job'[i].at = at
      /\ \A k \in Jobs : k # i => job'[k] = job[k]
  BY <1>2, <1>3 DEF IInv, TypeOK
<1>5. /\ UNCHANGED <<run, note, thread, art, decided, control, approved, wrote>>
      /\ Handled(c)
  BY DEF Schedule
<1>6. /\ \A d \in calls : d.run \in Runs
      /\ \A j \in Jobs : Busy(j) => job[j].run \in Runs
      /\ \A j \in Jobs : job[j].kind \in Kinds => Busy(j)
      /\ kind # "idle"
  BY DEF IInv, TypeOK, Busy, Task, Idle, Call, Kinds
<1>7. \A d \in calls' : \/ d \in calls /\ d # c
                        \/ d.run = c.run /\ d.op = c.op /\ d.handled /\ c.op \in Creating
  BY <1>5, TakenCall
<1>8. TypeOK'
  <2>1. taint' \in [Runs -> SUBSET Marks]
    <3>1. Tainted(c.run, When(Live(c.run) # {} \/ run[c.run].status \in Terminal, "overlap"))
      BY DEF Schedule
    <3>2. When(Live(c.run) # {} \/ run[c.run].status \in Terminal, "overlap") \subseteq {"overlap"}
      BY DEF When
    <3>3. QED BY <1>1, <3>1, <3>2 DEF IInv, TypeOK, Tainted, Marks
  <2>2. calls' \subseteq Call
    BY <1>5, TakenCall
  <2>3. QED BY <1>4, <1>5, <2>1, <2>2 DEF IInv, TypeOK
<1>9. Begun'
  <2>1. \A s \in Runs : run[s].status = "NONE" =>
          /\ \A j \in Jobs : job'[j].kind # "idle" => job'[j].run # s
          /\ \A d \in calls' : d.run # s
    BY <1>1, <1>4, <1>7 DEF IInv, Begun, Busy
  <2>2. QED BY <1>5, <2>1 DEF Begun, Busy
<1>10. Forked'
  <2>1. \A d \in calls' : d.op = "fork" => run[d.run].source \in Runs
    BY <1>7 DEF IInv, Forked
  <2>2. \A j \in Jobs : job'[j].kind = "fork" => run[job'[j].run].source \in Runs
    BY <1>4 DEF IInv, Forked, Creating
  <2>3. QED BY <1>5, <2>1, <2>2 DEF Forked
<1>11. Alone'
  <2>1. \A d, e \in calls' : Opening(d) /\ Opening(e) /\ d.run = e.run => d = e
    BY <1>7 DEF IInv, Alone, Opening
  <2>2. \A d \in calls' : Opening(d) => d.run # c.run
    <3>1. CASE kind \in Creating
      BY <1>7, <3>1 DEF IInv, Alone, Opening
    <3>2. CASE kind \notin Creating
      BY <1>7, <3>2 DEF IInv, Alone, Opening
    <3>3. QED BY <3>1, <3>2
  <2>3. \A d \in calls' : Opening(d) =>
          /\ run[d.run].status # "AWAITING_APPROVAL"
          /\ \A j \in Jobs : job'[j].kind # "idle" => job'[j].run # d.run
    BY <1>4, <1>7, <2>2 DEF IInv, Alone, Busy, Opening
  <2>4. \A j \in Jobs : job'[j].kind \in Creating =>
          /\ run[job'[j].run].status # "AWAITING_APPROVAL"
          /\ \A k \in Jobs : job'[k].kind # "idle" /\ job'[k].run = job'[j].run => k = j
    <3>1. CASE kind \in Creating
      <4>1. Opening(c)
        BY <3>1 DEF Opening
      <4>2. /\ run[c.run].status # "AWAITING_APPROVAL"
            /\ \A j \in Jobs : Busy(j) => job[j].run # c.run
        BY <4>1 DEF IInv, Alone
      <4>3. \A j \in Jobs : job[j].kind \in Creating =>
          /\ run[job[j].run].status # "AWAITING_APPROVAL"
          /\ \A k \in Jobs : job[k].kind # "idle" /\ job[k].run = job[j].run => k = j
        BY DEF IInv, Alone, Busy
      <4>4. QED BY <1>4, <1>6, <4>2, <4>3 DEF Busy, Creating, Kinds
    <3>2. CASE kind \notin Creating
      <4>1. run[c.run].status = "AWAITING_APPROVAL"
        BY <3>2
      <4>2. \A j \in Jobs : job[j].kind \in Creating =>
          /\ run[job[j].run].status # "AWAITING_APPROVAL"
          /\ \A k \in Jobs : job[k].kind # "idle" /\ job[k].run = job[j].run => k = j
        BY DEF IInv, Alone, Busy
      <4>3. QED BY <1>4, <3>2, <4>1, <4>2
    <3>3. QED BY <3>1, <3>2
  <2>5. QED BY <1>5, <2>1, <2>3, <2>4 DEF Alone, Opening, Busy, Creating
<1>12. Consent'
  <2>1. \A d \in calls' : d.op = "approve" => approved[d.run] # {}
    BY <1>7 DEF IInv, Consent, Creating
  <2>2. \A j \in Jobs : job'[j].kind = "resume" => approved[job'[j].run] # {}
    BY <1>4 DEF IInv, Consent
  <2>3. QED BY <1>5, <2>1, <2>2 DEF Consent
<1>13. NothingToApprove'
  BY <1>4, <1>5 DEF IInv, NothingToApprove
<1>14. EditsNeedApproval'
  BY <1>5 DEF IInv, EditsNeedApproval
<1>15. QED BY <1>8, <1>9, <1>10, <1>11, <1>12, <1>13, <1>14 DEF IInv
LEMMA EndpointKeeps ==
  ASSUME IInv, NEW c \in calls, Endpoint(c)
  PROVE  IInv'
<1>1. ~c.handled /\ c \in Call
  BY DEF IInv, TypeOK, Endpoint
<1>2. CASE StartEndpoint(c)
  <2>1. CASE Schedule(c, "start", "begin")
    <3>1. c.op = "start"
      BY <1>2 DEF StartEndpoint
    <3>2. QED BY <1>1, <2>1, <3>1, ScheduleKeeps DEF Kinds, Stages, Creating
  <2>2. CASE Refuse(c) /\ Became(c.run, "FAILED")
    BY <1>1, <1>2, <2>2, RefuseKeeps DEF StartEndpoint
  <2>3. QED BY <1>2, <2>1, <2>2 DEF StartEndpoint
<1>3. CASE DecisionEndpoint(c)
  <2>1. CASE run[c.run].status # "AWAITING_APPROVAL"
    BY <1>1, <1>3, <2>1, RefuseKeeps DEF DecisionEndpoint
  <2>2. CASE run[c.run].status = "AWAITING_APPROVAL" /\ c.op = "approve"
    BY <1>1, <1>3, <2>2, ScheduleKeeps DEF DecisionEndpoint, Kinds, Stages, Creating
  <2>3. CASE run[c.run].status = "AWAITING_APPROVAL" /\ c.op # "approve"
    BY <1>1, <1>3, <2>3, ScheduleKeeps DEF DecisionEndpoint, Kinds, Stages, Creating
  <2>4. QED BY <2>1, <2>2, <2>3
<1>4. CASE RedirectEndpoint(c)
  <2>1. CASE run[c.run].status # "AWAITING_APPROVAL"
    BY <1>1, <1>4, <2>1, RefuseKeeps DEF RedirectEndpoint
  <2>2. CASE run[c.run].status = "AWAITING_APPROVAL"
    BY <1>1, <1>4, <2>2, ScheduleKeeps DEF RedirectEndpoint, Kinds, Stages, Creating
  <2>3. QED BY <2>1, <2>2
<1>5. CASE CopyEndpoint(c)
  BY <1>1, <1>5, ScheduleKeeps DEF CopyEndpoint, Kinds, Stages, Creating
<1>6. CASE ReviewEndpoint(c)
  BY <1>1, <1>6, ScheduleKeeps DEF ReviewEndpoint, Kinds, Stages, Creating
<1>7. QED BY <1>2, <1>3, <1>4, <1>5, <1>6 DEF Endpoint

LEMMA RestartKeeps ==
  ASSUME IInv, Restart
  PROVE  IInv'
<1>1. /\ \A j \in Jobs : job'[j] = Idle
      /\ calls' \subseteq calls
      /\ UNCHANGED <<run, note, thread, art, decided, control, approved, wrote>>
  BY DEF Restart
<1>2. TypeOK'
  <2>1. job' \in [Jobs -> {Idle} \cup Task]
    BY DEF Restart
  <2>2. taint' \in [Runs -> SUBSET Marks]
    <3>1. \A r \in Runs : When(Live(r) # {}, "died")
             \cup When(\E j \in Live(r) : job[j].at = "propose", "lost") \subseteq Marks
      BY DEF When, Marks
    <3>2. QED BY <3>1 DEF Restart, IInv, TypeOK
  <2>3. QED BY <1>1, <2>1, <2>2 DEF IInv, TypeOK
<1>3. Begun' /\ Forked' /\ Consent' /\ NothingToApprove' /\ EditsNeedApproval'
  BY <1>1 DEF IInv, Begun, Forked, Consent, NothingToApprove, EditsNeedApproval, Busy, Idle
<1>4. Alone'
  BY <1>1 DEF IInv, Alone, Busy, Idle, Opening, Creating
<1>5. QED BY <1>2, <1>3, <1>4 DEF IInv

-----------------------------------------------------------------------------
(* The theorems *)

LEMMA InitKeeps == ASSUME Init PROVE IInv
<1>1. NoRow \in Row /\ Empty \in Channels /\ NoRow.status = "NONE"
  BY DEF NoRow, Row, Status, Agents, Empty, Channels, NoPlan, Plans, Edits
<1>2. TypeOK
  BY <1>1 DEF Init, TypeOK, Nodes
<1>3. Begun /\ Forked /\ Alone /\ Consent /\ NothingToApprove /\ EditsNeedApproval
  BY DEF Init, Begun, Forked, Alone, Consent, NothingToApprove, EditsNeedApproval, Busy, Idle,
         Creating
<1>4. QED BY <1>2, <1>3 DEF IInv

LEMMA NodesKeep == ASSUME IInv, NEW j \in Jobs, GraphNode(j) PROVE IInv'
<1>1. CASE \E stage \in {"inspect", "plan", "apply", "tests", "diff"} : Checkpoint(j, stage)
  BY <1>1, CheckpointKeeps
<1>2. CASE Load(j) \/ Steered(j) \/ Inspect(j) \/ Claim(j)
  BY <1>2, LoadKeeps, SteeredKeeps, InspectKeeps, ClaimKeeps
<1>3. CASE (\E e \in Edits : Propose(j, e)) \/ Apply(j)
  BY <1>3, ProposeKeeps, ApplyKeeps
<1>4. CASE (\E ok \in BOOLEAN : Tests(j, ok)) \/ Diff(j) \/ Summarize(j)
  BY <1>4, TestsKeeps, DiffKeeps, SummarizeKeeps
<1>5. QED BY <1>1, <1>2, <1>3, <1>4 DEF GraphNode

LEMMA JobKeeps == ASSUME IInv, NEW j \in Jobs, JobStep(j) PROVE IInv'
<1>1. CASE GraphNode(j)
  BY <1>1, NodesKeep
<1>2. CASE Begin(j) \/ Prepare(j) \/ Gate(j) \/ Finalize(j)
  BY <1>2, BeginKeeps, PrepareKeeps, GateKeeps, FinalizeKeeps
<1>3. CASE Recheck(j) \/ Rewind(j) \/ Reject(j)
  BY <1>3, RecheckKeeps, RewindKeeps, RejectKeeps
<1>4. CASE ForkCheck(j) \/ ForkCopy(j) \/ ForkPark(j) \/ ReviewRun(j)
  BY <1>4, ForkKeeps, ReviewRunKeeps
<1>5. QED BY <1>1, <1>2, <1>3, <1>4 DEF JobStep

LEMMA NextKeeps == ASSUME IInv, Seen, [Next]_vars PROVE IInv'
<1>1. CASE Member
  <2>1. CASE \E r \in Runs, t \in Tasks : CreateRun(r, t)
    BY <2>1, CreatedKeeps
  <2>2. CASE \E r, s \in Runs : Fork(r, s) \/ Review(r, s)
    BY <2>2, CreatedKeeps
  <2>3. CASE \E r \in Runs, op \in {"approve", "reject"} : Decide(r, op)
    BY <2>3, DecideKeeps
  <2>4. CASE \E m \in Controls, r \in Runs : CancelRead(m, r) \/ RedirectRead(m, r)
    BY <2>4, ReadKeeps DEF CancelRead, RedirectRead
  <2>5. CASE \E m \in Controls : CancelCommit(m) \/ \E g \in Guidance : RedirectCommit(m, g)
    BY <2>5, CancelCommitKeeps, RedirectCommitKeeps
  <2>6. QED BY <1>1, <2>1, <2>2, <2>3, <2>4, <2>5 DEF Member
<1>2. CASE Runtime
  BY <1>2, EndpointKeeps, JobKeeps DEF Runtime
<1>3. CASE \E c \in calls : Answered(c)
  BY <1>3, DroppedKeeps
<1>4. CASE Mishap
  BY <1>4, DroppedKeeps, BreakKeeps, RestartKeeps DEF Mishap
<1>5. CASE UNCHANGED vars
  <2>1. UNCHANGED <<run, note, thread, art, job, calls, decided, control, approved, wrote, taint>>
    BY <1>5 DEF vars
  <2>2. TypeOK' /\ Begun' /\ Forked' /\ Consent' /\ NothingToApprove' /\ EditsNeedApproval'
    BY <2>1 DEF IInv, TypeOK, Begun, Forked, Consent, NothingToApprove, EditsNeedApproval, Busy
  <2>3. Alone'
    BY <2>1 DEF IInv, Alone, Opening, Busy
  <2>4. QED BY <2>2, <2>3 DEF IInv
<1>6. QED BY <1>1, <1>2, <1>3, <1>4, <1>5 DEF Next

-----------------------------------------------------------------------------
(* What the transactions have read *)

\* The statuses a job writes.
Ends == Terminal \cup {"RUNNING", "AWAITING_APPROVAL"}

\* What a job's step leaves alone: everything that is not its own run's.
Within(j) ==
    /\ \A k \in Jobs : k # j => job'[k] = job[k]
    /\ job'[j].kind = "idle" \/ job'[j].run = job[j].run
    /\ UNCHANGED <<calls, control, approved>>
    /\ run' = run \/ \E s \in Ends : Became(job[j].run, s)
    /\ \A s \in Runs : taint[s] \subseteq taint'[s]
    /\ \A s \in Runs : s # job[j].run =>
         /\ run'[s] = run[s] /\ note'[s] = note[s] /\ thread'[s] = thread[s]
         /\ art'[s] = art[s] /\ wrote'[s] = wrote[s] /\ taint'[s] = taint[s]

LEMMA EndWithin ==
  ASSUME IInv, NEW j \in Jobs, Busy(j), NEW s \in Ends, End(j, s) \/ Dies(j)
  PROVE  Within(j)
<1>1. /\ \A k \in Jobs : k # j => job'[k] = job[k]
      /\ job'[j].kind = "idle"
  BY DEF End, Dies, Over, Idle, IInv, TypeOK
<1>2. CASE End(j, s)
  BY <1>1, <1>2 DEF Within, End, Became, IInv, TypeOK
<1>3. CASE Dies(j)
  BY <1>1, <1>3 DEF Within, Dies, Tainted, IInv, TypeOK
<1>4. QED BY <1>2, <1>3

LEMMA BreakWithin ==
  ASSUME IInv, NEW j \in Jobs, Busy(j), Break(j)
  PROVE  Within(j)
<1>1. "FAILED" \in Ends
  BY DEF Terminal, Ends
<1>2. CASE Dies(j)
  BY <1>1, <1>2, EndWithin
<1>3. CASE ~Dies(j)
  <2>1. /\ Became(job[j].run, "FAILED") /\ Over(j)
        /\ Tainted(job[j].run, When(job[j].at = "propose", "lost"))
        /\ UNCHANGED <<note, thread, art, calls, decided, control, approved, wrote>>
    BY <1>3 DEF Break
  <2>2. /\ \A k \in Jobs : k # j => job'[k] = job[k]
        /\ job'[j].kind = "idle"
    BY <2>1 DEF Over, Idle, IInv, TypeOK
  <2>3. /\ \A s \in Runs : taint[s] \subseteq taint'[s]
        /\ \A s \in Runs : s # job[j].run => run'[s] = run[s] /\ taint'[s] = taint[s]
    BY <2>1 DEF Became, Tainted, IInv, TypeOK
  <2>4. QED BY <1>1, <2>1, <2>2, <2>3 DEF Within
<1>4. QED BY <1>2, <1>3

LEMMA JobWithin ==
  ASSUME IInv, NEW j \in Jobs, Busy(j), JobStep(j) \/ Break(j)
  PROVE  Within(j)
<1> USE DEF Within
<1>1. CASE Begin(j) \/ Prepare(j)
  <2>1. CASE End(j, "FAILED")
    BY <2>1, EndWithin DEF Terminal, Ends
  <2>2. CASE ~End(j, "FAILED")
    <3>1. /\ Became(job[j].run, "RUNNING")
          /\ \E stage \in Stages : GoTo(j, stage)
          /\ UNCHANGED <<note, thread, art, calls, decided, control, approved, wrote, taint>>
      BY <1>1, <2>2 DEF Begin, Prepare, Stages
    <3>2. "RUNNING" \in Ends
      BY DEF Ends
    <3>3. \A s \in Runs : s # job[j].run => run'[s] = run[s]
      BY <3>1 DEF Became, IInv, TypeOK
    <3>4. QED BY <3>1, <3>2, <3>3 DEF GoTo, Moved, IInv, TypeOK
  <2>3. QED BY <2>1, <2>2
<1>2. CASE Load(j) \/ Claim(j) \/ Rewind(j) \/ ForkCopy(j)
  <2>1. CASE Load(j)
    BY <2>1 DEF Load, Moved, IInv, TypeOK
  <2>2. CASE Claim(j)
    BY <2>2 DEF Claim, Moved, IInv, TypeOK
  <2>3. CASE Rewind(j)
    BY <2>3 DEF Rewind, GoTo, Moved, IInv, TypeOK
  <2>4. CASE ForkCopy(j)
    BY <2>4 DEF ForkCopy, GoTo, Moved, Tainted, IInv, TypeOK
  <2>5. QED BY <1>2, <2>1, <2>2, <2>3, <2>4
<1>3. CASE Inspect(j) \/ Summarize(j) \/ \E e \in Edits : Propose(j, e)
  <2>1. CASE Inspect(j)
    BY <2>1 DEF Inspect, Node, Moved, IInv, TypeOK
  <2>2. CASE Summarize(j)
    BY <2>2 DEF Summarize, Node, Moved, IInv, TypeOK
  <2>3. CASE \E e \in Edits : Propose(j, e)
    BY <2>3 DEF Propose, Node, Moved, IInv, TypeOK
  <2>4. QED BY <1>3, <2>1, <2>2, <2>3
<1>4. CASE (\E s \in Ends : End(j, s)) \/ Dies(j)
  <2>1. "FAILED" \in Ends
    BY DEF Terminal, Ends
  <2>2. CASE \E s \in Ends : End(j, s)
    BY <2>2, EndWithin
  <2>3. CASE Dies(j)
    BY <2>1, <2>3, EndWithin
  <2>4. QED BY <1>4, <2>2, <2>3
<1>5. CASE Apply(j) /\ ~\E s \in Ends : End(j, s)
  <2>1. "FAILED" \in Ends
    BY DEF Terminal, Ends
  <2> DEFINE m == job[j].mem
             w0 == [plan |-> m.plan.id, notes |-> m.notes]
             done == State(m.plan, TRUE, m.passed, m.notes)
             none == State(m.plan, FALSE, m.passed, m.notes)
  <2>2. /\ \/ Node(j, done, "tests", "tests", m.plan.id)
           \/ Node(j, none, "tests", "tests", job[j].box)
        /\ \/ wrote' = wrote
           \/ wrote' = [wrote EXCEPT ![job[j].run] = wrote[job[j].run] \cup {w0}]
        /\ UNCHANGED <<run, note, art, calls, decided, control, approved, taint>>
    BY <1>5, <2>1 DEF Apply
  <2> HIDE DEF w0, done, none, m
  <2>3. QED BY <2>2 DEF Node, Moved, IInv, TypeOK
<1>6. CASE (Diff(j) \/ \E ok \in BOOLEAN : Tests(j, ok)) /\ ~\E s \in Ends : End(j, s)
  <2>1. "FAILED" \in Ends
    BY DEF Terminal, Ends
  <2>2. CASE Diff(j)
    BY <1>6, <2>1, <2>2 DEF Diff, Node, Moved, IInv, TypeOK
  <2>3. CASE \E ok \in BOOLEAN : Tests(j, ok)
    BY <1>6, <2>1, <2>3 DEF Tests, Node, Moved, IInv, TypeOK
  <2>4. QED BY <1>6, <2>2, <2>3
<1>7. CASE /\ \/ Gate(j) \/ Finalize(j) \/ Recheck(j) \/ ForkCheck(j)
           /\ ~\E s \in Ends : End(j, s)
  <2>1. {"FAILED", "SUCCEEDED", "CANCELLED", "AWAITING_APPROVAL"} \subseteq Ends
    BY DEF Terminal, Ends
  <2>2. /\ \E stage \in {"load", "gate", "rewind", "copy"} : GoTo(j, stage)
        /\ UNCHANGED <<run, note, thread, art, calls, decided, control, approved, wrote, taint>>
    BY <1>7, <2>1 DEF Gate, Finalize, Recheck, ForkCheck
  <2>3. QED BY <2>2 DEF GoTo, Moved, IInv, TypeOK
<1>8. CASE Steered(j) /\ ~(\E s \in Ends : End(j, s)) /\ ~Dies(j)
  <2>1. "FAILED" \in Ends
    BY DEF Terminal, Ends
  <2>2. /\ Moved(j, "replan", "recheck", job[j].mem, 0)
        /\ UNCHANGED <<run, note, thread, art, calls, decided, control, approved, wrote, taint>>
    BY <1>8, <2>1 DEF Steered
  <2>3. QED BY <2>2 DEF Moved, IInv, TypeOK
<1>9. CASE \/ \E stage \in {"inspect", "plan", "apply", "tests", "diff"} : Checkpoint(j, stage)
           \/ Reject(j) \/ ForkPark(j) \/ ReviewRun(j)
  <2>1. {"FAILED", "SUCCEEDED", "CANCELLED", "AWAITING_APPROVAL"} \subseteq Ends
    BY DEF Terminal, Ends
  <2>2. (\E s \in Ends : End(j, s)) \/ Dies(j)
    BY <1>9, <2>1 DEF Checkpoint, Reject, ForkPark, ReviewRun
  <2>3. QED BY <1>4, <2>2
<1>10. CASE Break(j)
  BY <1>10, BreakWithin
<1>11. QED BY <1>1, <1>2, <1>3, <1>4, <1>5, <1>6, <1>7, <1>8, <1>9, <1>10 DEF JobStep, GraphNode

\* What a transaction has read is kept by every step that unmakes no run, queues
\* none again and opens a request for none but a new one.
LEMMA SeenStays ==
  ASSUME IInv, Seen,
         \A m \in Controls : control'[m] = control[m] \/ control'[m] = Done,
         \A r \in Runs : /\ run[r].status # "NONE" => run'[r].status # "NONE"
                         /\ run[r].status \notin {"NONE", "QUEUED"} => run'[r].status # "QUEUED",
         \A c \in calls' : Opening(c) => c \in calls \/ run[c.run].status = "NONE"
  PROVE  Seen'
<1> SUFFICES ASSUME NEW m \in Controls, control'[m] \in Control
             PROVE  /\ run'[control'[m].run].status # "NONE"
                    /\ control'[m].atGate =>
                         /\ run'[control'[m].run].status # "QUEUED"
                         /\ \A c \in calls' : Opening(c) => c.run # control'[m].run
  BY DEF Seen, Opening
<1>1. control'[m] = control[m] /\ control[m] \in Control
  BY DEF Done, Control
<1>2. control[m].run \in Runs /\ run[control[m].run].status # "NONE"
  BY <1>1 DEF Control, Seen
<1>3. control[m].atGate => /\ run[control[m].run].status # "QUEUED"
                           /\ \A c \in calls : Opening(c) => c.run # control[m].run
  BY <1>1 DEF Seen
<1>4. QED BY <1>1, <1>2, <1>3

\* The same, for a step that leaves the transactions alone and writes at most one
\* status, to a run that was made.
LEMMA SeenWritten ==
  ASSUME IInv, Seen, NEW r \in Runs, run[r].status # "NONE", NEW s \in Ends,
         run' = run \/ Became(r, s), UNCHANGED control,
         \A c \in calls' : Opening(c) => c \in calls
  PROVE  Seen'
<1>1. \A u \in Runs : run'[u].status = run[u].status \/ run'[u].status = s
  <2>1. CASE run' = run
    BY <2>1
  <2>2. CASE Became(r, s)
    <3> DEFINE x == IF s \in Terminal THEN Updated(r, s, FALSE, run[r].cancel)
                    ELSE Updated(r, s, run[r].slot, run[r].cancel)
    <3>1. run' = [run EXCEPT ![r] = x]
      BY <2>2 DEF Became
    <3>2. x.status = s
      BY DEF Updated
    <3> HIDE DEF x
    <3>3. QED BY <3>1, <3>2 DEF IInv, TypeOK
  <2>3. QED BY <2>1, <2>2
<1>2. s \notin {"NONE", "QUEUED"}
  BY DEF Ends, Terminal
<1>3. QED BY <1>1, <1>2, SeenStays

LEMMA MemberSeen ==
  ASSUME IInv, Seen, Member
  PROVE  Seen'
<1>1. ASSUME NEW r \in Runs, NEW agent, NEW t, NEW source, NEW op,
             Insert(r, agent, t, source), Send(op, r)
      PROVE  Seen'
  <2>1. /\ run[r].status = "NONE" /\ control' = control
        /\ \A s \in Runs : s # r => run'[s] = run[s]
        /\ \A c \in calls' : c \in calls \/ c.run = r
    BY <1>1 DEF Insert, Send, IInv, TypeOK
  <2>2. QED BY <2>1, SeenStays
<1>2. CASE (\E r \in Runs, t \in Tasks : CreateRun(r, t))
             \/ (\E r, s \in Runs : Fork(r, s) \/ Review(r, s))
  BY <1>1, <1>2 DEF CreateRun, Fork, Review
<1>3. ASSUME NEW r \in Runs, NEW op \in {"approve", "reject"}, Decide(r, op) PROVE Seen'
  <2>1. /\ run' = run /\ control' = control
        /\ \A c \in calls' : c \in calls \/ c.op \notin Creating
    BY <1>3 DEF Decide, Send, Creating
  <2>2. QED BY <2>1, SeenStays DEF Opening
<1>4. ASSUME NEW m \in Controls, NEW r \in Runs, NEW op \in {"cancel", "redirect"},
             Read(m, op, r)
      PROVE  Seen'
  <2> DEFINE x == [op |-> op, run |-> r, atGate |-> run[r].status = "AWAITING_APPROVAL"]
  <2>1. /\ control' = [control EXCEPT ![m] = x] /\ run' = run /\ calls' = calls
        /\ run[r].status \in Active
    BY <1>4 DEF Read
  <2>2. x.run = r /\ (x.atGate => run[r].status = "AWAITING_APPROVAL")
    OBVIOUS
  <2>3. run[r].status = "AWAITING_APPROVAL" => \A c \in calls : Opening(c) => c.run # r
    BY DEF IInv, Alone
  <2> HIDE DEF x
  <2> SUFFICES ASSUME NEW n \in Controls, control'[n] \in Control
               PROVE  /\ run[control'[n].run].status # "NONE"
                      /\ control'[n].atGate =>
                           /\ run[control'[n].run].status # "QUEUED"
                           /\ \A c \in calls : Opening(c) => c.run # control'[n].run
    BY <2>1 DEF Seen, Opening
  <2>4. CASE n = m
    <3>1. control'[n] = x
      BY <2>1, <2>4 DEF IInv, TypeOK
    <3>2. QED BY <2>1, <2>2, <2>3, <3>1 DEF Active
  <2>5. CASE n # m
    <3>1. control'[n] = control[n]
      BY <2>1, <2>5 DEF IInv, TypeOK
    <3>2. QED BY <3>1 DEF Seen
  <2>6. QED BY <2>4, <2>5
<1>5. ASSUME NEW m \in Controls, CancelCommit(m) PROVE Seen'
  <2>1. /\ \A n \in Controls : control'[n] = control[n] \/ control'[n] = Done
        /\ control[m].run \in Runs /\ calls' = calls
    BY <1>5, ControlTyped DEF CancelCommit
  <2>2. \E r \in Runs : \E x : /\ run' = [run EXCEPT ![r] = x]
                              /\ x.status \in {"CANCELLED", run[r].status}
    BY <1>5, <2>1 DEF CancelCommit, Updated
  <2>3. \A u \in Runs : run'[u].status = run[u].status \/ run'[u].status = "CANCELLED"
    BY <2>2 DEF IInv, TypeOK
  <2>4. QED BY <2>1, <2>3, SeenStays
<1>6. ASSUME NEW m \in Controls, NEW g \in Guidance, RedirectCommit(m, g) PROVE Seen'
  <2>1. /\ \A n \in Controls : control'[n] = control[n] \/ control'[n] = Done
        /\ control[m].run \in Runs
    BY <1>6, ControlTyped DEF RedirectCommit
  <2>2. \A c \in calls' : c \in calls \/ c.op \notin Creating
    BY <1>6 DEF RedirectCommit, Recorded, Send, Creating
  <2>3. \A u \in Runs : run'[u].status = run[u].status \/ run'[u].status = "RUNNING"
    <3>1. CASE run' = run
      BY <3>1
    <3>2. CASE run' # run
      <4>1. \E r \in Runs : \E x : run' = [run EXCEPT ![r] = x] /\ x.status = "RUNNING"
        BY <1>6, <2>1, <3>2 DEF RedirectCommit, Replanning, Became, Updated, Terminal
      <4>2. QED BY <4>1 DEF IInv, TypeOK
    <3>3. QED BY <3>1, <3>2
  <2>4. QED BY <2>1, <2>2, <2>3, SeenStays DEF Opening
<1>7. QED BY <1>2, <1>3, <1>4, <1>5, <1>6 DEF Member, CancelRead, RedirectRead

LEMMA BusyStep == ASSUME NEW j \in Jobs, JobStep(j) \/ Break(j) PROVE Busy(j)
<1>1. Break(j) => Busy(j)
  BY DEF Break, Busy
<1>2. GraphNode(j) => Busy(j)
  BY DEF GraphNode, Checkpoint, Load, Steered, Inspect, Claim, Propose, Apply, Tests, Diff,
         Summarize, Passes, Free, Busy
<1>3. JobStep(j) /\ ~GraphNode(j) => Busy(j)
  BY DEF JobStep, Begin, Prepare, Gate, Finalize, Recheck, Rewind, Reject, ForkCheck, ForkCopy,
         ForkPark, ReviewRun, At, Busy
<1>4. QED BY <1>1, <1>2, <1>3

LEMMA NextSeen == ASSUME IInv, Seen, [Next]_vars PROVE Seen'
<1>1. CASE Member
  BY <1>1, MemberSeen
<1>2. ASSUME NEW j \in Jobs, JobStep(j) \/ Break(j) PROVE Seen'
  <2>1. Busy(j) /\ Within(j) /\ job[j].run \in Runs
    BY <1>2, BusyStep, JobWithin, JobTyped
  <2>2. run[job[j].run].status # "NONE"
    BY <2>1 DEF IInv, Begun
  <2>3. "RUNNING" \in Ends
    BY DEF Ends
  <2>4. QED BY <2>1, <2>2, <2>3, SeenWritten DEF Within
<1>3. ASSUME NEW c \in calls, Endpoint(c) \/ GiveUp(c) \/ Drop(c) \/ Answered(c) PROVE Seen'
  <2>1. c.run \in Runs /\ run[c.run].status # "NONE" /\ "FAILED" \in Ends
    BY DEF IInv, TypeOK, Begun, Call, Ends, Terminal
  <2>2. control' = control /\ (run' = run \/ Became(c.run, "FAILED"))
    BY <1>3 DEF Endpoint, StartEndpoint, DecisionEndpoint, RedirectEndpoint, CopyEndpoint,
                ReviewEndpoint, Schedule, Refuse, GiveUp, Drop, Answered
  <2>3. \A d \in calls' : Opening(d) => d \in calls
    BY <1>3 DEF Endpoint, StartEndpoint, DecisionEndpoint, RedirectEndpoint, CopyEndpoint,
                ReviewEndpoint, Schedule, Refuse, Handled, GiveUp, Drop, Answered, Opening
  <2>4. QED BY <2>1, <2>2, <2>3, SeenWritten
<1>4. CASE Restart \/ UNCHANGED vars
  <2>1. /\ run' = run /\ control' = control
        /\ \A c \in calls' : Opening(c) => c \in calls
    BY <1>4 DEF Restart, vars, Opening
  <2>2. QED BY <2>1, SeenStays
<1>5. QED BY <1>1, <1>2, <1>3, <1>4 DEF Next, Runtime, Mishap

LEMMA Inductive == Spec => [](IInv /\ Seen)
<1>1. Init => IInv /\ Seen
  <2>1. Init => Seen
    BY DEF Init, Seen, Unsent, Control
  <2>2. QED BY <2>1, InitKeeps
<1>2. IInv /\ Seen /\ [Next]_vars => (IInv /\ Seen)'
  BY NextKeeps, NextSeen
<1>3. QED BY <1>1, <1>2, PTL DEF Spec

\* Type correctness: every row, intervention, checkpoint, artifact, background job
\* and request has the shape the two programs read it with.
THEOREM TypeCorrect == Spec => []TypeOK
<1>1. IInv => TypeOK
  BY DEF IInv
<1>2. QED BY <1>1, Inductive, PTL

\* However requests, jobs, redirects, forks, lost answers and restarts interleave,
\* no file is patched for a run that nobody approved (the interrupt in front of
\* apply_edits): a start job alone cannot pass the gate with edits, a re-plan has no
\* sandbox to write to, and a resume job is only ever scheduled by an approval.
THEOREM EditsApproved == Spec => []EditsNeedApproval
<1>1. IInv => EditsNeedApproval
  BY DEF IInv
<1>2. QED BY <1>1, Inductive, PTL

-----------------------------------------------------------------------------
(* One run at a time *)

Works(j, r) == Busy(j) /\ job[j].run = r
Calm(r) == "overlap" \notin taint[r]
Intact(r) == Calm(r) /\ "torn" \notin taint[r]
Kept(r) == Calm(r) /\ "lost" \notin taint[r]
Blank(r) == thread[r].state.notes = {} /\ thread[r].state.plan.id = 0

\* Unless two writers raced, one job at a time drives a run.
OneJob(r) == Calm(r) => \A j, k \in Jobs : Works(j, r) /\ Works(k, r) => j = k

\* One request creates a run; until it is taken the run is queued, its thread
\* empty and nothing of it approved.
Opened(r) ==
    /\ \A c, d \in calls :
         c.run = r /\ d.run = r /\ c.op \in Creating /\ d.op \in Creating => c = d
    /\ \A c \in calls : c.run = r /\ Opening(c) =>
         run[r].status = "QUEUED" /\ approved[r] = {} /\ Blank(r)
    /\ run[r].status = "NONE" => ~run[r].slot /\ approved[r] = {} /\ Blank(r)

\* The slot is held exactly while the run is active, and a job works on no other.
Settled(r) ==
    taint[r] \cap Late = {} =>
        /\ run[r].slot <=> run[r].status \in Active
        /\ \A j \in Jobs : Works(j, r) => run[r].status \in Active

\* Where a job's channels are the thread's own.
Planning == {"inspect", "plan", "propose", "apply", "tests", "diff", "summary"}
Holding(j) ==
    \/ job[j].at \in Planning
    \/ job[j].kind = "start" /\ job[j].at \in {"begin", "prepare"}

\* What a job has read is what its thread holds, but for the guidance it claimed.
Reads(j, r) ==
    /\ job[j].at # "propose" => job[j].mem.notes \subseteq thread[r].state.notes
    /\ Holding(j) => /\ thread[r].state.notes \subseteq job[j].mem.notes
                     /\ thread[r].state.plan.id = job[j].mem.plan.id
    /\ job[j].at \in {"plan", "propose"} => thread[r].next = "plan"

\* The status a job finds, and the stages a re-plan gets to.
Finds(j, r) ==
    /\ job[j].kind \in {"start", "resume"} /\ job[j].at # "begin" =>
         run[r].status \notin {"QUEUED", "AWAITING_APPROVAL"}
    /\ job[j].kind \in {"replan", "resume", "reject"} => run[r].status # "QUEUED"
    /\ job[j].kind = "replan" =>
         /\ job[j].at \in {"recheck", "rewind", "load", "plan", "propose", "gate"}
         /\ job[j].at = "load" => thread[r].next = "plan"

\* What a job's sandbox holds, and where the thread stands when it is read.
Boxed(j, r) ==
    /\ job[j].at \in {"tests", "diff"} =>
         job[j].box = IF job[j].mem.applied THEN job[j].mem.plan.id ELSE 0
    /\ job[j].at \in {"begin", "prepare", "recheck", "rewind", "load", "inspect", "plan",
                      "propose", "apply", "gate"} => job[j].box = 0
    /\ job[j].kind = "resume" /\ job[j].at \in {"begin", "prepare", "load"} =>
         thread[r].next \in {"plan", "apply"}
    /\ job[j].kind = "start" /\ job[j].at = "load" => thread[r].next = "apply"
    /\ job[j].at = "gate" => thread[r].next = "apply"
    /\ job[j].kind = "fork" /\ job[j].at = "park" => thread[r].next = "apply"

InHand(j, r) ==
    /\ job[j].kind = "fork" => job[j].at \in {"check", "copy", "park"}
    /\ job[j].kind = "review" => job[j].at = "check"
    /\ job[j].kind = "reject" => job[j].at = "reject"
    /\ job[j].kind \in Creating => approved[r] = {}
    /\ job[j].kind = "fork" /\ job[j].at \in {"check", "copy"} => Blank(r)
    /\ Calm(r) => Reads(j, r) /\ Finds(j, r)
    /\ Intact(r) => Boxed(j, r)
InHands(r) == \A j \in Jobs : Works(j, r) => InHand(j, r)

\* An approval names a plan no newer than the thread's and guidance that was asked for.
Older(r) ==
    Calm(r) => \A a \in approved[r] :
        a.plan <= thread[r].state.plan.id /\ a.asked \subseteq Asked(r)

\* Applied guidance is in the checkpoint, or in the hands of a job.
Holds(r) ==
    \A g \in Guidance : note[r][g] = "APPLIED" =>
        g \in thread[r].state.notes \/ \E j \in Jobs : Carries(j, r, g)
Guided(r) == Kept(r) => Holds(r)

\* A run at the gate is in front of a plan to approve, or of one to be made.
Parked(r) ==
    Intact(r) /\ run[r].status = "AWAITING_APPROVAL" => thread[r].next \in {"plan", "apply"}

Sound(r) ==
    Kept(r) => \A w \in wrote[r] :
        \E a \in approved[r] : a.plan <= w.plan /\ a.asked \subseteq w.notes
Ran(r) == Intact(r) => art[r].diff = art[r].inBox

Steady(r) ==
    /\ OneJob(r) /\ Opened(r) /\ Settled(r) /\ InHands(r) /\ Older(r) /\ Guided(r)
    /\ Parked(r) /\ Sound(r) /\ Ran(r)

-----------------------------------------------------------------------------
\* A run a step does not touch.
Untouched(s) ==
    /\ run'[s] = run[s] /\ note'[s] = note[s] /\ thread'[s] = thread[s] /\ art'[s] = art[s]
    /\ approved'[s] = approved[s] /\ wrote'[s] = wrote[s] /\ taint'[s] = taint[s]
    /\ \A j \in Jobs : Works(j, s)' <=> Works(j, s)
    /\ \A j \in Jobs : Works(j, s) => job'[j] = job[j]
    /\ \A c \in calls' : c.run = s => c \in calls

LEMMA Elsewhere ==
  ASSUME NEW s \in Runs, Steady(s), Untouched(s)
  PROVE  Steady(s)'
<1>1. OneJob(s)' /\ Opened(s)' /\ Settled(s)'
  <2>1. OneJob(s)'
    BY DEF Steady, Untouched, OneJob, Calm
  <2>2. Opened(s)'
    BY DEF Steady, Untouched, Opened, Opening, Creating, Blank
  <2>3. Settled(s)'
    BY DEF Steady, Untouched, Settled, Calm, Active
  <2>4. QED BY <2>1, <2>2, <2>3
<1>2. InHands(s)'
  <2> SUFFICES ASSUME NEW j \in Jobs, Works(j, s)' PROVE InHand(j, s)'
    BY DEF InHands
  <2>1. Works(j, s) /\ job'[j] = job[j]
    BY DEF Untouched
  <2>2. InHand(j, s)
    BY <2>1 DEF Steady, InHands
  <2>3. UNCHANGED <<run[s], thread[s], approved[s], taint[s], job[j]>>
    BY <2>1 DEF Untouched
  <2>4. QED BY <2>2, <2>3 DEF InHand, Creating, Blank, Calm, Intact, Reads, Finds, Boxed,
                            Holding, Planning
<1>3. Older(s)'
  BY DEF Steady, Untouched, Older, Asked, Calm
<1>4. Guided(s)'
  <2>1. Holds(s) => Holds(s)'
    BY DEF Untouched, Holds, Carries, Works, Busy
  <2>2. QED BY <2>1 DEF Kept, Steady, Untouched, Guided, Calm
<1>5. Parked(s)' /\ Sound(s)' /\ Ran(s)'
  BY DEF Kept, Steady, Untouched, Parked, Sound, Ran, Calm, Intact
<1>6. QED BY <1>1, <1>2, <1>3, <1>4, <1>5 DEF Steady

-----------------------------------------------------------------------------
\* A job that goes on for its run: the row, the requests and the approvals stay as
\* they are but for a status that may become RUNNING; the rest is given.
LEMMA MovedSteady ==
  ASSUME IInv, IInv', NEW r \in Runs, NEW j \in Jobs, Works(j, r), Steady(r),
         Works(j, r)', \A k \in Jobs : k # j => job'[k] = job[k],
         run'[r].slot = run[r].slot,
         run'[r].status = run[r].status \/ run'[r].status = "RUNNING",
         UNCHANGED <<calls, approved>>, taint[r] \subseteq taint'[r],
         InHand(j, r)', Older(r)', Guided(r)', Parked(r)', Sound(r)', Ran(r)'
  PROVE  Steady(r)'
<1>1. OneJob(r)'
  BY DEF Steady, OneJob, Calm, Works, Busy
<1>2. run[r].status # "NONE" /\ \A c \in calls : c.run = r => ~Opening(c)
  BY DEF IInv, Begun, Alone, Works
<1>3. Opened(r)'
  BY <1>2 DEF Steady, Opened, Opening, Creating
<1>4. Settled(r)'
  BY DEF Steady, Settled, Late, Active, Works
<1>5. InHands(r)'
  <2> SUFFICES ASSUME NEW k \in Jobs, Works(k, r)', k # j PROVE InHand(k, r)'
    BY DEF InHands
  <2>1. ~Calm(r)'
    BY DEF Works, Busy, OneJob, Calm, Steady
  <2>2. job'[k].kind \notin Creating
    BY DEF Works, IInv, Alone, Busy
  <2>3. InHand(k, r) /\ job'[k] = job[k]
    BY DEF Steady, InHands, Works, Busy
  <2>4. QED BY <2>1, <2>2, <2>3 DEF InHand, Creating, Intact
<1>6. QED BY <1>1, <1>3, <1>4, <1>5 DEF Steady

\* A job that ends, finished or at the gate: what it had claimed is gone only if it
\* was about to plan with it.
LEMMA OverSteady ==
  ASSUME IInv, IInv', NEW r \in Runs, NEW j \in Jobs, Works(j, r), Steady(r),
         NEW s, Became(job[j].run, s), Over(j),
         UNCHANGED <<note, thread, art, calls, approved, wrote>>, taint[r] \subseteq taint'[r],
         job[j].at = "propose" => "lost" \in taint'[r],
         s \in Terminal \/ (s = "AWAITING_APPROVAL" /\ (At(j, {"start", "replan"}, "gate")
                                                                 \/ At(j, {"fork"}, "park")))
  PROVE  Steady(r)'
<1>1. /\ run'[r].status = s
      /\ s \in Terminal => run'[r].slot = FALSE
      /\ s \notin Terminal => run'[r].slot = run[r].slot
  BY DEF Became, Updated, Works, IInv, TypeOK, Row
<1>2. \A k \in Jobs : Works(k, r)' => k # j /\ Works(k, r) /\ job'[k] = job[k]
  BY DEF Over, Idle, Works, Busy, IInv, TypeOK
<1>3. Calm(r) => \A k \in Jobs : ~Works(k, r)'
  BY <1>2 DEF Steady, OneJob
<1>4. OneJob(r)'
  BY <1>1, <1>3 DEF OneJob, Calm
<1>5. run[r].status # "NONE" /\ \A c \in calls : c.run = r => ~Opening(c)
  BY DEF IInv, Begun, Alone, Works
<1>6. Opened(r)'
  BY <1>1, <1>5 DEF Steady, Opened, Opening, Creating, Terminal
<1>7. Settled(r)'
  BY <1>1, <1>3 DEF Steady, Settled, Calm, Late, Active, Terminal
<1>8. InHands(r)'
  <2> SUFFICES ASSUME NEW k \in Jobs, Works(k, r)' PROVE InHand(k, r)'
    BY DEF InHands
  <2>1. ~Calm(r)'
    BY <1>1, <1>3 DEF Calm
  <2>2. job'[k].kind \notin Creating
    BY <1>2 DEF Works, IInv, Alone, Busy
  <2>3. InHand(k, r) /\ job'[k] = job[k]
    BY <1>2 DEF Steady, InHands, Works, Busy
  <2>4. QED BY <2>1, <2>2, <2>3 DEF InHand, Creating, Intact
<1>9. Older(r)'
  BY <1>1 DEF Steady, Older, Asked, Calm
<1>10. Guided(r)'
  <2> SUFFICES ASSUME Kept(r)' PROVE Holds(r)'
    BY DEF Guided
  <2>1. Kept(r) /\ job[j].at # "propose"
    BY DEF Kept, Calm
  <2>2. job[j].mem.notes \subseteq thread[r].state.notes
    BY <2>1 DEF Kept, Steady, InHands, InHand, Reads
  <2>3. \A k \in Jobs, g \in Guidance : Carries(k, r, g) => g \in thread[r].state.notes
    BY <2>1, <2>2 DEF Kept, Steady, OneJob, Carries, Works, Busy
  <2>4. QED BY <2>1, <2>3 DEF Holds, Steady, Guided
<1>11. Parked(r)'
  BY <1>1 DEF At, Parked, Steady, InHands, InHand, Boxed, Terminal, Intact, Calm
<1>12. Sound(r)' /\ Ran(r)'
  BY <1>1 DEF Kept, Steady, Sound, Ran, Calm, Intact
<1>13. QED BY <1>4, <1>6, <1>7, <1>8, <1>9, <1>10, <1>11, <1>12 DEF Steady

LEMMA EndSteady ==
  ASSUME IInv, IInv', NEW r \in Runs, NEW j \in Jobs, Works(j, r), Steady(r),
         NEW s, End(j, s), job[j].at # "propose",
         s \in Terminal \/ (s = "AWAITING_APPROVAL" /\ (At(j, {"start", "replan"}, "gate")
                                                                 \/ At(j, {"fork"}, "park")))
  PROVE  Steady(r)'
<1>1. /\ Became(job[j].run, s) /\ Over(j)
      /\ UNCHANGED <<note, thread, art, calls, approved, wrote, taint>>
  BY DEF End
<1>2. QED BY <1>1, OverSteady

\* A job that dies leaves its run as it is.
LEMMA DiesSteady ==
  ASSUME IInv, IInv', NEW r \in Runs, NEW j \in Jobs, Works(j, r), Steady(r), Dies(j)
  PROVE  Steady(r)'
<1>1. /\ UNCHANGED <<run, note, thread, art, calls, approved, wrote>>
      /\ taint'[r] = taint[r] \cup {"died"} \cup When(job[j].at = "propose", "lost")
  BY DEF Dies, Tainted, Works, IInv, TypeOK
<1>2. \A k \in Jobs : Works(k, r)' => k # j /\ Works(k, r) /\ job'[k] = job[k]
  BY DEF Dies, Over, Idle, Works, Busy, IInv, TypeOK
<1>a. /\ taint[r] \subseteq taint'[r] /\ (Calm(r)' <=> Calm(r))
      /\ job[j].at = "propose" => "lost" \in taint'[r]
      /\ taint'[r] \cap Late = {} => taint[r] \cap Late = {}
  BY <1>1 DEF When, Calm
<1>3. Calm(r) => \A k \in Jobs : ~Works(k, r)'
  BY <1>2 DEF Steady, OneJob
<1>4. OneJob(r)'
  BY <1>a, <1>3 DEF OneJob
<1>5. Opened(r)'
  BY <1>1 DEF Steady, Opened, Opening, Creating, Blank
<1>6. Settled(r)'
  BY <1>a, <1>1, <1>3 DEF Steady, Settled, Late, Calm, Active
<1>7. InHands(r)'
  <2> SUFFICES ASSUME NEW k \in Jobs, Works(k, r)' PROVE InHand(k, r)'
    BY DEF InHands
  <2>1. ~Calm(r)'
    BY <1>a, <1>3
  <2>2. job'[k].kind \notin Creating
    BY <1>2 DEF Works, IInv, Alone, Busy
  <2>3. InHand(k, r) /\ job'[k] = job[k]
    BY <1>2 DEF Steady, InHands, Works, Busy
  <2>4. QED BY <2>1, <2>2, <2>3 DEF InHand, Creating, Intact
<1>8. Older(r)'
  BY <1>a, <1>1 DEF Steady, Older, Asked
<1>9. Guided(r)'
  <2> SUFFICES ASSUME Kept(r)' PROVE Holds(r)'
    BY DEF Guided
  <2>1. Kept(r) /\ job[j].at # "propose"
    BY <1>a DEF Kept
  <2>2. job[j].mem.notes \subseteq thread[r].state.notes
    BY <2>1 DEF Kept, Steady, InHands, InHand, Reads
  <2>3. \A k \in Jobs, g \in Guidance : Carries(k, r, g) => g \in thread[r].state.notes
    BY <2>1, <2>2 DEF Kept, Steady, OneJob, Carries, Works, Busy
  <2>4. QED BY <1>1, <2>1, <2>3 DEF Holds, Steady, Guided
<1>10. Parked(r)' /\ Sound(r)' /\ Ran(r)'
  BY <1>a, <1>1 DEF Kept, Steady, Parked, Sound, Ran, Calm, Intact
<1>11. QED BY <1>4, <1>5, <1>6, <1>7, <1>8, <1>9, <1>10 DEF Steady

\* Where a job stands after it has moved.
LEMMA MovedJob ==
  ASSUME IInv, NEW r \in Runs, NEW j \in Jobs, Works(j, r),
         NEW kind \in Kinds, NEW stage \in Stages, NEW mem \in Channels, NEW box \in Nat,
         Moved(j, kind, stage, mem, box)
  PROVE  /\ job'[j].kind = kind /\ job'[j].at = stage /\ job'[j].mem = mem /\ job'[j].box = box
         /\ Works(j, r)'
         /\ \A k \in Jobs : k # j => job'[k] = job[k]
BY DEF Moved, Works, Busy, IInv, TypeOK, Kinds

LEMMA StagedJob ==
  ASSUME IInv, NEW r \in Runs, NEW j \in Jobs, Works(j, r), NEW stage \in Stages, GoTo(j, stage)
  PROVE  /\ job'[j].kind = job[j].kind /\ job'[j].at = stage /\ job'[j].mem = job[j].mem
         /\ job'[j].box = job[j].box
         /\ Works(j, r)'
         /\ \A k \in Jobs : k # j => job'[k] = job[k]
<1>1. /\ job[j].kind \in Kinds /\ job[j].mem \in Channels /\ job[j].box \in Nat
  BY JobTyped DEF Works
<1>2. Moved(j, job[j].kind, stage, job[j].mem, job[j].box)
  BY DEF GoTo
<1>3. QED BY <1>1, <1>2, MovedJob

\* A job that only changes its stage, and perhaps writes RUNNING first.
LEMMA StageSteady ==
  ASSUME IInv, IInv', NEW r \in Runs, NEW j \in Jobs, Works(j, r), Steady(r),
         NEW stage \in Stages, GoTo(j, stage),
         run' = run \/ Became(job[j].run, "RUNNING"),
         UNCHANGED <<note, thread, art, calls, approved, wrote, taint>>,
         InHand(j, r)'
  PROVE  Steady(r)'
<1>1. job[j].run = r /\ job[j].kind \in Kinds
  BY JobTyped DEF Works
<1>2. /\ job'[j].mem = job[j].mem /\ Works(j, r)'
      /\ \A k \in Jobs : k # j => job'[k] = job[k]
  BY StagedJob
<1>3. /\ run'[r].slot = run[r].slot
      /\ run'[r].status = run[r].status \/ run'[r].status = "RUNNING"
  BY <1>1 DEF Became, Updated, Terminal, IInv, TypeOK, Row
<1>4. Older(r)' /\ Sound(r)' /\ Ran(r)'
  BY DEF Kept, Steady, Older, Sound, Ran, Asked, Calm, Intact
<1>5. Parked(r)'
  BY <1>3 DEF Steady, Parked, Calm, Intact
<1>6. Guided(r)'
  <2>1. Holds(r) => Holds(r)'
    BY <1>2 DEF Holds, Carries, Works, Busy
  <2>2. QED BY <2>1 DEF Steady, Guided, Kept, Calm
<1>7. QED BY <1>2, <1>3, <1>4, <1>5, <1>6, MovedSteady

LEMMA BeginSteady ==
  ASSUME IInv, IInv', NEW r \in Runs, NEW j \in Jobs, Works(j, r), Steady(r), Begin(j)
  PROVE  Steady(r)'
<1>1. /\ job[j].run = r /\ job[j].kind \in {"start", "resume"} /\ job[j].at = "begin"
      /\ Became(job[j].run, "RUNNING") /\ GoTo(j, "prepare")
      /\ UNCHANGED <<note, thread, art, calls, decided, control, approved, wrote, taint>>
  BY DEF Begin, At, Works
<1>2. /\ job'[j].kind = job[j].kind /\ job'[j].at = "prepare" /\ job'[j].mem = job[j].mem
      /\ job'[j].box = job[j].box
      /\ \A k \in Jobs : Works(k, r)' => Works(k, r) /\ (k # j => job'[k] = job[k])
      /\ "prepare" \in Stages
  BY <1>1, StagedJob DEF Stages, Works, Busy
<1>3. run'[r].status = "RUNNING"
  BY <1>1 DEF Became, Updated, Terminal, IInv, TypeOK, Row
<1>4. InHand(j, r)
  BY DEF Steady, InHands
<1>5. InHand(j, r)'
  <2>1. Calm(r) => Reads(j, r)' /\ Finds(j, r)'
    BY <1>1, <1>2, <1>3, <1>4 DEF InHand, Reads, Finds, Holding, Planning
  <2>2. Intact(r) => Boxed(j, r)'
    BY <1>1, <1>2, <1>4 DEF InHand, Boxed
  <2>3. QED BY <1>1, <1>2, <1>4, <2>1, <2>2 DEF InHand, Calm, Intact
<1>6. QED BY <1>1, <1>2, <1>5, StageSteady

LEMMA PrepareSteady ==
  ASSUME IInv, IInv', NEW r \in Runs, NEW j \in Jobs, Works(j, r), Steady(r), Prepare(j)
  PROVE  Steady(r)'
<1> DEFINE stage == IF job[j].kind = "start" THEN "inspect" ELSE "load"
<1>1. /\ job[j].run = r /\ job[j].kind \in {"start", "resume"} /\ job[j].at = "prepare"
  BY DEF Prepare, At, Works
<1>2. CASE End(j, "FAILED")
  BY <1>1, <1>2, EndSteady DEF Terminal
<1>3. CASE /\ Became(job[j].run, "RUNNING") /\ GoTo(j, stage)
           /\ UNCHANGED <<note, thread, art, calls, decided, control, approved, wrote, taint>>
  <2>1. /\ job'[j].kind = job[j].kind /\ job'[j].at = stage /\ job'[j].mem = job[j].mem
        /\ job'[j].box = job[j].box
        /\ \A k \in Jobs : Works(k, r)' => Works(k, r) /\ (k # j => job'[k] = job[k])
        /\ stage \in Stages
    BY <1>1, <1>3, StagedJob DEF Stages, Works, Busy
  <2>2. run'[r].status = "RUNNING"
    BY <1>1, <1>3 DEF Became, Updated, Terminal, IInv, TypeOK, Row
  <2>3. InHand(j, r)
    BY DEF Steady, InHands
  <2>4. InHand(j, r)'
    <3>1. Calm(r) => Reads(j, r)' /\ Finds(j, r)'
      BY <1>1, <1>3, <2>1, <2>2, <2>3 DEF InHand, Reads, Finds, Holding, Planning
    <3>2. Intact(r) => Boxed(j, r)'
      BY <1>1, <1>3, <2>1, <2>3 DEF InHand, Boxed
    <3>3. QED BY <1>1, <1>3, <2>1, <2>3, <3>1, <3>2 DEF InHand, Calm, Intact
  <2> HIDE DEF stage
  <2>5. QED BY <1>1, <1>3, <2>1, <2>4, StageSteady
<1>4. QED BY <1>2, <1>3 DEF Prepare

\* The channels are read back: what the job holds is what the thread holds.
LEMMA LoadSteady ==
  ASSUME IInv, IInv', NEW r \in Runs, NEW j \in Jobs, Works(j, r), Steady(r), Load(j)
  PROVE  Steady(r)'
<1>1. /\ job[j].run = r /\ job[j].at = "load" /\ job[j].kind \in Kinds
      /\ Moved(j, job[j].kind, thread[r].next, thread[r].state, job[j].box)
      /\ UNCHANGED <<run, note, thread, art, calls, decided, control, approved, wrote, taint>>
  BY JobTyped DEF Load, Works
<1>2. /\ thread[r].next \in Nodes /\ thread[r].next \in Stages
      /\ thread[r].state \in Channels /\ job[j].box \in Nat
  BY JobTyped DEF Works, Nodes, Stages
<1>3. /\ job'[j].kind = job[j].kind /\ job'[j].at = thread[r].next
      /\ job'[j].mem = thread[r].state /\ job'[j].box = job[j].box /\ Works(j, r)'
      /\ \A k \in Jobs : k # j => job'[k] = job[k]
  BY <1>1, <1>2, MovedJob
<1>4. InHand(j, r)
  BY DEF Steady, InHands
<1>5. InHand(j, r)'
  <2>1. Calm(r) => Reads(j, r)'
    BY <1>1, <1>2, <1>3 DEF Reads, Nodes
  <2>2. Calm(r) => Finds(j, r)'
    BY <1>1, <1>2, <1>3, <1>4 DEF InHand, Finds, Nodes
  <2>3. Intact(r) => Boxed(j, r)'
    <3>1. CASE job[j].kind \in {"start", "resume"}
      BY <1>1, <1>2, <1>3, <1>4, <3>1 DEF InHand, Boxed, Nodes
    <3>2. CASE job[j].kind = "replan"
      BY <1>1, <1>2, <1>3, <1>4, <3>2 DEF InHand, Boxed, Finds, Intact, Nodes
    <3>3. CASE job[j].kind \notin {"start", "resume", "replan"}
      BY <1>1, <1>2, <1>3, <1>4, <3>3 DEF InHand, Kinds
    <3>4. QED BY <3>1, <3>2, <3>3
  <2>4. QED BY <1>1, <1>2, <1>3, <1>4, <2>1, <2>2, <2>3 DEF InHand, Calm, Intact, Nodes
<1>6. Older(r)' /\ Sound(r)' /\ Ran(r)' /\ Parked(r)'
  BY <1>1 DEF Kept, Steady, Older, Sound, Ran, Parked, Asked, Calm, Intact
<1>7. Guided(r)'
  <2>1. Kept(r) /\ Holds(r) => Holds(r)'
    BY <1>1, <1>3, <1>4 DEF Kept, Holds, Carries, Works, Busy, InHand, Reads
  <2>2. QED BY <1>1, <2>1 DEF Steady, Guided, Kept, Calm
<1>8. QED BY <1>1, <1>3, <1>5, <1>6, <1>7, MovedSteady

Before == {"inspect", "propose", "apply", "tests", "diff", "summary"}

\* A node that ends in a checkpoint: the plan is no older, the guidance the same.
LEMMA NodeSteady ==
  ASSUME IInv, IInv', NEW r \in Runs, NEW j \in Jobs, Works(j, r), Steady(r),
         NEW mem \in Channels, NEW next \in Nodes, NEW stage \in Stages, NEW box \in Nat,
         Node(j, mem, next, stage, box),
         UNCHANGED <<run, note, calls, approved, taint>>,
         job[j].at \in Before, job[j].mem.plan.id <= mem.plan.id, mem.notes = job[j].mem.notes,
         stage # "load", stage \in {"plan", "propose"} => next = "plan",
         job[j].at # "propose" => job[j].kind \in {"start", "resume"} \/ ~Calm(r),
         job[j].at = "propose" =>
            next = "apply" /\ stage = IF job[j].kind = "resume" THEN "end" ELSE "gate",
         Intact(r) => Boxed(j, r)', Sound(r)', Ran(r)'
  PROVE  Steady(r)'
<1>1. /\ job[j].run = r /\ job[j].kind \in Kinds /\ mem.plan.id \in Nat
      /\ thread[r].state.plan.id \in Nat
  <2>1. mem.plan \in Plans /\ thread[r].state.plan \in Plans
    BY DEF Channels, IInv, TypeOK
  <2>2. QED BY <2>1, JobTyped DEF Works, Plans
<1>2. /\ Moved(j, job[j].kind, stage, mem, box)
      /\ thread'[r].next = next /\ thread'[r].state = mem
  BY <1>1 DEF Node, IInv, TypeOK
<1>3. /\ job'[j].kind = job[j].kind /\ job'[j].at = stage /\ job'[j].mem = mem
      /\ job'[j].box = box /\ Works(j, r)'
      /\ \A k \in Jobs : k # j => job'[k] = job[k]
  BY <1>1, <1>2, MovedJob
<1>4. InHand(j, r) /\ job[j].kind \in {"start", "resume", "replan"}
  BY <1>1 DEF Steady, InHands, InHand, Before, Kinds
<1>5. InHand(j, r)'
  <2>1. Calm(r) => Reads(j, r)'
    BY <1>2, <1>3 DEF Reads
  <2>2. Calm(r) => Finds(j, r)'
    BY <1>2, <1>3, <1>4 DEF InHand, Finds, Before
  <2>3. QED BY <1>3, <1>4, <2>1, <2>2 DEF InHand, Calm, Intact
<1>6. Older(r)'
  <2> SUFFICES ASSUME Calm(r), NEW a \in approved[r]
               PROVE  a.plan <= mem.plan.id /\ a.asked \subseteq Asked(r)
    BY <1>2 DEF Older, Calm, Asked
  <2>1. a.plan <= thread[r].state.plan.id /\ a.asked \subseteq Asked(r) /\ a.plan \in Nat
    BY DEF Steady, Older, IInv, TypeOK
  <2>2. thread[r].state.plan.id = job[j].mem.plan.id
    BY <1>4 DEF InHand, Reads, Holding, Before, Planning
  <2>3. QED BY <1>1, <2>1, <2>2
<1>7. Guided(r)'
  <2> SUFFICES ASSUME Kept(r) PROVE Holds(r)'
    BY DEF Guided, Kept, Calm
  <2>1. thread[r].state.notes \subseteq mem.notes
    BY <1>4 DEF Kept, InHand, Reads, Holding, Before, Planning
  <2>2. \A k \in Jobs, g \in Guidance : Carries(k, r, g) => g \in mem.notes
    BY DEF Kept, Steady, OneJob, Carries, Works, Busy
  <2>3. \A g \in mem.notes : g \in thread'[r].state.notes
    BY <1>2
  <2>4. QED BY <2>1, <2>2, <2>3 DEF Holds, Steady, Guided
<1>8. Parked(r)'
  BY <1>2, <1>4 DEF Parked, InHand, Finds, Before, Intact, Calm
<1>9. QED BY <1>3, <1>5, <1>6, <1>7, <1>8, MovedSteady

LEMMA InspectSteady ==
  ASSUME IInv, IInv', NEW r \in Runs, NEW j \in Jobs, Works(j, r), Steady(r), Inspect(j)
  PROVE  Steady(r)'
<1>1. /\ Node(j, job[j].mem, "plan", "plan", job[j].box) /\ job[j].at = "inspect"
      /\ UNCHANGED <<run, note, art, calls, decided, control, approved, wrote, taint>>
      /\ job[j].kind \in {"start", "resume", "replan"}
  BY DEF Inspect, Passes
<1>2. /\ job[j].mem \in Channels /\ job[j].box \in Nat /\ "plan" \in Nodes /\ "plan" \in Stages
      /\ job[j].mem.plan.id \in Nat /\ job[j].kind \in Kinds /\ job[j].run = r
  BY JobTyped DEF Works, Nodes, Stages, Plans
<1>3. job'[j].kind = job[j].kind /\ job'[j].at = "plan" /\ job'[j].box = job[j].box
  BY <1>1, <1>2, MovedJob DEF Node
<1>4. InHand(j, r)
  BY DEF Steady, InHands
<1>5. Calm(r) => job[j].kind \in {"start", "resume"}
  BY <1>1, <1>4 DEF InHand, Finds
<1>6. Intact(r) => Boxed(j, r)'
  BY <1>1, <1>3, <1>4 DEF InHand, Boxed
<1>7. Sound(r)' /\ Ran(r)'
  BY <1>1 DEF Kept, Steady, Sound, Ran, Calm, Intact
<1>8. job[j].mem.plan.id <= job[j].mem.plan.id /\ "inspect" \in Before
  BY <1>2 DEF Before
<1>9. QED BY <1>1, <1>2, <1>5, <1>6, <1>7, <1>8, NodeSteady

\* Every pending text is claimed: it is applied, and in the job's hands.
LEMMA ClaimSteady ==
  ASSUME IInv, IInv', NEW r \in Runs, NEW j \in Jobs, Works(j, r), Steady(r), Claim(j)
  PROVE  Steady(r)'
<1> DEFINE mem == State(job[j].mem.plan, job[j].mem.applied, job[j].mem.passed,
                        job[j].mem.notes \cup Pending(r))
<1>1. /\ job[j].run = r /\ job[j].at = "plan" /\ job[j].kind \in {"start", "resume", "replan"}
      /\ UNCHANGED <<run, thread, art, calls, decided, control, approved, wrote, taint>>
      /\ Moved(j, job[j].kind, "propose", mem, job[j].box)
      /\ note' = [note EXCEPT ![r] =
                    [g \in Guidance |-> IF g \in Pending(r) THEN "APPLIED" ELSE note[r][g]]]
  BY DEF Claim, Passes, Works
<1>2. /\ mem \in Channels /\ job[j].kind \in Kinds /\ job[j].box \in Nat /\ "propose" \in Stages
      /\ mem.plan = job[j].mem.plan /\ mem.notes = job[j].mem.notes \cup Pending(r)
  <2>1. Pending(r) \in SUBSET Guidance
    BY DEF Pending
  <2>2. mem \in Channels
    BY <2>1, JobTyped, StateTyped DEF Works
  <2>3. QED BY <2>2, JobTyped DEF Works, Stages, State
<1> HIDE DEF mem
<1>3. /\ job'[j].kind = job[j].kind /\ job'[j].at = "propose" /\ job'[j].mem = mem
      /\ job'[j].box = job[j].box /\ Works(j, r)'
      /\ \A k \in Jobs : k # j => job'[k] = job[k]
  BY <1>1, <1>2, MovedJob
<1>4. InHand(j, r)
  BY DEF Steady, InHands
<1>5. InHand(j, r)'
  <2>1. Calm(r) => Reads(j, r)'
    BY <1>1, <1>2, <1>3, <1>4 DEF InHand, Reads, Holding, Planning
  <2>2. Calm(r) => Finds(j, r)'
    BY <1>1, <1>3, <1>4 DEF InHand, Finds
  <2>3. Intact(r) => Boxed(j, r)'
    BY <1>1, <1>3, <1>4 DEF InHand, Boxed
  <2>4. QED BY <1>1, <1>3, <1>4, <2>1, <2>2, <2>3 DEF InHand, Calm, Intact
<1>6. \A g \in Guidance : /\ note'[r][g] = "NONE" <=> note[r][g] = "NONE"
                          /\ note'[r][g] = "APPLIED" =>
                               note[r][g] = "APPLIED" \/ g \in Pending(r)
  BY <1>1 DEF Pending, IInv, TypeOK
<1>7. Older(r)' /\ Sound(r)' /\ Ran(r)' /\ Parked(r)'
  BY <1>1, <1>6 DEF Kept, Steady, Older, Sound, Ran, Parked, Asked, Calm, Intact
<1>8. Guided(r)'
  <2>1. \A g \in Pending(r) : Carries(j, r, g)'
    BY <1>2, <1>3 DEF Carries, Works, Busy
  <2>2. \A k \in Jobs, g \in Guidance : Carries(k, r, g) => Carries(k, r, g)'
    BY <1>2, <1>3 DEF Carries, Works, Busy
  <2>3. Holds(r) => Holds(r)'
    BY <1>1, <1>6, <2>1, <2>2 DEF Holds
  <2>4. QED BY <1>1, <2>3 DEF Steady, Guided, Kept, Calm
<1>9. QED BY <1>1, <1>3, <1>5, <1>7, <1>8, MovedSteady

LEMMA ProposeSteady ==
  ASSUME IInv, IInv', NEW r \in Runs, NEW j \in Jobs, Works(j, r), Steady(r),
         NEW e \in Edits, Propose(j, e)
  PROVE  Steady(r)'
<1> DEFINE newest == IF art[r].last > job[j].mem.plan.id THEN art[r].last ELSE job[j].mem.plan.id
           p == [id |-> newest + 1, edits |-> e]
           mem == State(p, job[j].mem.applied, job[j].mem.passed, job[j].mem.notes)
           stage == IF job[j].kind = "resume" THEN "end" ELSE "gate"
<1>1. /\ job[j].run = r /\ job[j].at = "propose"
      /\ UNCHANGED <<run, note, calls, decided, control, approved, wrote, taint>>
      /\ Node(j, mem, "apply", stage, job[j].box)
      /\ art' = [art EXCEPT ![r] = Artifacts(IF art[r].first = 0 THEN p.id ELSE art[r].first,
                                             p.id, art[r].diff, art[r].inBox)]
  BY DEF Propose, Works
<1>2. /\ job[j].kind \in Kinds /\ job[j].box \in Nat /\ stage \in Stages /\ "apply" \in Nodes
      /\ job[j].mem.plan.id \in Nat /\ art[r].last \in Nat /\ "propose" \in Before
  BY JobTyped DEF Works, Stages, Nodes, Plans, Before
<1>3. p \in Plans /\ p.id \in Nat /\ job[j].mem.plan.id <= p.id
  BY <1>2 DEF Plans
<1>4. mem \in Channels /\ mem.plan = p /\ mem.notes = job[j].mem.notes
  <2> HIDE DEF p
  <2>1. mem \in Channels
    BY <1>3, JobTyped, StateTyped DEF Works
  <2>2. QED BY <2>1 DEF State
<1>5. Ran(r)'
  <2>1. art'[r].diff = art[r].diff /\ art'[r].inBox = art[r].inBox
    <3> HIDE DEF p
    <3>1. QED BY <1>1 DEF Artifacts, IInv, TypeOK
  <2>2. QED BY <1>1, <2>1 DEF Steady, Ran, Calm, Intact
<1>6. Sound(r)'
  BY <1>1 DEF Kept, Steady, Sound, Calm
<1>7. Intact(r) => Boxed(j, r)'
  <2> HIDE DEF mem
  <2>1. /\ job'[j].kind = job[j].kind /\ job'[j].at = stage /\ job'[j].box = job[j].box
    BY <1>1, <1>2, <1>4, MovedJob DEF Node
  <2>2. thread'[r].next = "apply"
    BY <1>1 DEF Node, IInv, TypeOK
  <2>3. QED BY <1>1, <2>1, <2>2 DEF Steady, InHands, InHand, Boxed
<1>8. job[j].mem.plan.id <= mem.plan.id
  BY <1>3, <1>4
<1>9. stage # "load" /\ stage \notin {"plan", "propose"}
  OBVIOUS
<1>10. stage = IF job[j].kind = "resume" THEN "end" ELSE "gate"
  OBVIOUS
<1> HIDE DEF p, mem, stage
<1>11. QED BY <1>1, <1>2, <1>4, <1>5, <1>6, <1>7, <1>8, <1>9, <1>10, NodeSteady

\* What is applied has an approval no newer, and every text asked for by then.
LEMMA ApprovedByThen ==
  ASSUME IInv, NEW r \in Runs, NEW j \in Jobs, Works(j, r), Steady(r), Kept(r),
         job[j].kind = "resume", job[j].at = "apply", Pending(r) = {}
  PROVE  \E a \in approved[r] : a.plan <= job[j].mem.plan.id /\ a.asked \subseteq job[j].mem.notes
<1>1. PICK a \in approved[r] : TRUE
  BY DEF IInv, Consent, Works
<1>2. a.plan <= thread[r].state.plan.id /\ a.asked \subseteq Asked(r)
  BY DEF Kept, Steady, Older
<1>3. /\ thread[r].state.plan.id = job[j].mem.plan.id
      /\ thread[r].state.notes \subseteq job[j].mem.notes
  BY DEF Kept, Steady, InHands, InHand, Reads, Holding, Planning
<1>4. Holds(r)
  BY DEF Steady, Guided
<1>5. \A g \in Asked(r) : g \in Guidance /\ note[r][g] = "APPLIED"
  BY DEF Asked, Pending, IInv, TypeOK
<1>6. \A k \in Jobs, g \in Guidance : Carries(k, r, g) => g \in job[j].mem.notes
  BY DEF Kept, Steady, OneJob, Carries, Works, Busy
<1>7. Asked(r) \subseteq job[j].mem.notes
  BY <1>3, <1>4, <1>5, <1>6 DEF Holds
<1>8. QED BY <1>2, <1>3, <1>7

LEMMA ApplySteady ==
  ASSUME IInv, IInv', NEW r \in Runs, NEW j \in Jobs, Works(j, r), Steady(r), Apply(j)
  PROVE  Steady(r)'
<1> DEFINE m == job[j].mem
           e == m.plan.edits
<1>1. /\ job[j].run = r /\ job[j].at = "apply" /\ job[j].kind \in {"start", "resume", "replan"}
      /\ Pending(r) = {}
  BY DEF Apply, Free, Passes, Works
<1>2. /\ m \in Channels /\ m.plan \in Plans /\ m.plan.id \in Nat /\ m.notes \in SUBSET Guidance
      /\ job[j].box \in Nat /\ job[j].kind \in Kinds
      /\ "tests" \in Nodes /\ "tests" \in Stages /\ "apply" \in Before
  BY JobTyped DEF Works, Plans, Nodes, Stages, Before
<1>3. InHand(j, r)
  BY DEF Steady, InHands
<1>4. Calm(r) => job[j].kind # "replan"
  BY <1>1, <1>3 DEF InHand, Finds
<1>5. CASE e = "forbidden" \/ (e = "some" /\ job[j].kind = "replan")
  BY <1>1, <1>5, EndSteady DEF Apply, Terminal
<1>6. CASE e = "some" /\ job[j].kind # "replan"
  <2> DEFINE mem == State(m.plan, TRUE, m.passed, m.notes)
             w0 == [plan |-> m.plan.id, notes |-> m.notes]
  <2>1. /\ Node(j, mem, "tests", "tests", m.plan.id)
        /\ wrote' = [wrote EXCEPT ![r] = wrote[r] \cup {w0}]
        /\ UNCHANGED <<run, note, art, calls, decided, control, approved, taint>>
    BY <1>1, <1>6 DEF Apply
  <2>2. mem \in Channels /\ mem.plan = m.plan /\ mem.notes = m.notes /\ mem.applied = TRUE
    <3>1. mem \in Channels
      BY JobTyped, StateTyped DEF Works
    <3>2. QED BY <3>1 DEF State
  <2>3. w0.plan = m.plan.id /\ w0.notes = m.notes
    OBVIOUS
  <2> HIDE DEF mem, w0
  <2>4. job[j].kind = "resume"
    BY <1>1, <1>6 DEF IInv, NothingToApprove
  <2>5. Sound(r)'
    <3> SUFFICES ASSUME Kept(r), NEW w \in wrote'[r]
                 PROVE  \E a \in approved[r] : a.plan <= w.plan /\ a.asked \subseteq w.notes
      BY <2>1 DEF Kept, Sound, Calm
    <3>1. CASE w \in wrote[r]
      BY <3>1 DEF Kept, Steady, Sound
    <3>2. CASE w \notin wrote[r]
      <4>1. w = w0
        BY <2>1, <3>2 DEF IInv, TypeOK
      <4>2. \E a \in approved[r] : a.plan <= m.plan.id /\ a.asked \subseteq m.notes
        BY <1>1, <2>4, ApprovedByThen
      <4>3. QED BY <2>3, <4>1, <4>2
    <3>3. QED BY <3>1, <3>2
  <2>6. Ran(r)'
    BY <2>1 DEF Steady, Ran, Calm, Intact
  <2>7. Intact(r) => Boxed(j, r)'
    <3>1. job'[j].at = "tests" /\ job'[j].box = m.plan.id /\ job'[j].mem = mem
      BY <1>2, <2>1, <2>2, MovedJob DEF Node
    <3>2. QED BY <2>2, <3>1 DEF Boxed
  <2>8. m.plan.id <= mem.plan.id
    BY <1>2, <2>2
  <2>9. QED BY <1>1, <1>2, <1>4, <2>1, <2>2, <2>4, <2>5, <2>6, <2>7, <2>8, NodeSteady
<1>7. CASE e # "forbidden" /\ e # "some"
  <2> DEFINE mem == State(m.plan, FALSE, m.passed, m.notes)
  <2>1. /\ Node(j, mem, "tests", "tests", job[j].box)
        /\ UNCHANGED <<run, note, art, calls, decided, control, approved, wrote, taint>>
    BY <1>7 DEF Apply
  <2>2. mem \in Channels /\ mem.plan = m.plan /\ mem.notes = m.notes /\ mem.applied = FALSE
    <3>1. mem \in Channels
      BY JobTyped, StateTyped DEF Works
    <3>2. QED BY <3>1 DEF State
  <2> HIDE DEF mem
  <2>3. Sound(r)' /\ Ran(r)'
    BY <2>1 DEF Kept, Steady, Sound, Ran, Calm, Intact
  <2>4. Intact(r) => Boxed(j, r)'
    <3>1. job'[j].at = "tests" /\ job'[j].box = job[j].box /\ job'[j].mem = mem
      BY <1>2, <2>1, <2>2, MovedJob DEF Node
    <3>2. QED BY <1>1, <1>3, <2>2, <3>1 DEF InHand, Boxed
  <2>5. m.plan.id <= mem.plan.id
    BY <1>2, <2>2
  <2>6. job[j].kind \in {"start", "resume"} \/ ~Calm(r)
    BY <1>1, <1>4
  <2>7. QED BY <1>1, <1>2, <2>1, <2>2, <2>3, <2>4, <2>5, <2>6, NodeSteady
<1>8. QED BY <1>5, <1>6, <1>7

LEMMA TestsSteady ==
  ASSUME IInv, IInv', NEW r \in Runs, NEW j \in Jobs, Works(j, r), Steady(r),
         NEW ok \in BOOLEAN, Tests(j, ok)
  PROVE  Steady(r)'
<1> DEFINE m == job[j].mem
           mem == State(m.plan, m.applied, ok, m.notes)
<1>1. /\ job[j].run = r /\ job[j].at = "tests" /\ job[j].kind \in {"start", "resume", "replan"}
      /\ job[j].kind \in Kinds /\ job[j].box \in Nat /\ m.plan.id \in Nat
      /\ "diff" \in Nodes /\ "diff" \in Stages /\ "tests" \in Before
  BY JobTyped DEF Tests, Free, Passes, Works, Nodes, Stages, Plans, Before
<1>2. CASE job[j].kind = "replan"
  BY <1>1, <1>2, EndSteady DEF Tests, Terminal
<1>3. CASE job[j].kind # "replan"
  <2>1. /\ Node(j, mem, "diff", "diff", job[j].box)
        /\ UNCHANGED <<run, note, art, calls, decided, control, approved, wrote, taint>>
    BY <1>3 DEF Tests
  <2>2. mem \in Channels /\ mem.plan = m.plan /\ mem.notes = m.notes /\ mem.applied = m.applied
    <3>1. mem \in Channels
      BY JobTyped, StateTyped DEF Works
    <3>2. QED BY <3>1 DEF State
  <2> HIDE DEF mem
  <2>3. Sound(r)' /\ Ran(r)'
    BY <2>1 DEF Kept, Steady, Sound, Ran, Calm, Intact
  <2>4. Intact(r) => Boxed(j, r)'
    <3>1. job'[j].at = "diff" /\ job'[j].box = job[j].box /\ job'[j].mem = mem
      BY <1>1, <2>1, <2>2, MovedJob DEF Node
    <3>2. QED BY <1>1, <2>2, <3>1 DEF Steady, InHands, InHand, Boxed
  <2>5. m.plan.id <= mem.plan.id
    BY <1>1, <2>2
  <2>6. job[j].kind \in {"start", "resume"}
    BY <1>1, <1>3
  <2>7. QED BY <1>1, <2>1, <2>2, <2>3, <2>4, <2>5, <2>6, NodeSteady
<1>4. QED BY <1>2, <1>3

\* The only step that names the files of a diff.
LEMMA DiffSteady ==
  ASSUME IInv, IInv', NEW r \in Runs, NEW j \in Jobs, Works(j, r), Steady(r), Diff(j)
  PROVE  Steady(r)'
<1> DEFINE m == job[j].mem
           files == IF m.applied THEN m.plan.id ELSE 0
<1>1. /\ job[j].run = r /\ job[j].at = "diff" /\ job[j].kind \in {"start", "resume", "replan"}
      /\ job[j].kind \in Kinds /\ job[j].box \in Nat /\ m.plan.id \in Nat /\ m \in Channels
      /\ "summary" \in Nodes /\ "summary" \in Stages /\ "diff" \in Before
  BY JobTyped DEF Diff, Free, Passes, Works, Nodes, Stages, Plans, Before
<1>2. CASE job[j].kind = "replan"
  BY <1>1, <1>2, EndSteady DEF Diff, Terminal
<1>3. CASE job[j].kind # "replan"
  <2>1. /\ Node(j, m, "summary", "summary", job[j].box)
        /\ art' = [art EXCEPT ![r] = Artifacts(art[r].first, art[r].last, files, job[j].box)]
        /\ UNCHANGED <<run, note, calls, decided, control, approved, wrote, taint>>
    BY <1>1, <1>3 DEF Diff
  <2>2. Intact(r) => job[j].box = files
    BY <1>1 DEF Steady, InHands, InHand, Boxed
  <2> HIDE DEF files
  <2>3. Ran(r)'
    BY <2>1, <2>2 DEF Ran, Calm, Intact, Artifacts, IInv, TypeOK
  <2>4. Sound(r)'
    BY <2>1 DEF Kept, Steady, Sound, Calm
  <2>5. Intact(r) => Boxed(j, r)'
    <3>1. job'[j].at = "summary" /\ job'[j].kind = job[j].kind
      BY <1>1, <2>1, MovedJob DEF Node
    <3>2. QED BY <3>1 DEF Boxed
  <2>6. m.plan.id <= m.plan.id /\ job[j].kind \in {"start", "resume"}
    BY <1>1, <1>3
  <2>7. QED BY <1>1, <2>1, <2>3, <2>4, <2>5, <2>6, NodeSteady
<1>4. QED BY <1>2, <1>3

LEMMA SummarizeSteady ==
  ASSUME IInv, IInv', NEW r \in Runs, NEW j \in Jobs, Works(j, r), Steady(r), Summarize(j)
  PROVE  Steady(r)'
<1> DEFINE m == job[j].mem
<1>1. /\ job[j].run = r /\ job[j].at = "summary" /\ job[j].kind \in Kinds /\ job[j].box \in Nat
      /\ m.plan.id \in Nat /\ m \in Channels
      /\ "end" \in Nodes /\ "end" \in Stages /\ "summary" \in Before
      /\ Node(j, m, "end", "end", job[j].box)
      /\ UNCHANGED <<run, note, art, calls, decided, control, approved, wrote, taint>>
  BY JobTyped DEF Summarize, Works, Nodes, Stages, Plans, Before
<1>2. job[j].kind \in {"start", "resume"} \/ ~Calm(r)
  BY <1>1 DEF Steady, InHands, InHand, Finds, Kinds
<1>3. Sound(r)' /\ Ran(r)'
  BY <1>1 DEF Kept, Steady, Sound, Ran, Calm, Intact
<1>4. Intact(r) => Boxed(j, r)'
  <2>1. job'[j].at = "end"
    BY <1>1, MovedJob DEF Node
  <2>2. QED BY <2>1 DEF Boxed
<1>5. m.plan.id <= m.plan.id
  BY <1>1
<1>6. QED BY <1>1, <1>2, <1>3, <1>4, <1>5, NodeSteady

\* A job that shares its run with another: nothing is claimed of what it does.
LEMMA ShakenSteady ==
  ASSUME IInv, IInv', NEW r \in Runs, NEW j \in Jobs, Works(j, r), Steady(r), ~Calm(r),
         NEW stage \in Stages, GoTo(j, stage),
         UNCHANGED <<run, note, thread, art, calls, approved, wrote, taint>>,
         job[j].kind = "replan"
  PROVE  Steady(r)'
<1>1. /\ job'[j].kind = job[j].kind /\ Works(j, r)'
      /\ \A k \in Jobs : k # j => job'[k] = job[k]
  BY StagedJob
<1>2. InHand(j, r)'
  BY <1>1 DEF InHand, Calm, Intact, Creating
<1>3. Older(r)' /\ Guided(r)' /\ Parked(r)' /\ Sound(r)' /\ Ran(r)'
  BY DEF Kept, Older, Guided, Parked, Sound, Ran, Intact, Calm
<1>4. QED BY <1>1, <1>2, <1>3, MovedSteady

LEMMA FinalizeSteady ==
  ASSUME IInv, IInv', NEW r \in Runs, NEW j \in Jobs, Works(j, r), Steady(r), Finalize(j)
  PROVE  Steady(r)'
<1>1. job[j].at = "end"
  BY DEF Finalize
<1>2. CASE job[j].kind = "replan"
  <2>1. ~Calm(r)
    BY <1>1, <1>2 DEF Steady, InHands, InHand, Finds
  <2>2. /\ GoTo(j, "gate") /\ "gate" \in Stages
        /\ UNCHANGED <<run, note, thread, art, calls, decided, control, approved, wrote, taint>>
    BY <1>2 DEF Finalize, Stages
  <2>3. QED BY <1>2, <2>1, <2>2, ShakenSteady
<1>3. CASE job[j].kind # "replan"
  <2>1. End(j, "FAILED") \/ End(j, "SUCCEEDED")
    BY <1>3 DEF Finalize
  <2>2. QED BY <1>1, <2>1, EndSteady DEF Terminal
<1>4. QED BY <1>2, <1>3

LEMMA GateSteady ==
  ASSUME IInv, IInv', NEW r \in Runs, NEW j \in Jobs, Works(j, r), Steady(r), Gate(j)
  PROVE  Steady(r)'
<1> DEFINE e == thread[job[j].run].state.plan.edits
<1>1. At(j, {"start", "replan"}, "gate") /\ job[j].at = "gate" /\ job[j].kind \in {"start", "replan"}
  BY DEF Gate, At
<1>2. CASE e # "none"
  BY <1>1, <1>2, EndSteady DEF Gate
<1>3. CASE e = "none" /\ job[j].kind = "replan"
  BY <1>1, <1>3, EndSteady DEF Gate, Terminal
<1>4. CASE e = "none" /\ job[j].kind # "replan"
  <2>1. /\ GoTo(j, "load") /\ "load" \in Stages
        /\ UNCHANGED <<run, note, thread, art, calls, decided, control, approved, wrote, taint>>
    BY <1>4 DEF Gate, Stages
  <2>2. /\ job'[j].kind = job[j].kind /\ job'[j].at = "load" /\ job'[j].mem = job[j].mem
        /\ job'[j].box = job[j].box
    BY <2>1, StagedJob
  <2>3. InHand(j, r)
    BY DEF Steady, InHands
  <2>4. InHand(j, r)'
    <3>1. Calm(r) => Reads(j, r)' /\ Finds(j, r)'
      BY <1>1, <1>4, <2>1, <2>2, <2>3 DEF InHand, Reads, Finds, Holding, Planning
    <3>2. Intact(r) => Boxed(j, r)'
      BY <1>1, <1>4, <2>1, <2>2, <2>3 DEF InHand, Boxed
    <3>3. QED BY <1>1, <1>4, <2>1, <2>2, <2>3, <3>1, <3>2 DEF InHand, Calm, Intact
  <2>5. QED BY <1>1, <1>4, <2>1, <2>4, StageSteady
<1>5. QED BY <1>2, <1>3, <1>4

LEMMA RecheckSteady ==
  ASSUME IInv, IInv', NEW r \in Runs, NEW j \in Jobs, Works(j, r), Steady(r), Recheck(j)
  PROVE  Steady(r)'
<1>1. job[j].at = "recheck" /\ job[j].kind = "replan"
  BY DEF Recheck, At
<1>2. CASE Stopped(j)
  BY <1>1, <1>2, EndSteady DEF Recheck, Terminal
<1>3. CASE ~Stopped(j)
  <2>1. /\ GoTo(j, "rewind") /\ "rewind" \in Stages
        /\ UNCHANGED <<run, note, thread, art, calls, decided, control, approved, wrote, taint>>
    BY <1>3 DEF Recheck, Stages
  <2>2. /\ job'[j].kind = job[j].kind /\ job'[j].at = "rewind" /\ job'[j].mem = job[j].mem
        /\ job'[j].box = job[j].box
    BY <2>1, StagedJob
  <2>3. InHand(j, r)
    BY DEF Steady, InHands
  <2>4. InHand(j, r)'
    <3>1. Calm(r) => Reads(j, r)' /\ Finds(j, r)'
      BY <1>1, <2>1, <2>2, <2>3 DEF InHand, Reads, Finds, Holding, Planning
    <3>2. Intact(r) => Boxed(j, r)'
      BY <1>1, <2>1, <2>2, <2>3 DEF InHand, Boxed
    <3>3. QED BY <1>1, <2>1, <2>2, <2>3, <3>1, <3>2 DEF InHand, Creating, Calm, Intact
  <2>5. QED BY <1>1, <2>1, <2>4, StageSteady
<1>4. QED BY <1>2, <1>3

LEMMA RewindSteady ==
  ASSUME IInv, IInv', NEW r \in Runs, NEW j \in Jobs, Works(j, r), Steady(r), Rewind(j)
  PROVE  Steady(r)'
<1>1. /\ job[j].run = r /\ job[j].at = "rewind" /\ job[j].kind = "replan"
      /\ GoTo(j, "load") /\ "load" \in Stages
      /\ UNCHANGED <<run, note, art, calls, decided, control, approved, wrote, taint>>
  BY DEF Rewind, At, Works, Stages
<1>2. thread'[r].next = "plan" /\ thread'[r].state = thread[r].state
  BY <1>1 DEF Rewind, IInv, TypeOK
<1>3. /\ job'[j].kind = "replan" /\ job'[j].at = "load" /\ job'[j].mem = job[j].mem
      /\ job'[j].box = job[j].box /\ Works(j, r)'
      /\ \A k \in Jobs : k # j => job'[k] = job[k]
  BY <1>1, StagedJob
<1>4. InHand(j, r)
  BY DEF Steady, InHands
<1>5. InHand(j, r)'
  <2>1. Calm(r) => Reads(j, r)'
    BY <1>1, <1>2, <1>3, <1>4 DEF InHand, Reads, Holding, Planning
  <2>2. Calm(r) => Finds(j, r)'
    BY <1>1, <1>2, <1>3, <1>4 DEF InHand, Finds
  <2>3. Intact(r) => Boxed(j, r)'
    <3>1. Intact(r) => job[j].box = 0
      BY <1>1, <1>4 DEF InHand, Boxed
    <3>2. QED BY <1>2, <1>3, <3>1 DEF Boxed
  <2>4. QED BY <1>1, <1>3, <2>1, <2>2, <2>3 DEF InHand, Creating, Calm, Intact
<1>6. Older(r)' /\ Sound(r)' /\ Ran(r)' /\ Parked(r)'
  BY <1>1, <1>2 DEF Kept, Steady, Older, Sound, Ran, Parked, Asked, Calm, Intact
<1>7. Guided(r)'
  <2>1. \A k \in Jobs, g \in Guidance : Carries(k, r, g) => Carries(k, r, g)'
    BY <1>3 DEF Carries, Works, Busy
  <2>2. QED BY <1>1, <1>2, <2>1 DEF Holds, Steady, Guided, Kept, Calm
<1>8. QED BY <1>1, <1>3, <1>5, <1>6, <1>7, MovedSteady

LEMMA SteeredSteady ==
  ASSUME IInv, IInv', NEW r \in Runs, NEW j \in Jobs, Works(j, r), Steady(r), Steered(j)
  PROVE  Steady(r)'
<1>1. /\ job[j].run = r /\ job[j].at \in {"apply", "tests", "diff"}
      /\ job[j].kind \in {"start", "resume", "replan"}
  BY DEF Steered, Works
<1>2. CASE job[j].kind = "resume"
  <2>1. /\ Moved(j, "replan", "recheck", job[j].mem, 0)
        /\ UNCHANGED <<run, note, thread, art, calls, decided, control, approved, wrote, taint>>
    BY <1>2 DEF Steered
  <2>2. "replan" \in Kinds /\ "recheck" \in Stages /\ job[j].mem \in Channels /\ 0 \in Nat
    BY JobTyped DEF Works, Kinds, Stages
  <2>3. /\ job'[j].kind = "replan" /\ job'[j].at = "recheck" /\ job'[j].mem = job[j].mem
        /\ job'[j].box = 0 /\ Works(j, r)'
        /\ \A k \in Jobs : k # j => job'[k] = job[k]
    BY <2>1, <2>2, MovedJob
  <2>4. InHand(j, r)
    BY DEF Steady, InHands
  <2>5. InHand(j, r)'
    <3>1. Calm(r) => Reads(j, r)' /\ Finds(j, r)'
      BY <1>1, <1>2, <2>1, <2>3, <2>4 DEF InHand, Reads, Finds, Holding, Planning
    <3>2. Intact(r) => Boxed(j, r)'
      BY <2>1, <2>3 DEF Boxed
    <3>3. QED BY <2>1, <2>3, <3>1, <3>2 DEF InHand, Creating, Calm, Intact
  <2>6. Older(r)' /\ Sound(r)' /\ Ran(r)' /\ Parked(r)'
    BY <2>1 DEF Kept, Steady, Older, Sound, Ran, Parked, Asked, Calm, Intact
  <2>7. Guided(r)'
    <3>1. \A k \in Jobs, g \in Guidance : Carries(k, r, g) => Carries(k, r, g)'
      BY <2>3 DEF Carries, Works, Busy
    <3>2. QED BY <2>1, <3>1 DEF Holds, Steady, Guided, Kept, Calm
  <2>8. QED BY <2>1, <2>3, <2>5, <2>6, <2>7, MovedSteady
<1>3. CASE job[j].kind = "replan"
  BY <1>1, <1>3, EndSteady DEF Steered, Terminal
<1>4. CASE job[j].kind = "start"
  BY <1>1, <1>4, DiesSteady DEF Steered
<1>5. QED BY <1>1, <1>2, <1>3, <1>4

\* A fork is checked, takes its source's thread as it stands, and waits at the gate.
LEMMA ForkSteady ==
  ASSUME IInv, IInv', NEW r \in Runs, NEW j \in Jobs, Works(j, r), Steady(r),
         ForkCheck(j) \/ ForkCopy(j) \/ ForkPark(j)
  PROVE  Steady(r)'
<1>1. job[j].run = r /\ job[j].kind = "fork" /\ InHand(j, r)
  BY DEF ForkCheck, ForkCopy, ForkPark, At, Works, Steady, InHands
<1>2. CASE ForkCheck(j)
  <2>1. CASE End(j, "FAILED")
    BY <1>2, <2>1, EndSteady DEF ForkCheck, At, Terminal
  <2>2. CASE ~End(j, "FAILED")
    <3>1. /\ GoTo(j, "copy") /\ "copy" \in Stages /\ job[j].at = "check"
          /\ UNCHANGED <<run, note, thread, art, calls, decided, control, approved, wrote, taint>>
      BY <1>2, <2>2 DEF ForkCheck, At, Stages
    <3>2. /\ job'[j].kind = job[j].kind /\ job'[j].at = "copy" /\ job'[j].mem = job[j].mem
      BY <3>1, StagedJob
    <3>3. InHand(j, r)'
      <4>1. Calm(r) => Reads(j, r)' /\ Finds(j, r)'
        BY <1>1, <3>1, <3>2 DEF InHand, Reads, Finds, Holding, Planning
      <4>2. Boxed(j, r)'
        BY <1>1, <3>1, <3>2 DEF Boxed
      <4>3. QED BY <1>1, <3>1, <3>2, <4>1, <4>2 DEF InHand, Blank, Calm, Intact
    <3>4. QED BY <1>1, <3>1, <3>3, StageSteady
  <2>3. QED BY <2>1, <2>2
<1>3. CASE ForkCopy(j)
  <2> DEFINE s == run[r].source
  <2>1. /\ GoTo(j, "park") /\ "park" \in Stages /\ job[j].at = "copy" /\ s \in Runs
        /\ UNCHANGED <<run, note, art, calls, decided, control, approved, wrote>>
        /\ thread' = [thread EXCEPT ![r] = thread[s]]
        /\ Tainted(r, When(thread[s].next # "apply" \/ Live(s) # {}, "torn"))
    BY <1>1, <1>3 DEF ForkCopy, At, Stages, IInv, Forked
  <2>2. taint'[r] = taint[r] \cup When(thread[s].next # "apply" \/ Live(s) # {}, "torn")
    BY <2>1 DEF Tainted, IInv, TypeOK
  <2>3. /\ thread'[r] = thread[s] /\ taint[r] \subseteq taint'[r]
        /\ thread[s].next # "apply" => "torn" \in taint'[r]
        /\ Calm(r)' <=> Calm(r)
    BY <2>1, <2>2 DEF When, IInv, TypeOK, Calm
  <2>4. /\ job'[j].kind = job[j].kind /\ job'[j].at = "park" /\ job'[j].mem = job[j].mem
        /\ Works(j, r)' /\ \A k \in Jobs : k # j => job'[k] = job[k]
    BY <2>1, StagedJob
  <2> HIDE DEF s
  <2>5. approved[r] = {} /\ (Calm(r) => job[j].mem.notes = {} /\ thread[r].state.notes = {})
    BY <1>1, <2>1 DEF InHand, Reads, Blank, Creating
  <2>6. InHand(j, r)'
    <3>1. Calm(r) => Reads(j, r)' /\ Finds(j, r)'
      BY <1>1, <2>4, <2>5 DEF Reads, Finds, Holding, Planning
    <3>2. Intact(r)' => Boxed(j, r)'
      BY <1>1, <2>3, <2>4 DEF Boxed, Intact
    <3>3. QED BY <1>1, <2>1, <2>3, <2>4, <2>5, <3>1, <3>2 DEF InHand, Creating, Intact
  <2>7. Older(r)' /\ Sound(r)' /\ Ran(r)'
    BY <2>1, <2>3, <2>5 DEF Kept, Steady, Older, Sound, Ran, Intact, Calm
  <2>8. Parked(r)'
    BY <2>3 DEF Parked, Intact
  <2>9. Guided(r)'
    <3> SUFFICES ASSUME Kept(r) PROVE Holds(r)'
      BY <2>3 DEF Guided, Kept
    <3>1. \A k \in Jobs, g \in Guidance : ~Carries(k, r, g)
      BY <2>5 DEF Kept, Carries, Works, Busy, Steady, OneJob
    <3>2. QED BY <2>1, <2>5, <3>1 DEF Kept, Holds, Steady, Guided
  <2>10. run'[r].slot = run[r].slot /\ run'[r].status = run[r].status /\ UNCHANGED <<calls, approved>>
    BY <2>1
  <2>11. QED BY <2>3, <2>4, <2>6, <2>7, <2>8, <2>9, <2>10, MovedSteady
<1>4. CASE ForkPark(j)
  BY <1>4, EndSteady DEF ForkPark, At
<1>5. QED BY <1>2, <1>3, <1>4

LEMMA BreakSteady ==
  ASSUME IInv, IInv', NEW r \in Runs, NEW j \in Jobs, Works(j, r), Steady(r), Break(j)
  PROVE  Steady(r)'
<1>1. CASE Dies(j)
  BY <1>1, DiesSteady
<1>2. CASE ~Dies(j)
  <2>1. /\ Became(job[j].run, "FAILED") /\ Over(j) /\ job[j].run = r
        /\ Tainted(r, When(job[j].at = "propose", "lost"))
        /\ UNCHANGED <<note, thread, art, calls, approved, wrote>>
    BY <1>2 DEF Break, Works
  <2>2. taint[r] \subseteq taint'[r] /\ (job[j].at = "propose" => "lost" \in taint'[r])
    BY <2>1 DEF Tainted, When, IInv, TypeOK
  <2>3. QED BY <2>1, <2>2, OverSteady DEF Terminal
<1>3. QED BY <1>1, <1>2

\* Whatever a job does, its run stays steady.
LEMMA JobSteady ==
  ASSUME IInv, IInv', NEW r \in Runs, NEW j \in Jobs, Works(j, r), Steady(r),
         JobStep(j) \/ Break(j)
  PROVE  Steady(r)'
<1>1. CASE Break(j)
  BY <1>1, BreakSteady
<1>2. CASE \E stage \in {"inspect", "plan", "apply", "tests", "diff"} : Checkpoint(j, stage)
  BY <1>2, EndSteady DEF Checkpoint, Terminal
<1>3. CASE Load(j) \/ Steered(j) \/ Inspect(j) \/ Claim(j) \/ Apply(j) \/ Diff(j) \/ Summarize(j)
  BY <1>3, LoadSteady, SteeredSteady, InspectSteady, ClaimSteady, ApplySteady, DiffSteady,
     SummarizeSteady
<1>4. CASE \E e \in Edits : Propose(j, e)
  BY <1>4, ProposeSteady
<1>5. CASE \E ok \in BOOLEAN : Tests(j, ok)
  BY <1>5, TestsSteady
<1>6. CASE Begin(j) \/ Prepare(j) \/ Gate(j) \/ Finalize(j) \/ Recheck(j) \/ Rewind(j)
  BY <1>6, BeginSteady, PrepareSteady, GateSteady, FinalizeSteady, RecheckSteady, RewindSteady
<1>7. CASE Reject(j) \/ ReviewRun(j)
  <2>1. End(j, "CANCELLED") \/ End(j, "SUCCEEDED") \/ End(j, "FAILED")
    BY <1>7 DEF Reject, ReviewRun
  <2>2. job[j].at # "propose"
    BY <1>7 DEF Reject, ReviewRun, At
  <2>3. QED BY <2>1, <2>2, EndSteady DEF Terminal
<1>8. CASE ForkCheck(j) \/ ForkCopy(j) \/ ForkPark(j)
  BY <1>8, ForkSteady
<1>9. QED BY <1>1, <1>2, <1>3, <1>4, <1>5, <1>6, <1>7, <1>8 DEF JobStep, GraphNode

LEMMA JobElsewhere ==
  ASSUME IInv, NEW j \in Jobs, Busy(j), JobStep(j) \/ Break(j), NEW s \in Runs, s # job[j].run
  PROVE  Untouched(s)
<1>1. Within(j)
  BY JobWithin
<1>2. job[j].run \in Runs
  BY JobTyped
<1>3. /\ \A k \in Jobs : Works(k, s)' <=> Works(k, s)
      /\ \A k \in Jobs : Works(k, s) => job'[k] = job[k]
  BY <1>1 DEF Within, Works, Busy
<1>4. QED BY <1>1, <1>3 DEF Within, Untouched

-----------------------------------------------------------------------------
\* A run that is made: queued, with its slot, nothing done yet.
LEMMA InsertSteady ==
  ASSUME IInv, NEW r \in Runs, Steady(r), NEW agent, NEW t, NEW source, NEW op \in Creating,
         Insert(r, agent, t, source), Send(op, r)
  PROVE  Steady(r)'
<1> DEFINE c0 == [op |-> op, run |-> r, handled |-> FALSE]
<1>1. /\ run[r].status = "NONE"
      /\ UNCHANGED <<note, thread, art, job, decided, control, approved, wrote, taint>>
      /\ calls' = calls \cup {c0} /\ c0.run = r
  BY DEF Insert, Send
<1>2. run'[r].status = "QUEUED" /\ run'[r].slot = TRUE
  BY DEF Insert, IInv, TypeOK
<1>3. /\ \A j \in Jobs : ~Works(j, r) /\ ~Works(j, r)'
      /\ \A c \in calls : c.run # r
  BY <1>1 DEF IInv, Begun, Works, Busy
<1> HIDE DEF c0
<1>4. OneJob(r)' /\ InHands(r)'
  BY <1>3 DEF OneJob, InHands
<1>5. Opened(r)'
  BY <1>1, <1>2, <1>3 DEF Steady, Opened, Opening, Blank
<1>6. Settled(r)'
  BY <1>2, <1>3 DEF Settled, Active
<1>7. Older(r)' /\ Parked(r)' /\ Sound(r)' /\ Ran(r)'
  BY <1>1, <1>2 DEF Kept, Steady, Older, Parked, Sound, Ran, Asked, Calm, Intact
<1>8. Guided(r)'
  BY <1>1 DEF Steady, Guided, Kept, Holds, Carries, Calm
<1>9. QED BY <1>4, <1>5, <1>6, <1>7, <1>8 DEF Steady

\* A member decides on the plan at the gate.
LEMMA DecideSteady ==
  ASSUME IInv, NEW r \in Runs, Steady(r), NEW op, Decide(r, op)
  PROVE  Steady(r)'
<1> DEFINE c0 == [op |-> op, run |-> r, handled |-> FALSE]
           a0 == [plan |-> thread[r].state.plan.id, shown |-> art[r].first, asked |-> Asked(r)]
<1>1. /\ run[r].status = "AWAITING_APPROVAL" /\ op \in {"approve", "reject"}
      /\ UNCHANGED <<run, note, thread, art, job, wrote, taint>>
      /\ calls' = calls \cup {c0} /\ c0.run = r /\ c0.op = op
      /\ approved' = [approved EXCEPT ![r] = approved[r] \cup {a0}] \/ approved' = approved
  BY DEF Decide, Send
<1>2. a0.plan = thread[r].state.plan.id /\ a0.asked = Asked(r) /\ thread[r].state.plan.id \in Nat
  BY DEF IInv, TypeOK, Channels, Plans
<1> HIDE DEF c0, a0
<1>3. \A a \in approved'[r] : a \in approved[r] \/ a = a0
  BY <1>1 DEF IInv, TypeOK
<1>4. approved[r] \subseteq approved'[r]
  BY <1>1 DEF IInv, TypeOK
<1>5. /\ \A c \in calls : c.run = r => ~Opening(c)
      /\ \A j \in Jobs : Works(j, r) => job[j].kind \notin Creating
  BY <1>1 DEF Steady, Opened, IInv, Alone, Works
<1>6. OneJob(r)' /\ Settled(r)' /\ Parked(r)' /\ Ran(r)'
  BY <1>1 DEF Steady, OneJob, Settled, Parked, Ran, Works, Busy, Calm, Intact
<1>7. Opened(r)'
  BY <1>1, <1>5 DEF Steady, Opened, Opening, Creating
<1>8. InHands(r)'
  <2> SUFFICES ASSUME NEW j \in Jobs, Works(j, r)' PROVE InHand(j, r)'
    BY DEF InHands
  <2>1. Works(j, r) /\ InHand(j, r)
    BY <1>1 DEF Works, Busy, Steady, InHands
  <2>2. QED BY <1>1, <1>5, <2>1 DEF InHand, Blank, Creating, Calm, Intact, Reads, Finds, Boxed,
                                   Holding
<1>9. Older(r)'
  <2> SUFFICES ASSUME Calm(r), NEW a \in approved'[r]
               PROVE  a.plan <= thread[r].state.plan.id /\ a.asked \subseteq Asked(r)
    BY <1>1 DEF Older, Calm, Asked
  <2>1. QED BY <1>2, <1>3 DEF Steady, Older
<1>10. Sound(r)'
  BY <1>1, <1>4 DEF Kept, Steady, Sound, Calm
<1>11. Guided(r)'
  <2>1. Holds(r) => Holds(r)'
    BY <1>1 DEF Holds, Carries
  <2>2. QED BY <1>1, <2>1 DEF Steady, Guided, Kept, Calm
<1>12. QED BY <1>6, <1>7, <1>8, <1>9, <1>10, <1>11 DEF Steady

\* A status a request writes, and what it leaves: no job moves, and the run is not
\* brought to the gate.
LEMMA WrittenSteady ==
  ASSUME IInv, NEW r \in Runs, Steady(r),
         UNCHANGED <<thread, art, job, approved, wrote>>,
         taint[r] \subseteq taint'[r], run'[r].status # "NONE",
         run'[r].status \notin {"QUEUED", "AWAITING_APPROVAL"} \/ run'[r].status = run[r].status,
         Opened(r)', Settled(r)',
         Asked(r) \subseteq Asked(r)', \A g \in Guidance : note'[r][g] = "APPLIED" => note[r][g] = "APPLIED"
  PROVE  Steady(r)'
<1>1. OneJob(r)' /\ Ran(r)' /\ Sound(r)'
  BY DEF Kept, Steady, OneJob, Ran, Sound, Works, Busy, Calm, Intact
<1>2. InHands(r)'
  <2> SUFFICES ASSUME NEW j \in Jobs, Works(j, r)' PROVE InHand(j, r)'
    BY DEF InHands
  <2>1. Works(j, r) /\ InHand(j, r)
    BY DEF Works, Busy, Steady, InHands
  <2>2. Calm(r)' => Calm(r) /\ Reads(j, r)' /\ Finds(j, r)'
    BY <2>1 DEF InHand, Calm, Reads, Finds, Holding
  <2>3. Intact(r)' => Boxed(j, r)'
    BY <2>1 DEF InHand, Calm, Intact, Boxed
  <2>4. QED BY <2>1, <2>2, <2>3 DEF InHand, Blank, Creating
<1>3. Older(r)'
  BY DEF Steady, Older, Calm
<1>4. Parked(r)'
  BY DEF Steady, Parked, Calm, Intact
<1>5. Guided(r)'
  <2>1. Holds(r) => Holds(r)'
    BY DEF Holds, Carries
  <2>2. QED BY <2>1 DEF Kept, Steady, Guided, Calm
<1>6. QED BY <1>1, <1>2, <1>3, <1>4, <1>5 DEF Steady

LEMMA CancelCommitSteady ==
  ASSUME IInv, Seen, NEW m \in Controls, CancelCommit(m), NEW r \in Runs, r = control[m].run,
         Steady(r)
  PROVE  Steady(r)'
<1>1. /\ UNCHANGED <<note, thread, art, job, calls, decided, approved, wrote>>
      /\ control[m] \in Control /\ run[r].status # "NONE"
  BY ControlTyped DEF CancelCommit
<1>2. CASE control[m].atGate
  <2>1. /\ run' = [run EXCEPT ![r] = Updated(r, "CANCELLED", FALSE, TRUE)]
        /\ \A c \in calls : Opening(c) => c.run # r
    BY <1>1, <1>2 DEF CancelCommit, Seen
  <2>2. run'[r].status = "CANCELLED" /\ run'[r].slot = FALSE
    BY <2>1 DEF Updated, IInv, TypeOK
  <2>3. taint[r] \subseteq taint'[r] /\ (Live(r) # {} => "overlap" \in taint'[r])
    BY <1>2 DEF CancelCommit, Tainted, When, IInv, TypeOK
  <2>4. Calm(r)' => \A j \in Jobs : ~Works(j, r)
    BY <2>3 DEF Calm, Live, Works, Busy
  <2>5. Opened(r)'
    BY <1>1, <2>1, <2>2 DEF Steady, Opened, Opening
  <2>6. Settled(r)'
    BY <1>1, <2>2, <2>4 DEF Settled, Late, Active, Works, Busy, Calm
  <2>7. Asked(r) \subseteq Asked(r)'
    BY <1>1 DEF Asked
  <2>8. QED BY <1>1, <2>2, <2>3, <2>5, <2>6, <2>7, WrittenSteady
<1>3. CASE ~control[m].atGate
  <2>1. run' = [run EXCEPT ![r] = Updated(r, run[r].status, run[r].slot, TRUE)] /\ taint' = taint
    BY <1>3 DEF CancelCommit
  <2>2. run'[r].status = run[r].status /\ run'[r].slot = run[r].slot
    BY <2>1 DEF Updated, IInv, TypeOK
  <2>3. Opened(r)' /\ Settled(r)'
    BY <1>1, <2>1, <2>2 DEF Steady, Opened, Opening, Blank, Settled, Works, Busy
  <2>4. Asked(r) \subseteq Asked(r)'
    BY <1>1 DEF Asked
  <2>5. QED BY <1>1, <2>1, <2>2, <2>3, <2>4, WrittenSteady
<1>4. QED BY <1>2, <1>3

LEMMA RedirectCommitSteady ==
  ASSUME IInv, Seen, NEW m \in Controls, NEW g \in Guidance, RedirectCommit(m, g),
         NEW r \in Runs, r = control[m].run, Steady(r)
  PROVE  Steady(r)'
<1> DEFINE c0 == [op |-> "redirect", run |-> r, handled |-> FALSE]
<1>1. /\ UNCHANGED <<thread, art, job, decided, approved, wrote>>
      /\ calls' = calls \cup {c0} /\ c0.op = "redirect"
      /\ note' = [note EXCEPT ![r] = [note[r] EXCEPT ![g] = "PENDING"]]
      /\ control[m] \in Control /\ run[r].status # "NONE"
  BY ControlTyped DEF RedirectCommit, Recorded, Send
<1> HIDE DEF c0
<1>2. \A h \in Guidance : /\ note[r][h] # "NONE" => note'[r][h] # "NONE"
                          /\ note'[r][h] = "APPLIED" => note[r][h] = "APPLIED"
  BY <1>1 DEF IInv, TypeOK
<1>3. Asked(r) \subseteq Asked(r)'
  BY <1>2 DEF Asked
<1>4. CASE control[m].atGate
  <2>1. Became(r, "RUNNING") /\ \A c \in calls : Opening(c) => c.run # r
    BY <1>1, <1>4 DEF RedirectCommit, Replanning, Seen
  <2>2. run'[r].slot = run[r].slot /\ run'[r].status = "RUNNING"
    BY <2>1 DEF Became, Updated, Terminal, IInv, TypeOK, Row
  <2>3. /\ taint[r] \subseteq taint'[r]
        /\ run[r].status \in Terminal => "overtaken" \in taint'[r]
    BY <1>4 DEF RedirectCommit, Replanning, Tainted, When, IInv, TypeOK
  <2>4. Opened(r)'
    BY <1>1, <2>1, <2>2 DEF Steady, Opened, Opening, Creating
  <2>5. Settled(r)'
    <3> SUFFICES ASSUME taint'[r] \cap Late = {}
                 PROVE  run'[r].slot /\ "RUNNING" \in Active
      BY <2>2 DEF Settled
    <3>1. taint[r] \cap Late = {} /\ run[r].status \notin Terminal
      BY <2>3 DEF Late
    <3>2. run[r].status \in Active
      BY <1>1, <3>1 DEF IInv, TypeOK, Row, Status
    <3>3. QED BY <2>2, <3>1, <3>2 DEF Steady, Settled, Active
  <2>6. QED BY <1>1, <1>2, <1>3, <2>2, <2>3, <2>4, <2>5, WrittenSteady
<1>5. CASE ~control[m].atGate
  <2>1. run' = run /\ taint' = taint
    BY <1>5 DEF RedirectCommit
  <2>2. Opened(r)' /\ Settled(r)'
    BY <1>1, <2>1 DEF Steady, Opened, Opening, Creating, Blank, Settled, Works, Busy
  <2>3. QED BY <1>1, <1>2, <1>3, <2>1, <2>2, WrittenSteady
<1>6. QED BY <1>4, <1>5

\* The request that creates the run is given up, or refused: the run has failed.
LEMMA FailedSteady ==
  ASSUME IInv, NEW c \in calls, Steady(c.run), c.op \in Creating,
         GiveUp(c) \/ (Refuse(c) /\ ~c.handled /\ Became(c.run, "FAILED"))
  PROVE  Steady(c.run)'
<1> DEFINE r == c.run
           c1 == [op |-> c.op, run |-> c.run, handled |-> TRUE]
<1>1. r \in Runs
  BY DEF IInv, TypeOK, Call
<1>2. /\ Became(r, "FAILED")
      /\ UNCHANGED <<note, thread, art, job, decided, control, approved, wrote>>
      /\ calls' = calls \ {c} \/ calls' = (calls \ {c}) \cup {c1}
  BY DEF GiveUp, Refuse, Handled
<1>3. c1.handled = TRUE
  OBVIOUS
<1> HIDE DEF r, c1
<1>4. run'[r].status = "FAILED" /\ run'[r].slot = FALSE
  BY <1>1, <1>2 DEF Became, Updated, Terminal, IInv, TypeOK
<1>5. c.run = r
  BY DEF r
<1>6. /\ taint[r] \subseteq taint'[r]
      /\ c.handled => "gaveUp" \in taint'[r]
  <2>1. CASE GiveUp(c)
    BY <1>1, <1>5, <2>1 DEF GiveUp, Tainted, When, IInv, TypeOK
  <2>2. CASE Refuse(c) /\ ~c.handled
    BY <2>2 DEF Refuse
  <2>3. QED BY <2>1, <2>2
<1>7. \A d \in calls' : d.run = r /\ d.op \in Creating => d = c1
  BY <1>1, <1>2, <1>5 DEF Steady, Opened
<1>8. Opened(r)'
  <2>1. \A d \in calls' : d.run = r /\ d.op \in Creating => d.handled = TRUE
    BY <1>3, <1>7
  <2>2. \A d \in calls' : d.run = r => ~Opening(d)
    BY <2>1 DEF Opening
  <2>3. QED BY <1>4, <1>7, <2>2 DEF Opened, Opening, Creating
<1>9. Settled(r)'
  <2>1. ~c.handled => \A j \in Jobs : ~Works(j, r)
    BY <1>5 DEF IInv, Alone, Opening, Works
  <2>2. QED BY <1>2, <1>4, <1>6, <2>1 DEF Settled, Late, Active, Works, Busy
<1>10. Asked(r) \subseteq Asked(r)' /\ run'[r].status # "NONE"
       /\ run'[r].status \notin {"QUEUED", "AWAITING_APPROVAL"}
  BY <1>2, <1>4 DEF Asked
<1>11. Steady(r)
  BY <1>5
<1>12. QED BY <1>1, <1>2, <1>5, <1>6, <1>8, <1>9, <1>10, <1>11, WrittenSteady

\* A request that becomes a job finds its run as the request's kind promises.
Enters(c, kind, at) ==
    \/ kind \in Creating /\ c.op = kind /\ at = IF kind = "start" THEN "begin" ELSE "check"
    \/ /\ run[c.run].status = "AWAITING_APPROVAL"
       /\ \/ kind = "resume" /\ at = "begin" /\ c.op = "approve"
          \/ kind = "reject" /\ at = "reject" /\ c.op = "reject"
          \/ kind = "replan" /\ at = "recheck" /\ c.op = "redirect"

LEMMA ScheduleSteady ==
  ASSUME IInv, IInv', NEW c \in calls, Steady(c.run), ~c.handled, NEW kind, NEW at,
         Enters(c, kind, at), Schedule(c, kind, at)
  PROVE  Steady(c.run)'
<1> DEFINE r == c.run
           new == [kind |-> kind, run |-> c.run, at |-> at, mem |-> Empty, box |-> 0]
           c1 == [op |-> c.op, run |-> c.run, handled |-> TRUE]
<1>1. r \in Runs
  BY DEF IInv, TypeOK, Call
<1>2. PICK i \in Jobs : job[i].kind = "idle" /\ job' = [job EXCEPT ![i] = new]
  BY DEF Schedule
<1>3. /\ UNCHANGED <<run, note, thread, art, decided, control, approved, wrote>>
      /\ Tainted(r, When(Live(r) # {} \/ run[r].status \in Terminal, "overlap"))
      /\ calls' = calls \ {c} \/ (c.op \in Creating /\ calls' = (calls \ {c}) \cup {c1})
  BY DEF Schedule, Handled
<1>4. /\ new.kind = kind /\ new.run = r /\ new.at = at /\ new.mem = Empty /\ new.box = 0
      /\ c1.handled = TRUE /\ c1.op = c.op /\ c1.run = c.run
  OBVIOUS
<1>5. c.run = r
  OBVIOUS
<1> HIDE DEF r, new, c1
<1>6. /\ job'[i] = new /\ \A k \in Jobs : k # i => job'[k] = job[k]
      /\ ~Works(i, r) /\ Works(i, r)' /\ kind # "idle"
  BY <1>2, <1>4 DEF IInv, TypeOK, Works, Busy, Enters, Creating
<1>7. /\ taint[r] \subseteq taint'[r]
      /\ Calm(r)' => /\ Calm(r) /\ run[r].status \notin Terminal
                     /\ \A k \in Jobs : ~Works(k, r)
  BY <1>1, <1>3 DEF Tainted, When, IInv, TypeOK, Calm, Live, Works, Busy
<1>8. OneJob(r)'
  BY <1>6, <1>7 DEF OneJob, Works, Busy
<1>9. run[r].status # "NONE"
  BY <1>1, <1>5 DEF IInv, Begun
<1>10. Opened(r)'
  <2>1. \A d \in calls' : d.run = r => ~Opening(d)
    BY <1>6 DEF IInv, Alone, Opening, Creating, Works, Busy
  <2>2. \A d \in calls' : d.run = r /\ d.op \in Creating => d = c1 \/ (d \in calls /\ d # c)
    BY <1>3
  <2>3. \A d, e \in calls' : d.run = r /\ e.run = r /\ d.op \in Creating /\ e.op \in Creating => d = e
    <3>1. CASE c.op \in Creating
      BY <1>3, <1>5, <2>2, <3>1 DEF Steady, Opened
    <3>2. CASE c.op \notin Creating
      BY <1>3, <1>5, <3>2 DEF Steady, Opened
    <3>3. QED BY <3>1, <3>2
  <2>4. QED BY <1>3, <1>9, <2>1, <2>3 DEF Opened, Opening, Creating
<1>11. Settled(r)'
  <2>1. run[r].status \in Status
    BY <1>1 DEF IInv, TypeOK, Row
  <2>2. QED BY <1>3, <1>5, <1>7, <1>9, <2>1 DEF Steady, Settled, Late, Status, Calm
<1>12. InHands(r)'
  <2> SUFFICES ASSUME NEW k \in Jobs, Works(k, r)' PROVE InHand(k, r)'
    BY DEF InHands
  <2>1. CASE k # i
    <3>1. Works(k, r) /\ job'[k] = job[k] /\ InHand(k, r)
      BY <1>5, <1>6, <2>1 DEF Works, Busy, Steady, InHands
    <3>2. ~Calm(r)'
      BY <1>7, <3>1
    <3>3. QED BY <1>3, <3>1, <3>2 DEF InHand, Intact, Blank, Creating
  <2>2. CASE k = i
    <3>1. /\ job'[k].kind = kind /\ job'[k].at = at /\ job'[k].mem.notes = {}
          /\ job'[k].mem.plan.id = 0 /\ job'[k].box = 0
      BY <1>4, <1>6, <2>2 DEF Empty, NoPlan
    <3>2. CASE kind \in Creating
      <4>1. Opening(c)
        BY <3>2 DEF Enters, Opening, Creating
      <4>2. approved[r] = {} /\ Blank(r)
        BY <1>5, <4>1 DEF Steady, Opened
      <4>3. Reads(k, r)' /\ Finds(k, r)'
        BY <1>3, <3>1, <3>2, <4>2 DEF Enters, Creating, Blank, Reads, Finds, Holding, Planning
      <4>4. Boxed(k, r)'
        BY <3>1, <3>2 DEF Enters, Creating, Boxed
      <4>5. QED BY <1>3, <3>1, <3>2, <4>2, <4>3, <4>4 DEF InHand, Enters, Creating, Blank
    <3>3. CASE kind \notin Creating
      <4>1. Reads(k, r)' /\ Finds(k, r)'
        BY <1>3, <1>5, <3>1, <3>3 DEF Enters, Creating, Reads, Finds, Holding, Planning
      <4>2. Intact(r)' => Boxed(k, r)'
        <5>1. Intact(r)' /\ kind = "resume" => thread[r].next \in {"plan", "apply"}
          BY <1>5, <1>7, <3>3 DEF Enters, Creating, Steady, Parked, Intact, Calm
        <5>2. QED BY <1>3, <3>1, <3>3, <5>1 DEF Enters, Creating, Boxed
      <4>3. QED BY <3>1, <3>3, <4>1, <4>2 DEF InHand, Enters, Creating
    <3>4. QED BY <3>2, <3>3
  <2>3. QED BY <2>1, <2>2
<1>13. Older(r)' /\ Parked(r)' /\ Sound(r)' /\ Ran(r)'
  BY <1>3, <1>5, <1>7 DEF Kept, Steady, Older, Parked, Sound, Ran, Asked, Calm, Intact
<1>14. Guided(r)'
  <2>1. Calm(r)' /\ Holds(r) => Holds(r)'
    BY <1>3, <1>7 DEF Holds, Carries, Works, Busy
  <2>2. QED BY <1>5, <1>7, <2>1 DEF Steady, Guided, Kept
<1>15. QED BY <1>5, <1>8, <1>10, <1>11, <1>12, <1>13, <1>14 DEF Steady

\* The runtime restarts: every job is gone, and with it what it had claimed.
LEMMA RestartSteady ==
  ASSUME IInv, NEW r \in Runs, Steady(r), Restart
  PROVE  Steady(r)'
<1>1. /\ \A j \in Jobs : ~Works(j, r)'
      /\ calls' = {c \in calls : c.op \in Creating}
      /\ UNCHANGED <<run, note, thread, art, decided, control, approved, wrote>>
      /\ taint'[r] = taint[r] \cup When(Live(r) # {}, "died")
                              \cup When(\E j \in Live(r) : job[j].at = "propose", "lost")
  BY DEF Restart, Works, Busy, Idle
<1>2. /\ taint[r] \subseteq taint'[r]
      /\ Calm(r)' <=> Calm(r)
      /\ \A j \in Jobs : Works(j, r) /\ job[j].at = "propose" => "lost" \in taint'[r]
      /\ taint'[r] \cap Late = {} => taint[r] \cap Late = {}
  BY <1>1 DEF When, Live, Works, Busy, Calm
<1>3. OneJob(r)' /\ InHands(r)'
  BY <1>1 DEF OneJob, InHands
<1>4. Opened(r)'
  BY <1>1 DEF Steady, Opened, Opening, Blank
<1>5. Settled(r)'
  BY <1>1, <1>2 DEF Steady, Settled
<1>6. Older(r)' /\ Parked(r)' /\ Sound(r)' /\ Ran(r)'
  BY <1>1, <1>2 DEF Kept, Steady, Older, Parked, Sound, Ran, Asked, Calm, Intact
<1>7. Guided(r)'
  <2> SUFFICES ASSUME Kept(r)' PROVE Holds(r)'
    BY DEF Guided
  <2>1. Kept(r) /\ \A j \in Jobs : Works(j, r) => job[j].at # "propose"
    BY <1>2 DEF Kept
  <2>2. \A j \in Jobs : Works(j, r) => job[j].mem.notes \subseteq thread[r].state.notes
    BY <2>1 DEF Kept, Steady, InHands, InHand, Reads
  <2>3. \A j \in Jobs, g \in Guidance : Carries(j, r, g) => g \in thread[r].state.notes
    BY <2>2 DEF Carries, Works, Busy
  <2>4. QED BY <1>1, <2>1, <2>3 DEF Holds, Steady, Guided
<1>8. QED BY <1>3, <1>4, <1>5, <1>6, <1>7 DEF Steady

-----------------------------------------------------------------------------
\* Two runs never hold one task's slot; a fork's own task names a run that was made.
Apart ==
    /\ \A r, s \in Runs : r # s /\ run[r].slot /\ run[s].slot => run[r].task # run[s].task
    /\ \A r \in Runs : run[r].status # "NONE" /\ run[r].task \in Runs =>
         run[run[r].task].status # "NONE"

JInv == IInv /\ Seen /\ (\A r \in Runs : Steady(r)) /\ Apart

\* Rows keep their task, take no slot, and are neither made nor unmade.
RowsStay ==
    \A r \in Runs : /\ run'[r].task = run[r].task
                    /\ run'[r].slot => run[r].slot
                    /\ run'[r].status = "NONE" <=> run[r].status = "NONE"

LEMMA ApartStays == ASSUME Apart, RowsStay PROVE Apart'
BY DEF Apart, RowsStay

LEMMA BecameStays ==
  ASSUME IInv, NEW r \in Runs, run[r].status # "NONE",
         NEW s \in Terminal \cup Active, Became(r, s)
  PROVE  RowsStay
BY DEF Became, Updated, RowsStay, IInv, TypeOK, Row, Terminal, Active

LEMMA SameRowsStay == ASSUME run' = run PROVE RowsStay
BY DEF RowsStay

LEMMA InsertApart ==
  ASSUME JInv, NEW r \in Runs, NEW agent, NEW t \in Tasks \cup Runs \cup {"none"}, NEW source,
         Insert(r, agent, t, source),
         \A s \in Runs : s # r /\ run[s].slot => run[s].task # t,
         t \in Runs => t = r \/ run[t].status # "NONE"
  PROVE  Apart'
<1> DEFINE row == [status |-> "QUEUED", agent |-> agent, task |-> t,
                   slot |-> TRUE, cancel |-> FALSE, source |-> source]
<1>1. run' = [run EXCEPT ![r] = row] /\ run[r].status = "NONE"
  BY DEF Insert
<1>2. row.task = t /\ row.status = "QUEUED"
  OBVIOUS
<1> HIDE DEF row
<1>3. /\ run'[r].task = t /\ run'[r].status = "QUEUED"
      /\ \A s \in Runs : s # r => run'[s] = run[s]
  BY <1>1, <1>2 DEF JInv, IInv, TypeOK
<1>4. QED BY <1>1, <1>3 DEF JInv, Apart

LEMMA MemberStep ==
  ASSUME JInv, IInv', Member
  PROVE  (\A r \in Runs : Steady(r)') /\ Apart'
<1>1. ASSUME NEW r \in Runs, NEW agent, NEW t \in Tasks \cup Runs \cup {"none"}, NEW source,
             NEW op \in Creating, Insert(r, agent, t, source), Send(op, r)
      PROVE  \A s \in Runs : Steady(s)'
  <2> SUFFICES ASSUME NEW s \in Runs, s # r PROVE Steady(s)'
    BY <1>1, InsertSteady DEF JInv
  <2>1. run'[s] = run[s] /\ UNCHANGED <<note, thread, art, job, approved, wrote, taint>>
    BY <1>1 DEF Insert, JInv, IInv, TypeOK
  <2>2. \A c \in calls' : c.run = s => c \in calls
    BY <1>1 DEF Send
  <2>3. Untouched(s)
    BY <2>1, <2>2 DEF Untouched, Works, Busy
  <2>4. QED BY <2>3, Elsewhere DEF JInv
<1>2. ASSUME NEW r \in Runs, NEW t \in Tasks, CreateRun(r, t)
      PROVE  (\A s \in Runs : Steady(s)') /\ Apart'
  <2>1. /\ Insert(r, "backend-agent", t, "none") /\ Send("start", r) /\ "start" \in Creating
        /\ \A s \in Runs : run[s].slot => run[s].task # t
    BY <1>2 DEF CreateRun, TaskFree, Creating
  <2>2. t \in Tasks \cup Runs \cup {"none"} /\ (t \in Runs => t = r \/ run[t].status # "NONE")
    <3>1. t \in Tasks /\ t \notin Runs
      BY DisjointNames
    <3>2. QED BY <3>1
  <2>3. QED BY <1>1, <2>1, <2>2, InsertApart
<1>3. ASSUME NEW r \in Runs, NEW s \in Runs, Fork(r, s)
      PROVE  (\A u \in Runs : Steady(u)') /\ Apart'
  <2>1. /\ Insert(r, run[s].agent, r, s) /\ Send("fork", r) /\ "fork" \in Creating
        /\ r \in Tasks \cup Runs \cup {"none"}
    BY <1>3 DEF Fork, Creating
  <2>2. \A u \in Runs : u # r /\ run[u].slot => run[u].task # r
    <3>1. \A u \in Runs : run[u].slot => run[u].status # "NONE"
      BY DEF JInv, Steady, Opened
    <3>2. run[r].status = "NONE"
      BY <2>1 DEF Insert
    <3>3. QED BY <3>1, <3>2 DEF JInv, Apart
  <2>3. QED BY <1>1, <2>1, <2>2, InsertApart
<1>4. ASSUME NEW r \in Runs, NEW s \in Runs, Review(r, s)
      PROVE  (\A u \in Runs : Steady(u)') /\ Apart'
  <2>1. /\ Insert(r, "reviewer-agent", run[s].task, s) /\ Send("review", r) /\ "review" \in Creating
        /\ \A u \in Runs : run[u].slot => run[u].task # run[s].task
        /\ run[s].status # "NONE"
    BY <1>4 DEF Review, TaskFree, Creating
  <2>2. /\ run[s].task \in Tasks \cup Runs \cup {"none"}
        /\ run[s].task \in Runs => run[run[s].task].status # "NONE"
    BY <2>1 DEF JInv, IInv, TypeOK, Row, Apart
  <2>3. QED BY <1>1, <2>1, <2>2, InsertApart
<1>5. ASSUME NEW r \in Runs, NEW op, Decide(r, op)
      PROVE  (\A s \in Runs : Steady(s)') /\ Apart'
  <2>1. UNCHANGED <<run, note, thread, art, job, wrote, taint>>
    BY <1>5 DEF Decide
  <2>2. ASSUME NEW s \in Runs, s # r PROVE Untouched(s)
    <3>1. approved'[s] = approved[s]
      BY <1>5, <2>2 DEF Decide, JInv, IInv, TypeOK
    <3>2. \A c \in calls' : c.run = s => c \in calls
      BY <1>5, <2>2 DEF Decide, Send
    <3>3. QED BY <2>1, <3>1, <3>2 DEF Untouched, Works, Busy
  <2>3. \A s \in Runs : Steady(s)'
    BY <1>5, <2>2, Elsewhere, DecideSteady DEF JInv
  <2>4. QED BY <2>1, <2>3, SameRowsStay, ApartStays DEF JInv
<1>6. ASSUME NEW m \in Controls, NEW r \in Runs, CancelRead(m, r) \/ RedirectRead(m, r)
      PROVE  (\A s \in Runs : Steady(s)') /\ Apart'
  <2>1. UNCHANGED <<run, note, thread, art, job, calls, approved, wrote, taint>>
    BY <1>6 DEF CancelRead, RedirectRead, Read
  <2>2. \A s \in Runs : Untouched(s)
    BY <2>1 DEF Untouched, Works, Busy
  <2>3. QED BY <2>1, <2>2, Elsewhere, SameRowsStay, ApartStays DEF JInv
<1>7. ASSUME NEW m \in Controls, CancelCommit(m)
      PROVE  (\A s \in Runs : Steady(s)') /\ Apart'
  <2>1. PICK r \in Runs : r = control[m].run /\ run[r].status # "NONE"
    BY <1>7, ControlTyped DEF CancelCommit, JInv
  <2>2. Steady(r)'
    BY <1>7, <2>1, CancelCommitSteady DEF JInv
  <2>3. /\ UNCHANGED <<note, thread, art, job, calls, approved, wrote>>
        /\ \/ run' = [run EXCEPT ![r] = Updated(r, "CANCELLED", FALSE, TRUE)]
           \/ run' = [run EXCEPT ![r] = Updated(r, run[r].status, run[r].slot, TRUE)]
        /\ taint' = taint \/ \E what : Tainted(r, what)
    BY <1>7, <2>1 DEF CancelCommit
  <2>4. /\ \A s \in Runs : s # r => run'[s] = run[s] /\ taint'[s] = taint[s]
        /\ run'[r].task = run[r].task /\ run'[r].status # "NONE" /\ (run'[r].slot => run[r].slot)
    BY <2>1, <2>3 DEF Tainted, Updated, JInv, IInv, TypeOK
  <2>5. \A s \in Runs : s # r => Untouched(s)
    BY <2>3, <2>4 DEF Untouched, Works, Busy
  <2>6. RowsStay
    BY <2>1, <2>4 DEF RowsStay
  <2>7. QED BY <2>2, <2>5, <2>6, Elsewhere, ApartStays DEF JInv
<1>8. ASSUME NEW m \in Controls, NEW g \in Guidance, RedirectCommit(m, g)
      PROVE  (\A s \in Runs : Steady(s)') /\ Apart'
  <2>1. PICK r \in Runs : /\ r = control[m].run /\ run[r].status # "NONE"
                         /\ "RUNNING" \in Terminal \cup Active
    BY <1>8, ControlTyped DEF RedirectCommit, JInv, Active
  <2> DEFINE c0 == [op |-> "redirect", run |-> r, handled |-> FALSE]
  <2>2. Steady(r)'
    BY <1>8, <2>1, RedirectCommitSteady DEF JInv
  <2>3. /\ UNCHANGED <<thread, art, job, approved, wrote>>
        /\ run' = run \/ Became(r, "RUNNING")
        /\ note' = [note EXCEPT ![r] = [note[r] EXCEPT ![g] = "PENDING"]]
        /\ taint' = taint \/ \E what : Tainted(r, what)
        /\ calls' = calls \cup {c0} /\ c0.run = r
    BY <1>8, <2>1 DEF RedirectCommit, Recorded, Send, Replanning
  <2> HIDE DEF c0
  <2>4. /\ \A s \in Runs : s # r => note'[s] = note[s] /\ taint'[s] = taint[s] /\ run'[s] = run[s]
        /\ \A c \in calls' : c.run # r => c \in calls
    BY <2>1, <2>3 DEF Became, Tainted, JInv, IInv, TypeOK
  <2>5. \A s \in Runs : s # r => Untouched(s)
    BY <2>3, <2>4 DEF Untouched, Works, Busy
  <2>6. RowsStay
    BY <2>1, <2>3, SameRowsStay, BecameStays DEF JInv
  <2>7. QED BY <2>2, <2>5, <2>6, Elsewhere, ApartStays DEF JInv
<1>9. QED BY <1>2, <1>3, <1>4, <1>5, <1>6, <1>7, <1>8 DEF Member

\* A row that fails or stays leaves every slot where it was, or free.
LEMMA FailedStays ==
  ASSUME IInv, NEW r \in Runs, run[r].status # "NONE", run' = run \/ Became(r, "FAILED")
  PROVE  RowsStay /\ \A s \in Runs : s # r => run'[s] = run[s]
<1>1. "FAILED" \in Terminal \cup Active
  BY DEF Terminal
<1>2. \A s \in Runs : s # r => run'[s] = run[s]
  BY DEF Became, IInv, TypeOK
<1>3. QED BY <1>1, <1>2, SameRowsStay, BecameStays

\* A request the runtime refuses, or whose answer is dropped, changes no run.
LEMMA LessCalls ==
  ASSUME NEW r \in Runs, Steady(r), calls' \subseteq calls,
         UNCHANGED <<run, note, thread, art, job, approved, wrote, taint>>
  PROVE  Steady(r)'
<1>1. Untouched(r)
  BY DEF Untouched, Works, Busy
<1>2. QED BY <1>1, Elsewhere

\* A request that touches its own run only.
LEMMA CallElsewhere ==
  ASSUME IInv, NEW c \in calls, NEW s \in Runs, s # c.run,
         UNCHANGED <<note, thread, art, approved, wrote>>,
         run'[s] = run[s], taint'[s] = taint[s],
         job' = job \/ \E i \in Jobs, new \in Task :
             job[i].kind = "idle" /\ new.run = c.run /\ job' = [job EXCEPT ![i] = new],
         \A d \in calls' : d.run = s => d \in calls
  PROVE  Untouched(s)
<1>1. CASE job' = job
  BY <1>1 DEF Untouched, Works, Busy
<1>2. CASE job' # job
  <2>1. PICK i \in Jobs, new \in Task :
             job[i].kind = "idle" /\ new.run = c.run /\ job' = [job EXCEPT ![i] = new]
    BY <1>2
  <2>2. job'[i] = new /\ \A k \in Jobs : k # i => job'[k] = job[k]
    BY <2>1 DEF IInv, TypeOK
  <2>3. ~Works(i, s) /\ ~Works(i, s)'
    BY <2>1, <2>2 DEF Works, Busy
  <2>4. \A k \in Jobs : (Works(k, s)' <=> Works(k, s)) /\ (Works(k, s) => job'[k] = job[k])
    BY <2>2, <2>3 DEF Works, Busy
  <2>5. QED BY <2>4 DEF Untouched
<1>3. QED BY <1>1, <1>2

LEMMA ScheduleStep ==
  ASSUME JInv, IInv', NEW c \in calls, ~c.handled, NEW kind \in Kinds, NEW at \in Stages,
         Enters(c, kind, at), Schedule(c, kind, at)
  PROVE  (\A r \in Runs : Steady(r)') /\ Apart'
<1>1. c.run \in Runs
  BY DEF JInv, IInv, TypeOK, Call
<1>2. Steady(c.run)'
  BY <1>1, ScheduleSteady DEF JInv
<1>3. ASSUME NEW s \in Runs, s # c.run PROVE Steady(s)'
  <2> DEFINE new == [kind |-> kind, run |-> c.run, at |-> at, mem |-> Empty, box |-> 0]
             c1 == [op |-> c.op, run |-> c.run, handled |-> TRUE]
  <2>1. /\ \E i \in Jobs : job[i].kind = "idle" /\ job' = [job EXCEPT ![i] = new]
        /\ UNCHANGED <<run, note, thread, art, approved, wrote>>
        /\ \A d \in calls' : d \in calls \/ d = c1
    BY DEF Schedule, Handled
  <2>2. new.run = c.run /\ c1.run = c.run /\ new \in Task
    BY <1>1 DEF Task, Empty, NoPlan, Channels, Plans, Edits
  <2> HIDE DEF new, c1
  <2>3. taint'[s] = taint[s]
    BY <1>1, <1>3 DEF Schedule, Tainted, JInv, IInv, TypeOK
  <2>4. \A d \in calls' : d.run = s => d \in calls
    BY <1>3, <2>1, <2>2
  <2>5. \E i \in Jobs, n \in Task :
             job[i].kind = "idle" /\ n.run = c.run /\ job' = [job EXCEPT ![i] = n]
    BY <2>1, <2>2
  <2>6. Untouched(s)
    BY <1>3, <2>1, <2>3, <2>4, <2>5, CallElsewhere DEF JInv
  <2>7. QED BY <1>3, <2>6, Elsewhere DEF JInv
<1>4. run' = run
  BY DEF Schedule
<1>5. QED BY <1>2, <1>3, <1>4, SameRowsStay, ApartStays DEF JInv

LEMMA FailStep ==
  ASSUME JInv, IInv', NEW c \in calls, c.op \in Creating,
         GiveUp(c) \/ (Refuse(c) /\ ~c.handled /\ Became(c.run, "FAILED"))
  PROVE  (\A r \in Runs : Steady(r)') /\ Apart'
<1>1. c.run \in Runs /\ run[c.run].status # "NONE"
  BY DEF JInv, IInv, TypeOK, Call, Begun
<1>2. Steady(c.run)'
  BY <1>1, FailedSteady DEF JInv
<1>3. Became(c.run, "FAILED") /\ UNCHANGED <<note, thread, art, job, approved, wrote>>
  BY DEF GiveUp, Refuse
<1>4. RowsStay /\ \A s \in Runs : s # c.run => run'[s] = run[s]
  BY <1>1, <1>3, FailedStays DEF JInv
<1>5. ASSUME NEW s \in Runs, s # c.run PROVE Steady(s)'
  <2>1. taint'[s] = taint[s]
    <3>1. taint' = taint \/ Tainted(c.run, When(c.handled, "gaveUp"))
      BY DEF GiveUp, Refuse
    <3>2. QED BY <1>1, <1>5, <3>1 DEF Tainted, JInv, IInv, TypeOK
  <2>2. \A d \in calls' : d.run = s => d \in calls
    BY <1>5 DEF GiveUp, Refuse, Handled
  <2>3. Untouched(s)
    BY <1>3, <1>4, <1>5, <2>1, <2>2, CallElsewhere DEF JInv
  <2>4. QED BY <2>3, Elsewhere DEF JInv
<1>6. QED BY <1>2, <1>4, <1>5, ApartStays DEF JInv

LEMMA RefusedStep ==
  ASSUME JInv, NEW c \in calls, c.op \notin Creating, Refuse(c), UNCHANGED run
  PROVE  (\A r \in Runs : Steady(r)') /\ Apart'
<1>1. calls' \subseteq calls /\ UNCHANGED <<run, note, thread, art, job, approved, wrote, taint>>
  BY DEF Refuse, Handled
<1>2. QED BY <1>1, LessCalls, SameRowsStay, ApartStays DEF JInv

LEMMA EndpointStep ==
  ASSUME JInv, IInv', NEW c \in calls, Endpoint(c)
  PROVE  (\A r \in Runs : Steady(r)') /\ Apart'
<1>1. ~c.handled
  BY DEF Endpoint
<1>2. CASE StartEndpoint(c)
  <2>1. c.op = "start" /\ "start" \in Creating /\ "start" \in Kinds /\ "begin" \in Stages
    BY <1>2 DEF StartEndpoint, Creating, Kinds, Stages
  <2>2. Enters(c, "start", "begin")
    BY <2>1 DEF Enters
  <2>3. QED BY <1>1, <1>2, <2>1, <2>2, ScheduleStep, FailStep DEF StartEndpoint
<1>3. CASE DecisionEndpoint(c)
  <2>1. c.op \in {"approve", "reject"} /\ c.op \notin Creating
    BY <1>3 DEF DecisionEndpoint, Creating
  <2>2. CASE run[c.run].status # "AWAITING_APPROVAL"
    BY <1>3, <2>1, <2>2, RefusedStep DEF DecisionEndpoint
  <2>3. CASE run[c.run].status = "AWAITING_APPROVAL" /\ c.op = "approve"
    <3>1. Schedule(c, "resume", "begin") /\ "resume" \in Kinds /\ "begin" \in Stages
      BY <1>3, <2>3 DEF DecisionEndpoint, Kinds, Stages
    <3>2. Enters(c, "resume", "begin")
      BY <2>3 DEF Enters
    <3>3. QED BY <1>1, <3>1, <3>2, ScheduleStep
  <2>4. CASE run[c.run].status = "AWAITING_APPROVAL" /\ c.op = "reject"
    <3>1. Schedule(c, "reject", "reject") /\ "reject" \in Kinds /\ "reject" \in Stages
      BY <1>3, <2>4 DEF DecisionEndpoint, Kinds, Stages
    <3>2. Enters(c, "reject", "reject")
      BY <2>4 DEF Enters
    <3>3. QED BY <1>1, <3>1, <3>2, ScheduleStep
  <2>5. QED BY <2>1, <2>2, <2>3, <2>4
<1>4. CASE RedirectEndpoint(c)
  <2>1. c.op = "redirect" /\ c.op \notin Creating
    BY <1>4 DEF RedirectEndpoint, Creating
  <2>2. CASE run[c.run].status # "AWAITING_APPROVAL"
    BY <1>4, <2>1, <2>2, RefusedStep DEF RedirectEndpoint
  <2>3. CASE run[c.run].status = "AWAITING_APPROVAL"
    <3>1. Schedule(c, "replan", "recheck") /\ "replan" \in Kinds /\ "recheck" \in Stages
      BY <1>4, <2>3 DEF RedirectEndpoint, Kinds, Stages
    <3>2. Enters(c, "replan", "recheck")
      BY <2>1, <2>3 DEF Enters
    <3>3. QED BY <1>1, <3>1, <3>2, ScheduleStep
  <2>4. QED BY <2>2, <2>3
<1>5. CASE CopyEndpoint(c)
  <2>1. /\ Schedule(c, "fork", "check") /\ "fork" \in Kinds /\ "check" \in Stages
        /\ c.op = "fork" /\ "fork" \in Creating
    BY <1>5 DEF CopyEndpoint, Kinds, Stages, Creating
  <2>2. Enters(c, "fork", "check")
    BY <2>1 DEF Enters
  <2>3. QED BY <1>1, <2>1, <2>2, ScheduleStep
<1>6. CASE ReviewEndpoint(c)
  <2>1. /\ Schedule(c, "review", "check") /\ "review" \in Kinds /\ "check" \in Stages
        /\ c.op = "review" /\ "review" \in Creating
    BY <1>6 DEF ReviewEndpoint, Kinds, Stages, Creating
  <2>2. Enters(c, "review", "check")
    BY <2>1 DEF Enters
  <2>3. QED BY <1>1, <2>1, <2>2, ScheduleStep
<1>7. QED BY <1>2, <1>3, <1>4, <1>5, <1>6 DEF Endpoint

LEMMA WorkingStep ==
  ASSUME JInv, IInv', NEW j \in Jobs, JobStep(j) \/ Break(j)
  PROVE  Busy(j) /\ (\A r \in Runs : Steady(r)') /\ Apart'
<1>1. Busy(j)
  BY BusyStep
<1>2. PICK r \in Runs : r = job[j].run
  BY <1>1, JobTyped DEF JInv
<1>3. Works(j, r) /\ run[r].status # "NONE"
  BY <1>1, <1>2 DEF Works, JInv, IInv, Begun
<1>4. Steady(r)'
  BY <1>3, JobSteady DEF JInv
<1>5. \A s \in Runs : s # r => Steady(s)'
  BY <1>1, <1>2, JobElsewhere, Elsewhere DEF JInv
<1>6. run' = run \/ \E s \in Terminal \cup Active : Became(r, s)
  BY <1>1, <1>2, JobWithin DEF Within, JInv, Ends, Active
<1>7. RowsStay
  BY <1>3, <1>6, SameRowsStay, BecameStays DEF JInv
<1>8. QED BY <1>1, <1>4, <1>5, <1>7, ApartStays DEF JInv

LEMMA StaysPut ==
  ASSUME JInv, [Next]_vars
  PROVE  JInv'
<1>1. IInv' /\ Seen'
  BY NextKeeps, NextSeen DEF JInv
<1>2. CASE Member
  BY <1>1, <1>2, MemberStep DEF JInv
<1>3. CASE Runtime
  BY <1>1, <1>3, EndpointStep, WorkingStep DEF Runtime, JInv
<1>4. CASE \E c \in calls : Answered(c) \/ Drop(c)
  <2>1. calls' \subseteq calls /\ UNCHANGED <<run, note, thread, art, job, approved, wrote, taint>>
    BY <1>4 DEF Answered, Drop
  <2>2. QED BY <1>1, <2>1, LessCalls, SameRowsStay, ApartStays DEF JInv
<1>5. CASE \E c \in calls : GiveUp(c)
  <2>1. PICK c \in calls : GiveUp(c)
    BY <1>5
  <2>2. c.op \in Creating
    BY <2>1 DEF GiveUp
  <2>3. QED BY <1>1, <2>1, <2>2, FailStep DEF JInv
<1>6. CASE \E j \in Jobs : Break(j)
  BY <1>1, <1>6, WorkingStep DEF JInv
<1>7. CASE Restart
  <2>1. run' = run
    BY <1>7 DEF Restart
  <2>2. QED BY <1>1, <1>7, <2>1, RestartSteady, SameRowsStay, ApartStays DEF JInv
<1>8. CASE UNCHANGED vars
  <2>1. calls' \subseteq calls /\ UNCHANGED <<run, note, thread, art, job, approved, wrote, taint>>
    BY <1>8 DEF vars
  <2>2. QED BY <1>1, <2>1, LessCalls, SameRowsStay, ApartStays DEF JInv
<1>9. QED BY <1>2, <1>3, <1>4, <1>5, <1>6, <1>7, <1>8 DEF Next, Mishap

LEMMA JInit == ASSUME Init PROVE JInv
<1>1. IInv /\ Seen
  BY InitKeeps DEF Init, Seen, Unsent, Control
<1>2. ASSUME NEW r \in Runs PROVE Steady(r)
  <2>1. /\ run[r].status = "NONE" /\ run[r].slot = FALSE /\ approved[r] = {} /\ wrote[r] = {}
        /\ \A g \in Guidance : note[r][g] = "NONE"
    BY DEF Init, NoRow
  <2>2. /\ thread[r].state.notes = {} /\ thread[r].state.plan.id = 0
        /\ art[r].diff = 0 /\ art[r].inBox = 0 /\ calls = {}
    BY DEF Init, Empty, NoPlan
  <2>3. \A j \in Jobs : ~Works(j, r)
    BY DEF Init, Works, Busy, Idle
  <2>4. OneJob(r) /\ Opened(r) /\ Settled(r) /\ InHands(r)
    BY <2>1, <2>2, <2>3 DEF OneJob, Opened, Settled, InHands, Blank, Active
  <2>5. Older(r) /\ Guided(r) /\ Parked(r) /\ Sound(r) /\ Ran(r)
    BY <2>1, <2>2 DEF Kept, Older, Guided, Holds, Parked, Sound, Ran
  <2>6. QED BY <2>4, <2>5 DEF Steady
<1>3. Apart
  BY DEF Init, NoRow, Apart
<1>4. QED BY <1>1, <1>2, <1>3 DEF JInv

LEMMA JInductive == Spec => []JInv
<1>1. Init => JInv
  BY JInit
<1>2. JInv /\ [Next]_vars => JInv'
  BY StaysPut
<1>3. QED BY <1>1, <1>2, PTL DEF Spec

\* Unless two jobs shared a run's thread, or one ended with guidance it had claimed
\* and not yet planned with, no file is patched by an older plan than one a member
\* approved, nor by one that lacks the guidance asked for by then: a redirect
\* invalidates the approvals before it (requestRedirect), and every job that reaches
\* apply_edits does so with a thread that only moves forward.
THEOREM NothingStale == Spec => []NeverStale
<1>1. JInv => NeverStale
  BY DEF Kept, JInv, Steady, Sound, NeverStale, Undisturbed, Calm
<1>2. QED BY <1>1, JInductive, PTL

\* Guidance that plan_change has claimed is in the checkpoint or in the hands of the
\* job that claimed it, as long as no two jobs share the thread: whatever stops,
\* steers, parks or restarts the jobs, take_pending_redirects loses what it marks
\* APPLIED only with the job that was about to plan with it.
THEOREM GuidanceNeverLost == Spec => []GuidanceKept
<1>1. JInv => GuidanceKept
  BY DEF JInv, Steady, Guided, Holds, GuidanceKept, Undisturbed, Kept, Calm
<1>2. QED BY <1>1, JInductive, PTL

\* What capture_diff names for delivery is what its sandbox held: the files of the
\* DIFF artifact are the ones the diff and the tests were taken over.
THEOREM DeliveredIsWhatRan == Spec => []DiffIsWhatRan
<1>1. JInv => DiffIsWhatRan
  BY DEF JInv, Steady, Ran, DiffIsWhatRan, Undisturbed, Intact, Calm
<1>2. QED BY <1>1, JInductive, PTL

\* A run holds its task's slot exactly while it is active, unless a late writer met
\* it finished: a job of an earlier request, a caller that had given up, or a cancel
\* or redirect that had read it at the gate (update_run_status gives the slot back
\* with the terminal status, requestRedirect takes none with RUNNING).
THEOREM SlotHeldWhileActive == Spec => []SlotWhileActive
<1>1. JInv => SlotWhileActive
  BY DEF JInv, Steady, Settled, SlotWhileActive, Undisturbed
<1>2. QED BY <1>1, JInductive, PTL

\* Two active runs never share a task, whoever creates, forks and reviews at once,
\* unless one of them was revived by a late writer (the unique activeTaskId).
THEOREM OneActiveRunPerTask == Spec => []OneActivePerTask
<1>1. JInv => OneActivePerTask
  <2> SUFFICES ASSUME JInv, NEW r \in Runs, NEW s \in Runs, r # s, run[r].task = run[s].task,
                      run[r].status \in Active, run[s].status \in Active,
                      Undisturbed(r, Late), Undisturbed(s, Late)
               PROVE  FALSE
    BY DEF OneActivePerTask
  <2>1. run[r].slot /\ run[s].slot
    BY DEF JInv, Steady, Settled, Undisturbed
  <2>2. QED BY <2>1 DEF JInv, Apart
<1>2. QED BY <1>1, JInductive, PTL

\* The status of a finished run is only ever overwritten by a late writer.
LEMMA FinalStep ==
  ASSUME JInv, [Next]_vars, NEW r \in Runs, run[r].status \in Terminal,
         run'[r].status # run[r].status
  PROVE  taint'[r] \cap Late # {}
<1>1. run[r].status \notin Active /\ run[r].status # "NONE" /\ run[r].status # "QUEUED"
  BY DEF Terminal, Active
<1>2. CASE \E j \in Jobs : JobStep(j) \/ Break(j)
  <2>1. PICK j \in Jobs : JobStep(j) \/ Break(j)
    BY <1>2
  <2>2. Busy(j) /\ Within(j)
    BY <2>1, BusyStep, JobWithin DEF JInv
  <2>3. Works(j, r)
    BY <2>2 DEF Within, Works
  <2>4. taint[r] \cap Late # {}
    BY <1>1, <2>3 DEF JInv, Steady, Settled
  <2>5. taint[r] \subseteq taint'[r]
    BY <2>2 DEF Within
  <2>6. QED BY <2>4, <2>5
<1>3. CASE \E c \in calls : Endpoint(c)
  <2>1. PICK c \in calls : Endpoint(c)
    BY <1>3
  <2>2. run' = run \/ (StartEndpoint(c) /\ Became(c.run, "FAILED"))
    BY <2>1 DEF Endpoint, StartEndpoint, DecisionEndpoint, RedirectEndpoint, CopyEndpoint,
                ReviewEndpoint, Schedule
  <2>3. Opening(c)
    BY <2>1, <2>2 DEF Endpoint, StartEndpoint, Opening, Creating
  <2>4. c.run = r
    BY <2>2 DEF Became, JInv, IInv, TypeOK
  <2>5. QED BY <1>1, <2>3, <2>4 DEF JInv, Steady, Opened
<1>4. CASE \E c \in calls : GiveUp(c)
  <2>1. PICK c \in calls : GiveUp(c)
    BY <1>4
  <2>2. c.run = r
    BY <2>1 DEF GiveUp, Became, JInv, IInv, TypeOK
  <2>3. c.handled
    BY <1>1, <2>1, <2>2 DEF GiveUp, JInv, Steady, Opened, Opening
  <2>4. "gaveUp" \in taint'[r]
    BY <2>1, <2>2, <2>3 DEF GiveUp, Tainted, When, JInv, IInv, TypeOK
  <2>5. QED BY <2>4 DEF Late
<1>5. CASE Member
  <2>1. CASE \E s \in Runs, t \in Tasks : CreateRun(s, t)
    BY <1>1, <2>1 DEF CreateRun, Insert, JInv, IInv, TypeOK
  <2>2. CASE \E s, u \in Runs : Fork(s, u) \/ Review(s, u)
    BY <1>1, <2>2 DEF Fork, Review, Insert, JInv, IInv, TypeOK
  <2>3. CASE \E s \in Runs, op \in {"approve", "reject"} : Decide(s, op)
    BY <2>3 DEF Decide
  <2>4. CASE \E m \in Controls, s \in Runs : CancelRead(m, s) \/ RedirectRead(m, s)
    BY <2>4 DEF CancelRead, RedirectRead, Read
  <2>5. CASE \E m \in Controls : CancelCommit(m)
    <3>1. PICK m \in Controls : CancelCommit(m)
      BY <2>5
    <3>2. /\ control[m].run = r /\ control[m].atGate
          /\ run' = [run EXCEPT ![r] = Updated(r, "CANCELLED", FALSE, TRUE)]
      BY <3>1 DEF CancelCommit, Updated, JInv, IInv, TypeOK
    <3>3. run[r].status \in Terminal \ {"CANCELLED"}
      BY <3>2 DEF Updated, JInv, IInv, TypeOK
    <3>4. "overtaken" \in taint'[r]
      BY <3>1, <3>2, <3>3 DEF CancelCommit, Tainted, When, JInv, IInv, TypeOK
    <3>5. QED BY <3>4 DEF Late
  <2>6. CASE \E m \in Controls, g \in Guidance : RedirectCommit(m, g)
    <3>1. PICK m \in Controls, g \in Guidance : RedirectCommit(m, g)
      BY <2>6
    <3>2. control[m].run = r /\ control[m].atGate
      BY <3>1 DEF RedirectCommit, Replanning, Became, JInv, IInv, TypeOK
    <3>3. "overtaken" \in taint'[r]
      BY <3>1, <3>2 DEF RedirectCommit, Replanning, Tainted, When, JInv, IInv, TypeOK
    <3>4. QED BY <3>3 DEF Late
  <2>7. QED BY <1>5, <2>1, <2>2, <2>3, <2>4, <2>5, <2>6 DEF Member
<1>6. CASE (\E c \in calls : Answered(c) \/ Drop(c)) \/ Restart \/ UNCHANGED vars
  BY <1>6 DEF Answered, Drop, Restart, vars
<1>7. QED BY <1>2, <1>3, <1>4, <1>5, <1>6 DEF Next, Runtime, Mishap

\* A finished run stays as it finished, although update_run_status checks nothing and
\* requestCancel and requestRedirect write what they decided on an earlier read: only
\* a request that was given up on, a job scheduled beside another or on a finished
\* run, and a cancel or redirect that had read the run at the gate and finds it
\* finished overwrite an outcome.
THEOREM OutcomeIsFinal == Spec => FinishedIsFinal
<1>1. JInv /\ [Next]_vars
        => [\A r \in Runs : run[r].status \in Terminal /\ run'[r].status # run[r].status
               => taint'[r] \cap Late # {}]_vars
  BY FinalStep
<1>2. QED BY <1>1, JInductive, PTL DEF Spec, FinishedIsFinal
=============================================================================
