------------------------- MODULE GovernedRunProofs -------------------------
(***************************************************************************)
(* Theorems about GovernedRun, for every script, rule set, room and number *)
(* of server processes: the types are right, at most one approval gate is  *)
(* open, and no governed step is performed without authority.  With one    *)
(* process, steps are settled in order and nothing passes a gate.          *)
(***************************************************************************)
EXTENDS GovernedRun, SequenceTheorems, FiniteSetTheorems, TLAPS

\* The labels at which the driver works on a step of the script.
AtStep == {"policy", "grant", "evaluated", "denied", "findGate", "createGate",
           "requested", "park", "artifact", "event", "pullRequest"}

\* What the driver knows about its step: it is one of the script's, and the
\* policy engine is only consulted for a step that has an action.
StepKnown ==
  \A p \in Procs :
    /\ drv[p].pc \in AtStep => drv[p].step \in Steps
    /\ drv[p].pc \in {"policy", "grant"} => Script[drv[p].step].action # NoAction

\* The type invariant made inductive: the rows a driver writes have the right
\* type because the step it holds is a step of the script.
TypeInv == TypeOK /\ StepKnown

-----------------------------------------------------------------------------
(* Types *)

\* A driver at a step of the script holds one, and knows what it asks for.
LEMMA StepTyped ==
  ASSUME TypeInv, NEW p \in Procs, drv[p].pc \in AtStep
  PROVE  /\ drv[p].step \in Steps /\ drv[p].step \in Int
         /\ Script[drv[p].step] \in ScriptStep
  BY ScriptAssumption DEF TypeInv, StepKnown, Steps

\* Appending an event keeps the log a sequence of events.
LEMMA RecordTyped ==
  ASSUME log \in Seq(Event), NEW type, NEW actor, NEW step \in Int,
         Entry(type, actor, step) \in Event, Record(type, actor, step)
  PROVE  log' \in Seq(Event)
  BY AppendProperties DEF Record

\* What the control plane and the members record is an event.
LEMMA ControlTyped ==
  ASSUME NEW type \in ControlEvents, NEW actor \in {"user", "reviewer", "system"},
         NEW step \in Int
  PROVE  Entry(type, actor, step) \in Event
  BY DEF Entry, Event

\* A driver that moves on keeps its locals typed, if it arrives at a label of
\* its step only from another such label.
LEMMA GotoTyped ==
  ASSUME TypeInv, NEW p \in Procs, NEW label \in DriverPc, Goto(p, label),
         label \in AtStep => drv[p].pc \in AtStep,
         label \in {"policy", "grant"} => drv[p].pc \in {"policy", "grant"}
  PROVE  drv' \in [Procs -> Driver] /\ StepKnown'
  BY SMTT(30) DEF TypeInv, TypeOK, StepKnown, Goto, Driver, DriverPc, Terminal, AtStep

\* A driver that stops, or that calls advanceRun again, keeps its locals typed.
LEMMA RestartTyped ==
  ASSUME TypeInv, NEW p \in Procs, NEW label \in {"idle", "load", "leave"},
         drv' = [drv EXCEPT ![p] = At(label)]
  PROVE  drv' \in [Procs -> Driver] /\ StepKnown'
  BY DEF TypeInv, TypeOK, StepKnown, At, Driver, DriverPc, Terminal, AtStep,
         NoStep
\* Starting or refusing a drive keeps the drivers' locals typed.
LEMMA DriveTyped ==
  ASSUME TypeInv, NEW p \in Procs \cup {NoProc}, drv' = Drive(p)
  PROVE  drv' \in [Procs -> Driver] /\ StepKnown'
<1>1. CASE p = NoProc
  <2>1. drv' = drv
    BY <1>1, ProcsAssumption DEF TypeInv, TypeOK, Drive
  <2>2. QED
    BY <2>1 DEF TypeInv, TypeOK, StepKnown
<1>2. CASE p \in Procs /\ Driving(p)
  BY <1>2 DEF TypeInv, TypeOK, StepKnown, Drive
<1>3. CASE p \in Procs /\ ~Driving(p)
  BY <1>3, RestartTyped DEF Drive
<1>4. QED
  BY <1>1, <1>2, <1>3


-----------------------------------------------------------------------------
(* The initial state and the drivers *)

LEMMA InitTyped == Init => TypeInv
<1>1. SUFFICES ASSUME Init PROVE TypeInv
  OBVIOUS
<1>2. log \in Seq(Event)
  <2>1. Entry("RUN_CREATED", "user", NoStep) \in Event
    BY ControlTyped DEF ControlEvents, NoStep
  <2>2. QED
    BY <1>1, <2>1 DEF Init
<1>3. gates \in Seq(Gate)
  BY <1>1 DEF Init
<1>4. drv \in [Procs -> Driver] /\ req \in [Users -> Request]
  BY <1>1 DEF Init, NoDriver, At, Driver, DriverPc, Terminal, NoStep, NoRequest, Request
<1>5. StepKnown
  BY <1>1 DEF Init, StepKnown, NoDriver, At, AtStep
<1>6. QED
  BY <1>1, <1>2, <1>3, <1>4, <1>5 DEF Init, TypeInv, TypeOK, RunStatus

\* A driver step keeps the log typed.
LEMMA DriverLogTyped ==
  ASSUME TypeInv, NEW p \in Procs, DriverStep(p)
  PROVE  log' \in Seq(Event)
<1>1. log \in Seq(Event) /\ NoStep \in Int /\ drv[p].step \in Int
  BY DEF TypeInv, TypeOK, Driver, NoStep
<1>2. CASE log' = log
  BY <1>1, <1>2
<1>3. CASE \E type \in ControlEvents, step \in {NoStep, drv[p].step} :
             Record(type, "system", step)
  BY <1>1, <1>3, ControlTyped, RecordTyped
<1>4. CASE RecordStep(p)
  <2>1. Entry(Script[drv[p].step].event, "agent", drv[p].step) \in Event
    BY <1>4, <1>1, StepTyped DEF RecordStep, AtStep, Entry, Event
  <2>2. QED
    BY <1>1, <1>4, <2>1, RecordTyped DEF RecordStep
<1>5. CASE RecordEvaluated(p) \/ RecordDenied(p) \/ RecordRequested(p)
  BY <1>3, <1>5 DEF RecordEvaluated, RecordDenied, RecordRequested, ControlEvents
<1>6. CASE RecordFinish(p) \/ RecordTeardown(p) \/ RecordSealed(p)
  BY <1>3, <1>6 DEF RecordFinish, RecordTeardown, RecordSealed, ControlEvents
<1>7. QED
  BY <1>2, <1>4, <1>5, <1>6
     DEF DriverStep, LoadRun, ReadCursor, EnforceAction, FindGrant, FindGate,
         CreateGate, Park, WriteArtifact, CreateSimulatedPullRequest, CloseGates,
         Settle, SealEvidence, LeaveDrive

\* A driver step keeps the drivers' locals typed and their steps known.
LEMMA DriverLocalsTyped ==
  ASSUME TypeInv, NEW p \in Procs, DriverStep(p)
  PROVE  drv' \in [Procs -> Driver] /\ StepKnown'
<1>1. CASE LoadRun(p) \/ FindGate(p) \/ Park(p) \/ FindGrant(p) \/ SealEvidence(p)
  BY <1>1, GotoTyped
     DEF LoadRun, FindGate, Park, FindGrant, SealEvidence, AtStep, DriverPc
<1>2. CASE RecordEvaluated(p) \/ RecordRequested(p) \/ RecordFinish(p)
           \/ RecordTeardown(p) \/ RecordSealed(p) \/ CloseGates(p) \/ Settle(p)
  BY <1>2, GotoTyped
     DEF RecordEvaluated, RecordRequested, RecordFinish, RecordTeardown,
         RecordSealed, CloseGates, Settle, AtStep, DriverPc
<1>3. CASE ReadCursor(p)
  <2>1. Cursor \in Steps => Cursor \in Int
    BY ScriptAssumption DEF Steps
  <2>2. QED
    BY <1>3, <2>1
       DEF ReadCursor, TypeInv, TypeOK, StepKnown, Driver, DriverPc, Terminal, AtStep,
           NoStep
<1>4. CASE EnforceAction(p)
  <2>1. PICK verdict \in Outcomes :
          Goto(p, CASE verdict = "ALLOWED" -> "evaluated"
                    [] verdict = "DENIED" -> "denied"
                    [] verdict = "APPROVAL_REQUIRED" -> "grant")
    BY <1>4, VerdictsAssumption, StepTyped
       DEF EnforceAction, TypeInv, StepKnown, AtStep, Steps
  <2>2. QED
    BY <1>4, <2>1, GotoTyped DEF EnforceAction, AtStep, DriverPc, Outcomes
<1>5. CASE RecordDenied(p) \/ WriteArtifact(p)
  <2>1. PICK label \in {"finish", "event"}, outcome \in Terminal :
          Conclude(p, label, outcome)
    BY <1>5 DEF RecordDenied, WriteArtifact, Terminal
  <2>2. drv[p].pc \in AtStep
    BY <1>5 DEF RecordDenied, WriteArtifact, AtStep
  <2>3. QED
    BY <2>1, <2>2
       DEF Conclude, TypeInv, TypeOK, StepKnown, Driver, DriverPc, Terminal, AtStep
<1>6. CASE CreateGate(p)
  <2>1. CASE Goto(p, "requested")
    BY <1>6, <2>1, GotoTyped DEF CreateGate, AtStep, DriverPc
  <2>2. CASE Stop(p)
    BY <2>2 DEF Stop, TypeInv, TypeOK, StepKnown, NoDriver, At, Driver, DriverPc, Terminal,
                AtStep, NoStep
  <2>3. QED
    BY <1>6, <2>1, <2>2 DEF CreateGate
<1>7. CASE RecordStep(p) \/ CreateSimulatedPullRequest(p)
  <2>1. CASE NextCall(p)
    BY <2>1, RestartTyped DEF NextCall
  <2>2. CASE RecordStep(p) /\ Goto(p, "pullRequest")
    BY <2>2, GotoTyped DEF RecordStep, AtStep, DriverPc
  <2>3. QED
    BY <1>7, <2>1, <2>2 DEF RecordStep, CreateSimulatedPullRequest
<1>8. CASE LeaveDrive(p)
  BY <1>8 DEF LeaveDrive, Stop, TypeInv, TypeOK, StepKnown, NoDriver, At, Driver,
              DriverPc, Terminal, AtStep, NoStep
<1>9. QED
  BY <1>1, <1>2, <1>3, <1>4, <1>5, <1>6, <1>7, <1>8 DEF DriverStep

\* A driver step keeps the approval requests a sequence of rows.
LEMMA DriverGatesTyped ==
  ASSUME TypeInv, NEW p \in Procs, DriverStep(p)
  PROVE  gates' \in Seq(Gate)
<1>1. gates \in Seq(Gate)
  BY DEF TypeInv, TypeOK
<1>2. CASE gates' = gates
  BY <1>1, <1>2
<1>3. CASE CreateGate(p)
  <2>1. [action |-> Script[drv[p].step].action, status |-> "PENDING"] \in Gate
    BY <1>3, StepTyped DEF CreateGate, AtStep, Gate
  <2>2. QED
    BY <1>1, <1>2, <1>3, <2>1, AppendProperties DEF CreateGate
<1>4. CASE CloseGates(p)
  <2> DEFINE Closed(g) == IF gates[g].status = "PENDING"
                          THEN [gates[g] EXCEPT !.status = "CANCELLED"] ELSE gates[g]
  <2>1. DOMAIN gates = 1 .. Len(gates) /\ Len(gates) \in Nat
    BY <1>1, LenProperties
  <2>2. \A g \in 1 .. Len(gates) : Closed(g) \in Gate
    <3>1. ASSUME NEW row \in Gate PROVE [row EXCEPT !.status = "CANCELLED"] \in Gate
      BY DEF Gate
    <3>2. \A g \in 1 .. Len(gates) : gates[g] \in Gate
      BY <1>1, ElementOfSeq
    <3>3. QED
      BY <3>1, <3>2
  <2>3. [g \in 1 .. Len(gates) |-> Closed(g)] \in Seq(Gate)
    BY <2>1, <2>2, IsASeq
  <2>4. QED
    BY <1>4, <2>1, <2>3 DEF CloseGates
<1>5. QED
  BY <1>2, <1>3, <1>4
     DEF DriverStep, LoadRun, ReadCursor, EnforceAction, FindGrant, RecordEvaluated,
         RecordDenied, FindGate, RecordRequested, Park, WriteArtifact, RecordStep,
         CreateSimulatedPullRequest, RecordFinish, RecordTeardown, Settle,
         SealEvidence, RecordSealed, LeaveDrive, gateVars

LEMMA DriverStepTyped ==
  ASSUME TypeInv, NEW p \in Procs, DriverStep(p)
  PROVE  TypeInv'
<1>1. status' \in RunStatus
  BY DEF DriverStep, LoadRun, ReadCursor, EnforceAction, FindGrant, RecordEvaluated,
         RecordDenied, FindGate, CreateGate, RecordRequested, Park, WriteArtifact,
         RecordStep, CreateSimulatedPullRequest, RecordFinish, CloseGates,
         RecordTeardown, Settle, SealEvidence, RecordSealed, LeaveDrive, rowVars,
         TypeInv, TypeOK, RunStatus, Driver, Terminal
<1>2. policyRows' \subseteq (Steps \X Outcomes)
  <2>1. CASE EnforceAction(p)
    <3>1. Verdicts[Script[drv[p].step].action] \subseteq Outcomes /\ drv[p].step \in Steps
      BY <2>1, VerdictsAssumption, StepTyped
         DEF EnforceAction, TypeInv, StepKnown, AtStep, Steps
    <3>2. QED
      BY <2>1, <3>1 DEF EnforceAction, TypeInv, TypeOK
  <2>2. QED
    BY <2>1
       DEF DriverStep, LoadRun, ReadCursor, FindGrant, RecordEvaluated, RecordDenied,
           FindGate, CreateGate, RecordRequested, Park, WriteArtifact, RecordStep,
           CreateSimulatedPullRequest, RecordFinish, CloseGates, RecordTeardown, Settle,
           SealEvidence, RecordSealed, LeaveDrive, trailVars, TypeInv, TypeOK
<1>3. artifacts' \subseteq Steps
  <2>1. CASE WriteArtifact(p)
    BY <2>1, StepTyped DEF WriteArtifact, AtStep, TypeInv, TypeOK
  <2>2. QED
    BY <2>1
       DEF DriverStep, LoadRun, ReadCursor, EnforceAction, FindGrant, RecordEvaluated,
           RecordDenied, FindGate, CreateGate, RecordRequested, Park, RecordStep,
           CreateSimulatedPullRequest, RecordFinish, CloseGates, RecordTeardown, Settle,
           SealEvidence, RecordSealed, LeaveDrive, trailVars, TypeInv, TypeOK
<1>4. sealed' \in Nat
  <2>1. Len(log) \in Nat
    BY LenProperties DEF TypeInv, TypeOK
  <2>2. QED
    BY <2>1
       DEF DriverStep, LoadRun, ReadCursor, EnforceAction, FindGrant, RecordEvaluated,
           RecordDenied, FindGate, CreateGate, RecordRequested, Park, WriteArtifact,
           RecordStep, CreateSimulatedPullRequest, RecordFinish, CloseGates,
           RecordTeardown, Settle, SealEvidence, RecordSealed, LeaveDrive, trailVars,
           TypeInv, TypeOK
<1>5. /\ prLink' \in BOOLEAN
      /\ UNCHANGED <<cancelRequested, slotHeld, decisions, req, sent, faults>>
  BY DEF DriverStep, LoadRun, ReadCursor, EnforceAction, FindGrant, RecordEvaluated,
         RecordDenied, FindGate, CreateGate, RecordRequested, Park, WriteArtifact,
         RecordStep, CreateSimulatedPullRequest, RecordFinish, CloseGates,
         RecordTeardown, Settle, SealEvidence, RecordSealed, LeaveDrive, rowVars,
         gateVars, boundVars, TypeInv, TypeOK
<1>6. QED
  BY <1>1, <1>2, <1>3, <1>4, <1>5, DriverLocalsTyped, DriverLogTyped, DriverGatesTyped
     DEF TypeInv, TypeOK

-----------------------------------------------------------------------------
(* Requests, the stream, and faults *)

\* A request that arrives changes the requests in flight only.
LEMMA RequestArrivesTyped ==
  ASSUME TypeInv, NEW u \in Users, RequestArrives(u)
  PROVE  TypeInv'
<1>1. UNCHANGED <<rowVars, log, trailVars, gateVars, prLink, drv, faults>>
  BY DEF RequestArrives, SimulateRead, PauseRead, ResumeRead, CancelRead, RedirectRead,
         DecideRead
<1>2. PICK request \in Request : Send(u, request)
  <2>1. \A g \in PendingGates : g \in Nat
    <3>1. DOMAIN gates = 1 .. Len(gates) /\ Len(gates) \in Nat
      BY LenProperties DEF TypeInv, TypeOK
    <3>2. QED
      BY <3>1 DEF PendingGates
  <2>2. QED
    BY ZenonT(30), <2>1
       DEF RequestArrives, SimulateRead, PauseRead, ResumeRead, CancelRead, RedirectRead,
           DecideRead, NoRequest, Request, AllOperations, TypeInv, TypeOK
<1>3. req' \in [Users -> Request] /\ sent' \in Nat
  BY <1>2 DEF Send, TypeInv, TypeOK
<1>4. QED
  BY <1>1, <1>3 DEF TypeInv, TypeOK, StepKnown, rowVars, trailVars, gateVars

\* What a handler's next call does to the log, the drivers and its own locals.
LEMMA RequestStepTyped ==
  ASSUME TypeInv, NEW u \in Users, RequestStep(u)
  PROVE  TypeInv'
<1> USE DEF InFlight
<1>1. log \in Seq(Event) /\ NoStep \in Int
  BY DEF TypeInv, TypeOK, NoStep
<1>2. log' \in Seq(Event)
  <2>1. CASE log' = log
    BY <1>1, <2>1
  <2>2. CASE \E type \in ControlEvents, actor \in {"user", "reviewer", "system"} :
               Record(type, actor, NoStep)
    BY <1>1, <2>2, ControlTyped, RecordTyped
  <2>3. CASE CancelCommit(u)
    <3>1. /\ Entry("CANCELLATION_REQUESTED", "user", NoStep) \in Event
          /\ Entry("RUN_CANCELLED", "user", NoStep) \in Event
      BY <1>1, ControlTyped DEF ControlEvents
    <3> DEFINE first == IF req[u].asked THEN <<>>
                        ELSE <<Entry("CANCELLATION_REQUESTED", "user", NoStep)>>
               last == IF req[u].atGate THEN <<Entry("RUN_CANCELLED", "user", NoStep)>>
                       ELSE <<>>
    <3>2. first \in Seq(Event) /\ last \in Seq(Event)
      BY <3>1
    <3>3. log' = log \o first \o last
      BY <2>3 DEF CancelCommit
    <3> HIDE DEF first, last
    <3>4. log \o first \in Seq(Event)
      BY <1>1, <3>2, ConcatProperties
    <3>5. QED
      BY <3>2, <3>3, <3>4, ConcatProperties
  <2>4. QED
    BY <2>1, <2>2, <2>3
       DEF RequestStep, SimulateCommit, PauseRecord, PauseCommit, ResumeRecord,
           ResumeCommit, RedirectCommit, DecideCommit, ApproveRecord, RejectRecord,
           RejectClose, ControlEvents
<1>3. drv' \in [Procs -> Driver] /\ StepKnown'
  <2>1. CASE drv' = drv
    BY <2>1 DEF TypeInv, TypeOK, StepKnown
  <2>2. CASE drv' = Drive(req[u].proc)
    <3>1. req[u].proc \in Procs \cup {NoProc}
      BY DEF TypeInv, TypeOK, Request
    <3>2. QED
      BY <2>2, <3>1, DriveTyped
  <2>3. QED
    BY <2>1, <2>2
       DEF RequestStep, SimulateCommit, PauseRecord, PauseCommit, ResumeRecord,
           ResumeCommit, CancelCommit, RedirectCommit, DecideCommit, ApproveRecord,
           RejectRecord, RejectClose
<1>4. req' \in [Users -> Request]
  <2>1. CASE Done(u)
    BY <2>1 DEF Done, NoRequest, Request, TypeInv, TypeOK
  <2>2. CASE \E label \in {"commit", "record", "close"} :
               req' = [req EXCEPT ![u].pc = label]
    <3>1. ASSUME NEW request \in Request, NEW label \in {"commit", "record", "close"}
          PROVE  [request EXCEPT !.pc = label] \in Request
      BY DEF Request
    <3>2. PICK label \in {"commit", "record", "close"} :
            req' = [req EXCEPT ![u] = [req[u] EXCEPT !.pc = label]]
      BY <2>2
    <3>3. [req[u] EXCEPT !.pc = label] \in Request
      BY <3>1 DEF TypeInv, TypeOK
    <3>4. QED
      BY <3>2, <3>3 DEF TypeInv, TypeOK
  <2>3. QED
    BY <2>1, <2>2
       DEF RequestStep, SimulateCommit, PauseRecord, PauseCommit, ResumeRecord,
           ResumeCommit, CancelCommit, RedirectCommit, DecideCommit, ApproveRecord,
           RejectRecord, RejectClose
<1>5. gates' \in Seq(Gate) /\ decisions' \subseteq Decision
  <2>1. CASE DecideCommit(u)
    <3> DEFINE g == req[u].gate
               answer == IF req[u].op = "APPROVE" THEN "APPROVED" ELSE "REJECTED"
    <3>1. g \in Nat
      BY DEF TypeInv, TypeOK, Request
    <3>2. decisions' \subseteq Decision
      BY <2>1, <3>1 DEF DecideCommit, Decision, TypeInv, TypeOK
    <3>3. gates \in Seq(Gate) /\ DOMAIN gates = 1 .. Len(gates)
      BY LenProperties DEF TypeInv, TypeOK
    <3>4. gates' = [gates EXCEPT ![g].status = answer]
      BY <2>1 DEF DecideCommit
    <3>5. CASE g \in 1 .. Len(gates)
      <4>1. ASSUME NEW row \in Gate PROVE [row EXCEPT !.status = answer] \in Gate
        BY DEF Gate
      <4>2. [gates[g] EXCEPT !.status = answer] \in Gate
        BY <3>3, <3>5, <4>1, ElementOfSeq
      <4>3. gates' = [gates EXCEPT ![g] = [gates[g] EXCEPT !.status = answer]]
        BY <3>4
      <4>4. QED
        BY <3>2, <3>3, <3>5, <4>2, <4>3, ExceptSeq
    <3>6. CASE g \notin 1 .. Len(gates)
      <4>1. gates' = gates
        BY <3>3, <3>4, <3>6
      <4>2. QED
        BY <3>2, <3>3, <4>1
    <3>7. QED
      BY <3>5, <3>6
  <2>2. QED
    BY <2>1
       DEF RequestStep, SimulateCommit, PauseRecord, PauseCommit, ResumeRecord,
           ResumeCommit, CancelCommit, RedirectCommit, ApproveRecord, RejectRecord,
           RejectClose, gateVars, TypeInv, TypeOK
<1>6. /\ status' \in RunStatus
      /\ cancelRequested' \in BOOLEAN
      /\ slotHeld' \in BOOLEAN
      /\ UNCHANGED <<trailVars, prLink, boundVars>>
  BY DEF RequestStep, SimulateCommit, PauseRecord, PauseCommit, ResumeRecord,
         ResumeCommit, CancelCommit, RedirectCommit, DecideCommit, ApproveRecord,
         RejectRecord, RejectClose, rowVars, TypeInv, TypeOK, RunStatus
<1>7. QED
  BY <1>2, <1>3, <1>4, <1>5, <1>6 DEF TypeInv, TypeOK, trailVars, boundVars

\* Opening a stream, a failing driver and a crash only move drivers and drop
\* requests.
LEMMA EnvironmentTyped ==
  ASSUME TypeInv, NEW p \in Procs, OpenStream(p) \/ DriverFails(p) \/ Crash(p)
  PROVE  TypeInv'
<1>1. drv' \in [Procs -> Driver] /\ StepKnown'
  <2>1. CASE OpenStream(p)
    BY <2>1, DriveTyped DEF OpenStream
  <2>2. CASE drv' = [drv EXCEPT ![p] = NoDriver]
    BY <2>2 DEF TypeInv, TypeOK, StepKnown, NoDriver, At, Driver, DriverPc, Terminal,
                AtStep, NoStep
  <2>3. QED
    BY <2>1, <2>2 DEF DriverFails, Stop, Crash
<1>2. req' \in [Users -> Request]
  <2>1. NoRequest \in Request
    BY DEF NoRequest, Request
  <2>2. QED
    BY <2>1 DEF OpenStream, DriverFails, Crash, TypeInv, TypeOK
<1>3. /\ faults' \in Nat
      /\ UNCHANGED <<rowVars, log, trailVars, gateVars, prLink, sent>>
  BY DEF OpenStream, DriverFails, Crash, boundVars, TypeInv, TypeOK
<1>4. QED
  BY <1>1, <1>2, <1>3 DEF TypeInv, TypeOK, rowVars, trailVars, gateVars

LEMMA NextTyped == TypeInv /\ [Next]_vars => TypeInv'
<1>1. SUFFICES ASSUME TypeInv, [Next]_vars PROVE TypeInv'
  OBVIOUS
<1>2. CASE UNCHANGED vars
  BY <1>1, <1>2
     DEF vars, rowVars, trailVars, gateVars, boundVars, TypeInv, TypeOK, StepKnown
<1>3. QED
  BY <1>1, <1>2, DriverStepTyped, EnvironmentTyped, RequestArrivesTyped, RequestStepTyped
     DEF Next

\* The type invariant, with what drivers know of their steps, always holds.
LEMMA TypeInvariance == Spec => []TypeInv
<1>1. QED
  BY InitTyped, NextTyped, PTL DEF Spec

\* Every row, event and local has its type in every reachable state: in
\* particular no handler writes a status the runs table does not know, and no
\* driver works on a step outside the run's script.
THEOREM TypeCorrect == Spec => []TypeOK
<1>1. TypeInv => TypeOK
  BY DEF TypeInv
<1>2. QED
  BY <1>1, TypeInvariance, PTL

-----------------------------------------------------------------------------
(* At most one approval gate is open *)

\* The same as OneOpenGate, without counting.
GatesAlone == \A g, h \in PendingGates : g = h

\* Only CreateGate opens a gate, and only when none is open; every other action
\* leaves the open gates alone or resolves some.
LEMMA PendingGatesStep ==
  ASSUME TypeInv, [Next]_vars
  PROVE  \/ PendingGates' \subseteq PendingGates
         \/ PendingGates = {} /\ \A g, h \in PendingGates' : g = h
<1>1. gates \in Seq(Gate) /\ DOMAIN gates = 1 .. Len(gates) /\ Len(gates) \in Nat
  BY LenProperties DEF TypeInv, TypeOK
<1>2. CASE gates' = gates
  BY <1>2 DEF PendingGates
<1>3. ASSUME NEW p \in Procs, CreateGate(p), gates' # gates
      PROVE  PendingGates = {} /\ \A g, h \in PendingGates' : g = h
  <2> DEFINE row == [action |-> Script[drv[p].step].action, status |-> "PENDING"]
  <2>1. PendingGates = {} /\ gates' = Append(gates, row)
    BY <1>3 DEF CreateGate
  <2>2. row \in Gate
    BY <1>3, StepTyped DEF CreateGate, AtStep, Gate
  <2>3. /\ DOMAIN gates' = 1 .. Len(gates) + 1
        /\ \A g \in 1 .. Len(gates) : gates'[g] = gates[g]
    BY <1>1, <2>1, <2>2, AppendProperties, LenProperties
  <2>4. \A g \in PendingGates' : g = Len(gates) + 1
    BY <1>1, <2>1, <2>3 DEF PendingGates
  <2>5. QED
    BY <2>1, <2>4
<1>4. ASSUME NEW p \in Procs, CloseGates(p)
      PROVE  PendingGates' \subseteq PendingGates
  <2>1. \A g \in 1 .. Len(gates) : gates[g] \in Gate
    BY <1>1, ElementOfSeq
  <2>2. \A g \in 1 .. Len(gates) : gates[g].status = "PENDING" =>
          [gates[g] EXCEPT !.status = "CANCELLED"].status = "CANCELLED"
    BY <2>1 DEF Gate
  <2>3. QED
    BY <1>1, <1>4, <2>2 DEF CloseGates, PendingGates
<1>5. ASSUME NEW u \in Users, DecideCommit(u)
      PROVE  PendingGates' \subseteq PendingGates
  <2> DEFINE answer == IF req[u].op = "APPROVE" THEN "APPROVED" ELSE "REJECTED"
             answered == req[u].gate
  <2>1. gates' = [gates EXCEPT ![answered] = [gates[answered] EXCEPT !.status = answer]]
    BY <1>5 DEF DecideCommit
  <2>2. \A g \in 1 .. Len(gates) : gates[g] \in Gate
    BY <1>1, ElementOfSeq
  <2>3. ASSUME NEW row \in Gate PROVE [row EXCEPT !.status = answer].status # "PENDING"
    BY DEF Gate
  <2>4. DOMAIN gates' = 1 .. Len(gates)
    BY <1>1, <2>1
  <2>5. \A g \in 1 .. Len(gates) : g # answered => gates'[g] = gates[g]
    BY <1>1, <2>1
  <2>6. answered \in 1 .. Len(gates) => gates'[answered].status # "PENDING"
    BY <1>1, <2>1, <2>2, <2>3
  <2>7. QED
    BY <1>1, <2>4, <2>5, <2>6 DEF PendingGates
<1>6. CASE gates' # gates
  BY <1>3, <1>4, <1>5, <1>6
     DEF Next, DriverStep, LoadRun, ReadCursor, EnforceAction, FindGrant,
         RecordEvaluated, RecordDenied, FindGate, RecordRequested, Park, WriteArtifact,
         RecordStep, CreateSimulatedPullRequest, RecordFinish, RecordTeardown, Settle,
         SealEvidence, RecordSealed, LeaveDrive, RequestArrives, SimulateRead, PauseRead,
         ResumeRead, CancelRead, RedirectRead, DecideRead, RequestStep, SimulateCommit,
         PauseRecord, PauseCommit, ResumeRecord, ResumeCommit, CancelCommit,
         RedirectCommit, ApproveRecord, RejectRecord, RejectClose, OpenStream,
         DriverFails, Crash, vars, gateVars
<1>7. QED
  BY <1>2, <1>6

\* However many processes drive the run and whatever members do meanwhile, the
\* run never has two approval gates open: the answer to "what is this run
\* waiting for?" is unique, by the unique index on ApprovalRequest.activeRunId.
THEOREM GateIsUnique == Spec => []OneOpenGate
<1>1. Init => GatesAlone
  BY DEF Init, GatesAlone, PendingGates
<1>2. TypeInv /\ GatesAlone /\ [Next]_vars => GatesAlone'
  <2>1. SUFFICES ASSUME TypeInv, GatesAlone, [Next]_vars PROVE GatesAlone'
    OBVIOUS
  <2>2. QED
    BY <2>1, PendingGatesStep DEF GatesAlone
<1>3. GatesAlone => OneOpenGate
  <2>1. SUFFICES ASSUME GatesAlone PROVE OneOpenGate
    OBVIOUS
  <2>2. CASE PendingGates = {}
    BY <2>2, FS_EmptySet DEF OneOpenGate
  <2>3. CASE PendingGates # {}
    <3>1. PICK g : PendingGates = {g}
      BY <2>1, <2>3 DEF GatesAlone
    <3>2. QED
      BY <3>1, FS_Singleton DEF OneOpenGate
  <2>4. QED
    BY <2>2, <2>3
<1>4. QED
  BY <1>1, <1>2, <1>3, TypeInvariance, PTL DEF Spec

-----------------------------------------------------------------------------
(* Nothing is performed without authority *)

\* The steps the agent may perform now: narration and authorised actions.
Cleared == {s \in Steps : Script[s].action = NoAction \/ Authorised(s)}

\* Every step performed was cleared, and so is the step a driver is past the
\* policy check for; a driver that looks for a grant has the verdict on record.
PerformedCleared == \A i \in AgentEvents : log[i].step \in Cleared
DriversCleared ==
  \A p \in Procs :
    /\ drv[p].pc \in {"evaluated", "artifact", "event", "pullRequest"} =>
         drv[p].step \in Cleared
    /\ drv[p].pc = "grant" => <<drv[p].step, "APPROVAL_REQUIRED">> \in policyRows

\* A gate is approved by a decision on record of somebody else than the requester.
GrantsDecided ==
  /\ \A g \in DOMAIN gates : gates[g].status = "APPROVED" =>
       \E d \in decisions :
         d.gate = g /\ d.decision = "APPROVE" /\ d.reviewer # Requester
  /\ \A u \in Users : req[u].op \in {"APPROVE", "REJECT"} => u # Requester

\* A pull request, or a driver about to open one, has the agent's event first.
DraftRecorded ==
  prLink \/ (\E p \in Procs : drv[p].pc = "pullRequest") =>
    \E i \in AgentEvents : log[i].type = "PR_DRAFTED"

\* The inductive invariant behind StepsAuthorised.
AuthorityInv ==
  TypeInv /\ PerformedCleared /\ DriversCleared /\ GrantsDecided /\ DraftRecorded

\* The rows an authorisation rests on are never taken back: verdicts and
\* decisions stay, and an approval request keeps its place and its action.
LEMMA EvidenceStays ==
  ASSUME TypeInv, [Next]_vars
  PROVE  /\ policyRows \subseteq policyRows'
         /\ decisions \subseteq decisions'
         /\ \A g \in DOMAIN gates :
              g \in DOMAIN gates' /\ gates'[g].action = gates[g].action
<1>1. gates \in Seq(Gate) /\ DOMAIN gates = 1 .. Len(gates) /\ Len(gates) \in Nat
  BY LenProperties DEF TypeInv, TypeOK
<1>2. \A g \in DOMAIN gates : gates[g] \in Gate
  BY <1>1, ElementOfSeq
<1>3. ASSUME NEW row \in Gate, NEW answer
      PROVE  [row EXCEPT !.status = answer].action = row.action
  BY DEF Gate
<1>4. policyRows \subseteq policyRows' /\ decisions \subseteq decisions'
  BY ZenonT(30) DEF Next, DriverStep, LoadRun, ReadCursor, EnforceAction, FindGrant,
         RecordEvaluated, RecordDenied, FindGate, CreateGate, RecordRequested, Park,
         WriteArtifact, RecordStep, CreateSimulatedPullRequest, RecordFinish, CloseGates,
         RecordTeardown, Settle, SealEvidence, RecordSealed, LeaveDrive, RequestArrives,
         SimulateRead, PauseRead, ResumeRead, CancelRead, RedirectRead, DecideRead,
         RequestStep, SimulateCommit, PauseRecord, PauseCommit, ResumeRecord,
         ResumeCommit, CancelCommit, RedirectCommit, DecideCommit, ApproveRecord,
         RejectRecord, RejectClose, OpenStream, DriverFails, Crash, vars, gateVars,
         trailVars
<1>5. CASE gates' = gates
  BY <1>4, <1>5
<1>6. ASSUME NEW p \in Procs, CreateGate(p), gates' # gates
      PROVE  \A g \in DOMAIN gates :
               g \in DOMAIN gates' /\ gates'[g].action = gates[g].action
  <2> DEFINE row == [action |-> Script[drv[p].step].action, status |-> "PENDING"]
  <2>1. gates' = Append(gates, row) /\ row \in Gate
    BY <1>6, StepTyped DEF CreateGate, AtStep, Gate
  <2>2. QED
    BY <1>1, <2>1, AppendProperties, LenProperties
<1>7. ASSUME NEW p \in Procs, CloseGates(p)
      PROVE  \A g \in DOMAIN gates :
               g \in DOMAIN gates' /\ gates'[g].action = gates[g].action
  BY <1>2, <1>3, <1>7 DEF CloseGates
<1>8. ASSUME NEW u \in Users, DecideCommit(u)
      PROVE  \A g \in DOMAIN gates :
               g \in DOMAIN gates' /\ gates'[g].action = gates[g].action
  <2> DEFINE answer == IF req[u].op = "APPROVE" THEN "APPROVED" ELSE "REJECTED"
             answered == req[u].gate
  <2>1. gates' = [gates EXCEPT ![answered] = [gates[answered] EXCEPT !.status = answer]]
    BY <1>8 DEF DecideCommit
  <2> HIDE DEF answer
  <2>2. QED
    BY <1>1, <1>2, <1>3, <2>1
<1>9. CASE gates' # gates
  BY <1>4, <1>6, <1>7, <1>8, <1>9
     DEF Next, DriverStep, LoadRun, ReadCursor, EnforceAction, FindGrant,
         RecordEvaluated, RecordDenied, FindGate, RecordRequested, Park, WriteArtifact,
         RecordStep, CreateSimulatedPullRequest, RecordFinish, RecordTeardown, Settle,
         SealEvidence, RecordSealed, LeaveDrive, RequestArrives, SimulateRead, PauseRead,
         ResumeRead, CancelRead, RedirectRead, DecideRead, RequestStep, SimulateCommit,
         PauseRecord, PauseCommit, ResumeRecord, ResumeCommit, CancelCommit,
         RedirectCommit, ApproveRecord, RejectRecord, RejectClose, OpenStream,
         DriverFails, Crash, vars, gateVars
<1>10. QED
  BY <1>5, <1>9

\* So a step that was cleared once stays cleared.
LEMMA ClearedStays ==
  ASSUME TypeInv, [Next]_vars
  PROVE  Cleared \subseteq Cleared'
<1>1. ASSUME NEW s \in Steps, Authorised(s) PROVE Authorised(s)'
  BY <1>1, EvidenceStays DEF Authorised
<1>2. QED
  BY <1>1 DEF Cleared, Steps

\* The log only grows, and only RecordStep adds an event of the agent.
LEMMA LogStep ==
  ASSUME TypeInv, TypeInv', [Next]_vars
  PROVE  /\ \A i \in DOMAIN log : i \in DOMAIN log' /\ log'[i] = log[i]
         /\ \A i \in AgentEvents' : i \in AgentEvents \/
              \E p \in Procs : /\ RecordStep(p)
                               /\ log'[i] = Entry(Script[drv[p].step].event, "agent",
                                                  drv[p].step)
<1>1. /\ log \in Seq(Event) /\ DOMAIN log = 1 .. Len(log) /\ Len(log) \in Nat
      /\ log' \in Seq(Event)
  BY LenProperties DEF TypeInv, TypeOK
<1>2. CASE log' = log
  BY <1>2 DEF AgentEvents
<1>3. ASSUME NEW entry \in Event, log' = Append(log, entry)
      PROVE  /\ DOMAIN log' = 1 .. Len(log) + 1
             /\ \A i \in 1 .. Len(log) : log'[i] = log[i]
             /\ log'[Len(log) + 1] = entry
  BY <1>1, <1>3, AppendProperties, LenProperties
<1>4. CASE \E type \in ControlEvents, actor \in {"user", "reviewer", "system"},
              step \in Int : Record(type, actor, step)
  <2>1. PICK type \in ControlEvents, actor \in {"user", "reviewer", "system"},
             step \in Int : Record(type, actor, step)
    BY <1>4
  <2>2. log' = Append(log, Entry(type, actor, step)) /\ Entry(type, actor, step) \in Event
    BY <2>1, ControlTyped DEF Record
  <2>3. Entry(type, actor, step).actor # "agent"
    BY DEF Entry
  <2>4. QED
    BY <1>1, <1>3, <2>2, <2>3 DEF AgentEvents
<1>5. ASSUME NEW p \in Procs, RecordStep(p)
      PROVE  /\ \A i \in DOMAIN log : i \in DOMAIN log' /\ log'[i] = log[i]
             /\ \A i \in AgentEvents' : i \in AgentEvents \/
                  log'[i] = Entry(Script[drv[p].step].event, "agent", drv[p].step)
  <2>1. Entry(Script[drv[p].step].event, "agent", drv[p].step) \in Event
    BY <1>5, StepTyped DEF RecordStep, AtStep, Entry, Event
  <2>2. QED
    BY <1>1, <1>3, <1>5, <2>1 DEF RecordStep, Record, AgentEvents
<1>6. ASSUME NEW u \in Users, CancelCommit(u)
      PROVE  /\ \A i \in DOMAIN log : i \in DOMAIN log' /\ log'[i] = log[i]
             /\ AgentEvents' \subseteq AgentEvents
  <2> DEFINE asked == Entry("CANCELLATION_REQUESTED", "user", NoStep)
             cancelled == Entry("RUN_CANCELLED", "user", NoStep)
             Silent(s) == s \in Seq(Event) /\ \A i \in 1 .. Len(s) : s[i].actor # "agent"
  <2>1. asked \in Event /\ cancelled \in Event
    BY ControlTyped DEF ControlEvents, NoStep
  <2>2. Silent(<<>>) /\ Silent(<<asked>>) /\ Silent(<<cancelled>>)
    BY <2>1 DEF Entry
  <2>3. PICK first, last : Silent(first) /\ Silent(last) /\ log' = log \o first \o last
    BY <1>6, <2>2 DEF CancelCommit
  <2>4. ASSUME NEW s \in Seq(Event), NEW t, Silent(t)
        PROVE  /\ s \o t \in Seq(Event) /\ DOMAIN s \subseteq DOMAIN (s \o t)
               /\ \A i \in DOMAIN s : (s \o t)[i] = s[i]
               /\ \A i \in DOMAIN (s \o t) :
                    i \in DOMAIN s \/ (s \o t)[i].actor # "agent"
    <3>1. /\ s \o t \in Seq(Event) /\ Len(s \o t) = Len(s) + Len(t)
          /\ \A i \in 1 .. Len(s) + Len(t) :
               (s \o t)[i] = IF i <= Len(s) THEN s[i] ELSE t[i - Len(s)]
      BY <2>4, ConcatProperties
    <3>2. /\ Len(s) \in Nat /\ DOMAIN s = 1 .. Len(s) /\ Len(t) \in Nat
          /\ DOMAIN (s \o t) = 1 .. Len(s) + Len(t)
      BY <2>4, <3>1, LenProperties
    <3>3. QED
      BY <2>4, <3>1, <3>2
  <2> HIDE DEF Silent
  <2> DEFINE middle == log \o first
  <2>5. /\ middle \in Seq(Event)
        /\ \A i \in DOMAIN log : i \in DOMAIN middle /\ middle[i] = log[i]
        /\ \A i \in DOMAIN middle : i \in DOMAIN log \/ middle[i].actor # "agent"
    BY <1>1, <2>3, <2>4
  <2>6. log' = middle \o last
    BY <2>3
  <2> HIDE DEF middle
  <2>7. /\ \A i \in DOMAIN middle : i \in DOMAIN log' /\ log'[i] = middle[i]
        /\ \A i \in DOMAIN log' : i \in DOMAIN middle \/ log'[i].actor # "agent"
    BY <2>3, <2>4, <2>5, <2>6
  <2>8. QED
    BY <2>5, <2>7 DEF AgentEvents
<1>7. NoStep \in Int
  BY DEF NoStep
<1>8. ASSUME NEW p \in Procs, DriverStep(p), log' # log, ~RecordStep(p)
      PROVE  \E type \in ControlEvents, actor \in {"user", "reviewer", "system"},
                step \in Int : Record(type, actor, step)
  <2>1. drv[p].step \in Int
    BY DEF TypeInv, TypeOK, Driver
  <2>2. QED
    BY <1>7, <1>8, <2>1
       DEF DriverStep, LoadRun, ReadCursor, EnforceAction, FindGrant, RecordEvaluated,
           RecordDenied, FindGate, CreateGate, RecordRequested, Park, WriteArtifact,
           CreateSimulatedPullRequest, RecordFinish, CloseGates, RecordTeardown, Settle,
           SealEvidence, RecordSealed, LeaveDrive, ControlEvents
<1>9. ASSUME NEW u \in Users, RequestStep(u), log' # log, ~CancelCommit(u)
      PROVE  \E type \in ControlEvents, actor \in {"user", "reviewer", "system"},
                step \in Int : Record(type, actor, step)
  BY <1>7, <1>9
     DEF RequestStep, SimulateCommit, PauseRecord, PauseCommit, ResumeRecord,
         ResumeCommit, RedirectCommit, DecideCommit, ApproveRecord, RejectRecord,
         RejectClose, ControlEvents
<1>10. CASE log' # log
  BY <1>4, <1>5, <1>6, <1>8, <1>9, <1>10
     DEF Next, RequestArrives, SimulateRead, PauseRead, ResumeRead, CancelRead,
         RedirectRead, DecideRead, OpenStream, DriverFails, Crash, vars
<1>11. QED
  BY <1>2, <1>10

\* A driver comes past the policy check only with a cleared step, and looks for
\* a grant only after the verdict that asks for one.
LEMMA DriversStayCleared ==
  ASSUME TypeInv, DriversCleared, GrantsDecided, Cleared \subseteq Cleared',
         policyRows \subseteq policyRows', [Next]_vars
  PROVE  DriversCleared'
<1> DEFINE Past == {"evaluated", "artifact", "event", "pullRequest"}
           Fine(q) == /\ drv[q].pc \in Past => drv[q].step \in Cleared
                      /\ drv[q].pc = "grant" =>
                           <<drv[q].step, "APPROVAL_REQUIRED">> \in policyRows
<1>1. SUFFICES ASSUME NEW q \in Procs PROVE Fine(q)'
  BY DEF DriversCleared
<1>2. drv \in [Procs -> Driver] /\ Fine(q)
  BY DEF TypeInv, TypeOK, DriversCleared
<1>3. CASE drv'[q] = drv[q]
  BY <1>2, <1>3
<1>4. CASE drv'[q].pc \notin Past \cup {"grant"}
  BY <1>4
<1>5. CASE EnforceAction(q)
  <2>1. PICK verdict \in Outcomes :
          /\ policyRows' = policyRows \cup {<<drv[q].step, verdict>>}
          /\ Goto(q, CASE verdict = "ALLOWED" -> "evaluated"
                       [] verdict = "DENIED" -> "denied"
                       [] verdict = "APPROVAL_REQUIRED" -> "grant")
    BY <1>5, VerdictsAssumption, StepTyped
       DEF EnforceAction, TypeInv, StepKnown, AtStep, Steps
  <2>2. drv'[q].step = drv[q].step /\ drv[q].step \in Steps
    BY <1>2, <1>5, <2>1, StepTyped DEF EnforceAction, Goto, Driver, AtStep
  <2>3. CASE verdict = "ALLOWED"
    <3>1. drv[q].step \in Cleared' /\ drv'[q].pc = "evaluated"
      BY <1>2, <2>1, <2>2, <2>3 DEF Goto, Driver, Cleared, Authorised, Steps
    <3>2. QED
      BY <2>2, <3>1
  <2>4. CASE verdict # "ALLOWED"
    BY <1>2, <2>1, <2>2, <2>4 DEF Goto, Driver, Outcomes
  <2>5. QED
    BY <2>3, <2>4
<1>6. CASE FindGrant(q)
  <2>1. /\ drv'[q].step = drv[q].step /\ drv[q].step \in Steps
        /\ <<drv[q].step, "APPROVAL_REQUIRED">> \in policyRows
    BY <1>2, <1>6, StepTyped DEF FindGrant, Goto, Driver, AtStep
  <2>2. CASE Granted(Script[drv[q].step].action)
    <3>1. drv[q].step \in Cleared
      BY <2>1, <2>2 DEF Granted, GrantsDecided, Cleared, Authorised
    <3>2. QED
      BY <1>2, <1>6, <2>1, <2>2, <3>1 DEF FindGrant, Goto
  <2>3. CASE ~Granted(Script[drv[q].step].action)
    BY <1>2, <1>6, <2>3 DEF FindGrant, Goto
  <2>4. QED
    BY <2>2, <2>3
<1>7. CASE ReadCursor(q)
  <2>1. drv'[q].pc = "artifact" =>
          drv'[q].step \in Steps /\ Script[drv'[q].step].action = NoAction
    BY <1>2, <1>7 DEF ReadCursor
  <2>2. drv'[q].pc \in {"artifact", "finish", "policy"}
    BY <1>2, <1>7 DEF ReadCursor
  <2>3. QED
    BY <2>1, <2>2 DEF Cleared
<1>8. CASE RecordEvaluated(q) \/ WriteArtifact(q) \/ RecordStep(q)
  <2>1. drv'[q].pc \in Past => drv'[q].step = drv[q].step
    BY <1>2, <1>8
       DEF RecordEvaluated, WriteArtifact, RecordStep, Goto, Conclude, NextCall,
           At, Driver
  <2>2. drv[q].step \in Cleared
    BY <1>2, <1>8 DEF RecordEvaluated, WriteArtifact, RecordStep
  <2>3. drv'[q].pc # "grant"
    BY <1>2, <1>8
       DEF RecordEvaluated, WriteArtifact, RecordStep, Goto, Conclude, NextCall, At,
           Driver
  <2>4. QED
    BY <2>1, <2>2, <2>3
<1>9. ASSUME NEW p \in Procs, DriverStep(p)
      PROVE  Fine(q)'
  <2>1. CASE p # q
    <3>1. drv'[q] = drv[q]
      BY <1>2, <1>9, <2>1
         DEF DriverStep, LoadRun, ReadCursor, EnforceAction, FindGrant, RecordEvaluated,
             RecordDenied, FindGate, CreateGate, RecordRequested, Park, WriteArtifact,
             RecordStep, CreateSimulatedPullRequest, RecordFinish, CloseGates,
             RecordTeardown, Settle, SealEvidence, RecordSealed, LeaveDrive, Goto,
             Conclude, NextCall, Stop
    <3>2. QED
      BY <1>3, <3>1
  <2>2. CASE p = q
    <3>1. ASSUME LoadRun(q) \/ FindGate(q) \/ CreateGate(q) \/ RecordRequested(q)
                 \/ Park(q)
          PROVE  drv'[q].pc \notin Past \cup {"grant"}
      BY <1>2, <3>1
         DEF LoadRun, FindGate, CreateGate, RecordRequested, Park, Goto, Stop, NoDriver,
             At, Driver
    <3>2. ASSUME RecordDenied(q) \/ CreateSimulatedPullRequest(q) \/ LeaveDrive(q)
          PROVE  drv'[q].pc \notin Past \cup {"grant"}
      BY <1>2, <3>2
         DEF RecordDenied, CreateSimulatedPullRequest, LeaveDrive, Conclude, NextCall,
             Stop, NoDriver, At, Driver
    <3>3. ASSUME RecordFinish(q) \/ CloseGates(q) \/ RecordTeardown(q) \/ Settle(q)
                 \/ SealEvidence(q) \/ RecordSealed(q)
          PROVE  drv'[q].pc \notin Past \cup {"grant"}
      BY <1>2, <3>3
         DEF RecordFinish, CloseGates, RecordTeardown, Settle, SealEvidence, RecordSealed,
             Goto, Driver
    <3>4. QED
      BY <1>4, <1>5, <1>6, <1>7, <1>8, <1>9, <2>2, <3>1, <3>2, <3>3 DEF DriverStep
  <2>3. QED
    BY <2>1, <2>2
<1>10. CASE \E p \in Procs \cup {NoProc} : drv' = Drive(p)
  BY <1>2, <1>3, <1>4, <1>10 DEF Drive, At
<1>11. CASE \E p \in Procs : DriverFails(p) \/ Crash(p)
  BY <1>2, <1>3, <1>4, <1>11 DEF DriverFails, Crash, Stop, NoDriver, At
<1>12. CASE \E u \in Users : RequestArrives(u) \/ RequestStep(u)
  <2>1. \A u \in Users : req[u].proc \in Procs \cup {NoProc}
    BY DEF TypeInv, TypeOK, Request
  <2>2. drv' = drv \/ \E p \in Procs \cup {NoProc} : drv' = Drive(p)
    BY <1>12, <2>1
       DEF RequestArrives, SimulateRead, PauseRead, ResumeRead, CancelRead, RedirectRead,
           DecideRead, RequestStep, SimulateCommit, PauseRecord, PauseCommit,
           ResumeRecord, ResumeCommit, CancelCommit, RedirectCommit, DecideCommit,
           ApproveRecord, RejectRecord, RejectClose
  <2>3. QED
    BY <1>3, <1>10, <2>2
<1>13. QED
  BY <1>3, <1>9, <1>10, <1>11, <1>12 DEF Next, OpenStream, vars

\* A gate is approved only together with a decision, and only a member other
\* than the requester reaches that commit.
LEMMA GrantsStayDecided ==
  ASSUME TypeInv, GrantsDecided, decisions \subseteq decisions', [Next]_vars
  PROVE  GrantsDecided'
<1>1. gates \in Seq(Gate) /\ DOMAIN gates = 1 .. Len(gates) /\ Len(gates) \in Nat
  BY LenProperties DEF TypeInv, TypeOK
<1>2. \A g \in DOMAIN gates : gates[g] \in Gate
  BY <1>1, ElementOfSeq
<1>3. ASSUME NEW u \in Users, req'[u].op \in {"APPROVE", "REJECT"}
      PROVE  u # Requester
  <2>1. CASE req'[u] = req[u]
    BY <1>3, <2>1 DEF GrantsDecided
  <2>2. CASE \E v \in Users : RequestArrives(v)
    <3>1. PICK v \in Users : RequestArrives(v)
      BY <2>2
    <3>2. PICK request : /\ Send(v, request)
                         /\ request.op \in {"APPROVE", "REJECT"} => v # Requester
      <4>1. CASE v # Requester
        BY <3>1, <4>1
           DEF RequestArrives, SimulateRead, PauseRead, ResumeRead, CancelRead,
               RedirectRead, DecideRead
      <4>2. CASE v = Requester
        <5>1. PICK p \in Procs : SimulateRead(v, p) \/ PauseRead(v, p) \/ ResumeRead(v, p)
                                 \/ CancelRead(v, p) \/ RedirectRead(v, p)
          BY <3>1, <4>2 DEF RequestArrives, DecideRead
        <5>2. ASSUME NEW request, Send(v, request), request.op \notin {"APPROVE", "REJECT"}
              PROVE  \E r : Send(v, r) /\ (r.op \in {"APPROVE", "REJECT"} => v # Requester)
          BY <5>2
        <5>3. CASE SimulateRead(v, p)
          <6> DEFINE r == [NoRequest EXCEPT !.op = "simulate", !.pc = "commit", !.proc = p]
          <6>1. r.op \notin {"APPROVE", "REJECT"}
            BY DEF NoRequest
          <6>2. Send(v, r)
            BY <5>3 DEF SimulateRead
          <6> HIDE DEF r
          <6>3. QED
            BY <5>2, <6>1, <6>2
        <5>4. CASE PauseRead(v, p)
          <6> DEFINE r == [NoRequest EXCEPT !.op = "pause", !.pc = "record", !.proc = p]
          <6>1. r.op \notin {"APPROVE", "REJECT"}
            BY DEF NoRequest
          <6>2. Send(v, r)
            BY <5>4 DEF PauseRead
          <6> HIDE DEF r
          <6>3. QED
            BY <5>2, <6>1, <6>2
        <5>5. CASE ResumeRead(v, p)
          <6> DEFINE r == [NoRequest EXCEPT !.op = "resume", !.pc = "record", !.proc = p]
          <6>1. r.op \notin {"APPROVE", "REJECT"}
            BY DEF NoRequest
          <6>2. Send(v, r)
            BY <5>5 DEF ResumeRead
          <6> HIDE DEF r
          <6>3. QED
            BY <5>2, <6>1, <6>2
        <5>6. CASE CancelRead(v, p)
          <6> DEFINE r == [NoRequest EXCEPT !.op = "cancel", !.pc = "commit", !.proc = p,
             !.atGate = (status = "AWAITING_APPROVAL"), !.asked = cancelRequested]
          <6>1. r.op \notin {"APPROVE", "REJECT"}
            BY DEF NoRequest
          <6>2. Send(v, r)
            BY <5>6 DEF CancelRead
          <6> HIDE DEF r
          <6>3. QED
            BY <5>2, <6>1, <6>2
        <5>7. CASE RedirectRead(v, p)
          <6> DEFINE r == [NoRequest EXCEPT !.op = "redirect", !.pc = "commit", !.proc = p,
             !.atGate = (status = "AWAITING_APPROVAL")]
          <6>1. r.op \notin {"APPROVE", "REJECT"}
            BY DEF NoRequest
          <6>2. Send(v, r)
            BY <5>7 DEF RedirectRead
          <6> HIDE DEF r
          <6>3. QED
            BY <5>2, <6>1, <6>2
        <5>8. QED
          BY <5>1, <5>3, <5>4, <5>5, <5>6, <5>7
      <4>3. QED
        BY <4>1, <4>2
    <3>3. req' = [req EXCEPT ![v] = request]
      BY <3>2 DEF Send
    <3>4. QED
      BY <1>3, <2>1, <3>2, <3>3 DEF TypeInv, TypeOK
  <2>3. CASE \E v \in Users : RequestStep(v)
    <3>1. PICK v \in Users, label \in {"commit", "record", "close"} :
            Done(v) \/ req' = [req EXCEPT ![v] = [req[v] EXCEPT !.pc = label]]
      BY <2>3
         DEF RequestStep, SimulateCommit, PauseRecord, PauseCommit, ResumeRecord,
             ResumeCommit, CancelCommit, RedirectCommit, DecideCommit, ApproveRecord,
             RejectRecord, RejectClose
    <3>2. ASSUME NEW request \in Request
          PROVE  [request EXCEPT !.pc = label].op = request.op
      BY DEF Request
    <3>3. req[v] \in Request /\ req \in [Users -> Request]
      BY DEF TypeInv, TypeOK
    <3>4. CASE Done(v)
      BY <1>3, <2>1, <3>3, <3>4 DEF Done, NoRequest
    <3>5. CASE req' = [req EXCEPT ![v] = [req[v] EXCEPT !.pc = label]]
      <4>1. [req[v] EXCEPT !.pc = label].op = req[v].op
        BY <3>2, <3>3
      <4>2. QED
        BY <1>3, <2>1, <3>3, <3>5, <4>1 DEF GrantsDecided
    <3>6. QED
      BY <3>1, <3>4, <3>5
  <2>4. CASE \E p \in Procs : Crash(p)
    BY <1>3, <2>1, <2>4 DEF Crash, NoRequest
  <2>5. QED
    BY <2>1, <2>2, <2>3, <2>4
       DEF Next, DriverStep, LoadRun, ReadCursor, EnforceAction, FindGrant,
           RecordEvaluated, RecordDenied, FindGate, CreateGate, RecordRequested, Park,
           WriteArtifact, RecordStep, CreateSimulatedPullRequest, RecordFinish,
           CloseGates, RecordTeardown, Settle, SealEvidence, RecordSealed, LeaveDrive,
           OpenStream, DriverFails, vars
<1>4. ASSUME NEW g \in DOMAIN gates', gates'[g].status = "APPROVED"
      PROVE  \E d \in decisions' :
               d.gate = g /\ d.decision = "APPROVE" /\ d.reviewer # Requester
  <2>1. CASE g \in DOMAIN gates /\ gates[g].status = "APPROVED"
    BY <2>1 DEF GrantsDecided
  <2>2. CASE \E p \in Procs : CreateGate(p) /\ gates' # gates
    <3>1. PICK p \in Procs : CreateGate(p) /\ gates' # gates
      BY <2>2
    <3>2. /\ gates' = Append(gates, [action |-> Script[drv[p].step].action,
                                     status |-> "PENDING"])
          /\ [action |-> Script[drv[p].step].action, status |-> "PENDING"] \in Gate
      BY <3>1, StepTyped DEF CreateGate, AtStep, Gate
    <3>3. g \in DOMAIN gates /\ gates'[g] = gates[g]
      BY <1>1, <1>4, <3>2, AppendProperties, LenProperties
    <3>4. QED
      BY <1>4, <2>1, <3>3
  <2>3. CASE \E p \in Procs : CloseGates(p)
    <3>1. ASSUME NEW row \in Gate
          PROVE  [row EXCEPT !.status = "CANCELLED"].status = "CANCELLED"
      BY DEF Gate
    <3>2. QED
      BY <1>2, <1>4, <2>1, <2>3, <3>1 DEF CloseGates
  <2>4. CASE \E u \in Users : DecideCommit(u)
    <3>1. PICK u \in Users : DecideCommit(u)
      BY <2>4
    <3> DEFINE answer == IF req[u].op = "APPROVE" THEN "APPROVED" ELSE "REJECTED"
               answered == req[u].gate
    <3>2. gates' = [gates EXCEPT ![answered] = [gates[answered] EXCEPT !.status = answer]]
      BY <3>1 DEF DecideCommit
    <3>3. ASSUME NEW row \in Gate PROVE [row EXCEPT !.status = answer].status = answer
      BY DEF Gate
    <3>4. CASE g = answered
      <4>1. answer = "APPROVED"
        BY <1>1, <1>2, <1>4, <3>2, <3>3, <3>4
      <4>2. [gate |-> answered, reviewer |-> u, decision |-> "APPROVE"] \in decisions'
        BY <3>1, <4>1 DEF DecideCommit
      <4>3. u # Requester
        BY <3>1 DEF DecideCommit, GrantsDecided
      <4>4. QED
        BY <3>4, <4>2, <4>3
    <3>5. CASE g # answered
      BY <1>1, <1>4, <2>1, <3>2, <3>5
    <3>6. QED
      BY <3>4, <3>5
  <2>5. CASE gates' = gates
    BY <1>4, <2>1, <2>5
  <2>6. QED
    BY <2>2, <2>3, <2>4, <2>5
       DEF Next, DriverStep, LoadRun, ReadCursor, EnforceAction, FindGrant,
           RecordEvaluated, RecordDenied, FindGate, RecordRequested, Park, WriteArtifact,
           RecordStep, CreateSimulatedPullRequest, RecordFinish, RecordTeardown, Settle,
           SealEvidence, RecordSealed, LeaveDrive, RequestArrives, SimulateRead, PauseRead,
           ResumeRead, CancelRead, RedirectRead, DecideRead, RequestStep, SimulateCommit,
           PauseRecord, PauseCommit, ResumeRecord, ResumeCommit, CancelCommit,
           RedirectCommit, ApproveRecord, RejectRecord, RejectClose, OpenStream,
           DriverFails, Crash, vars, gateVars
<1>5. QED
  BY <1>3, <1>4 DEF GrantsDecided

\* A driver comes to the pull request only by recording the agent's PR_DRAFTED.
LEMMA DraftStaysRecorded ==
  ASSUME TypeInv, TypeInv', DraftRecorded, [Next]_vars
  PROVE  DraftRecorded'
<1> DEFINE Drafted == \E i \in AgentEvents : log[i].type = "PR_DRAFTED"
<1>1. Drafted => Drafted'
  BY LogStep DEF AgentEvents
<1>2. drv \in [Procs -> Driver]
  BY DEF TypeInv, TypeOK
<1>3. ASSUME NEW p \in Procs, RecordStep(p), Script[drv[p].step].event = "PR_DRAFTED"
      PROVE  Drafted'
  <2> DEFINE entry == Entry(Script[drv[p].step].event, "agent", drv[p].step)
  <2>1. log \in Seq(Event) /\ entry \in Event /\ log' = Append(log, entry)
    BY <1>3, StepTyped DEF RecordStep, Record, AtStep, Entry, Event, TypeInv, TypeOK
  <2>2. entry.actor = "agent" /\ entry.type = "PR_DRAFTED"
    BY <1>3 DEF Entry
  <2> HIDE DEF entry
  <2>3. Len(log) + 1 \in DOMAIN log' /\ log'[Len(log) + 1] = entry
    BY <2>1, AppendProperties, LenProperties
  <2>4. QED
    BY <2>2, <2>3 DEF AgentEvents
<1>4. ASSUME NEW q \in Procs, drv'[q].pc = "pullRequest", drv[q].pc # "pullRequest"
      PROVE  RecordStep(q) /\ Script[drv[q].step].event = "PR_DRAFTED"
  <2>1. CASE \E p \in Procs : DriverStep(p)
    <3>1. PICK p \in Procs : DriverStep(p)
      BY <2>1
    <3>2. p = q
      BY <1>2, <1>4, <3>1
         DEF DriverStep, LoadRun, ReadCursor, EnforceAction, FindGrant, RecordEvaluated,
             RecordDenied, FindGate, CreateGate, RecordRequested, Park, WriteArtifact,
             RecordStep, CreateSimulatedPullRequest, RecordFinish, CloseGates,
             RecordTeardown, Settle, SealEvidence, RecordSealed, LeaveDrive, Goto,
             Conclude, NextCall, Stop
    <3>3. CASE LoadRun(q) \/ ReadCursor(q) \/ FindGrant(q) \/ RecordEvaluated(q)
               \/ RecordDenied(q) \/ FindGate(q) \/ CreateGate(q) \/ RecordRequested(q)
               \/ Park(q) \/ WriteArtifact(q)
      BY <1>2, <1>4, <3>3
         DEF LoadRun, ReadCursor, FindGrant, RecordEvaluated, RecordDenied, FindGate,
             CreateGate, RecordRequested, Park, WriteArtifact, Goto, Conclude, Stop,
             NoDriver, At, Driver
    <3>4. CASE EnforceAction(q)
      <4>1. PICK verdict \in Outcomes :
              Goto(q, CASE verdict = "ALLOWED" -> "evaluated"
                        [] verdict = "DENIED" -> "denied"
                        [] verdict = "APPROVAL_REQUIRED" -> "grant")
        BY <3>4, VerdictsAssumption, StepTyped
           DEF EnforceAction, TypeInv, StepKnown, AtStep, Steps
      <4>2. QED
        BY <1>2, <1>4, <4>1 DEF Goto, Outcomes, Driver
    <3>5. CASE RecordStep(q)
      BY <1>2, <1>4, <3>5 DEF RecordStep, NextCall, At
    <3>6. CASE CreateSimulatedPullRequest(q) \/ RecordFinish(q) \/ CloseGates(q)
               \/ RecordTeardown(q) \/ Settle(q) \/ SealEvidence(q) \/ RecordSealed(q)
               \/ LeaveDrive(q)
      BY <1>2, <1>4, <3>6
         DEF CreateSimulatedPullRequest, RecordFinish, CloseGates, RecordTeardown, Settle,
             SealEvidence, RecordSealed, LeaveDrive, Goto, NextCall, Stop, NoDriver, At,
             Driver
    <3>7. QED
      BY <3>1, <3>2, <3>3, <3>4, <3>5, <3>6 DEF DriverStep
  <2>2. CASE \E u \in Users : RequestArrives(u) \/ RequestStep(u)
    <3>1. \A u \in Users : req[u].proc \in Procs \cup {NoProc}
      BY DEF TypeInv, TypeOK, Request
    <3>2. drv' = drv \/ \E p \in Procs \cup {NoProc} : drv' = Drive(p)
      BY <2>2, <3>1
         DEF RequestArrives, SimulateRead, PauseRead, ResumeRead, CancelRead,
             RedirectRead, DecideRead, RequestStep, SimulateCommit, PauseRecord,
             PauseCommit, ResumeRecord, ResumeCommit, CancelCommit, RedirectCommit,
             DecideCommit, ApproveRecord, RejectRecord, RejectClose
    <3>3. QED
      BY <1>2, <1>4, <3>2 DEF Drive, At
  <2>3. CASE \E p \in Procs : OpenStream(p) \/ DriverFails(p) \/ Crash(p)
    BY <1>2, <1>4, <2>3 DEF OpenStream, DriverFails, Crash, Drive, Stop, NoDriver, At
  <2>4. QED
    BY <1>4, <2>1, <2>2, <2>3 DEF Next, vars
<1>5. CASE prLink' # prLink
  <2>1. \E p \in Procs : drv[p].pc = "pullRequest"
    BY ZenonT(30), <1>5
       DEF Next, DriverStep, LoadRun, ReadCursor, EnforceAction, FindGrant,
           RecordEvaluated, RecordDenied, FindGate, CreateGate, RecordRequested, Park,
           WriteArtifact, RecordStep, CreateSimulatedPullRequest, RecordFinish, CloseGates,
           RecordTeardown, Settle, SealEvidence, RecordSealed, LeaveDrive, RequestArrives,
           SimulateRead, PauseRead, ResumeRead, CancelRead, RedirectRead, DecideRead,
           RequestStep, SimulateCommit, PauseRecord, PauseCommit, ResumeRecord,
           ResumeCommit, CancelCommit, RedirectCommit, DecideCommit, ApproveRecord,
           RejectRecord, RejectClose, OpenStream, DriverFails, Crash, vars
  <2>2. QED
    BY <1>1, <2>1 DEF DraftRecorded
<1>6. CASE prLink' = prLink
  BY <1>1, <1>3, <1>4, <1>6 DEF DraftRecorded
<1>7. QED
  BY <1>5, <1>6

LEMMA AuthorityInit == Init => AuthorityInv
<1>1. SUFFICES ASSUME Init PROVE AuthorityInv
  OBVIOUS
<1>2. AgentEvents = {}
  BY <1>1 DEF Init, AgentEvents, Entry
<1>3. PerformedCleared
  BY <1>2 DEF PerformedCleared
<1>4. DriversCleared /\ DraftRecorded
  BY <1>1 DEF Init, DriversCleared, DraftRecorded, NoDriver, At
<1>5. GrantsDecided
  BY <1>1 DEF Init, GrantsDecided, NoRequest
<1>6. QED
  BY <1>1, <1>3, <1>4, <1>5, InitTyped DEF AuthorityInv

LEMMA AuthorityStep == AuthorityInv /\ [Next]_vars => AuthorityInv'
<1>1. SUFFICES ASSUME AuthorityInv, [Next]_vars PROVE AuthorityInv'
  OBVIOUS
<1>2. TypeInv /\ TypeInv'
  BY <1>1, NextTyped DEF AuthorityInv
<1>3. Cleared \subseteq Cleared'
  BY <1>1, <1>2, ClearedStays
<1>4. PerformedCleared'
  <2>1. SUFFICES ASSUME NEW i \in AgentEvents' PROVE log'[i].step \in Cleared'
    BY DEF PerformedCleared
  <2>2. CASE i \in AgentEvents
    BY <1>1, <1>2, <1>3, <2>2, LogStep DEF AuthorityInv, PerformedCleared, AgentEvents
  <2>3. CASE i \notin AgentEvents
    <3>1. PICK p \in Procs :
            /\ RecordStep(p)
            /\ log'[i] = Entry(Script[drv[p].step].event, "agent", drv[p].step)
      BY <1>1, <1>2, <2>3, LogStep
    <3>2. drv[p].step \in Cleared
      BY <1>1, <3>1 DEF AuthorityInv, DriversCleared, RecordStep
    <3>3. QED
      BY <1>3, <3>1, <3>2 DEF Entry
  <2>4. QED
    BY <2>2, <2>3
<1>5. DriversCleared'
  BY <1>1, <1>2, <1>3, EvidenceStays, DriversStayCleared DEF AuthorityInv
<1>6. GrantsDecided'
  BY <1>1, <1>2, EvidenceStays, GrantsStayDecided DEF AuthorityInv
<1>7. DraftRecorded'
  BY <1>1, <1>2, DraftStaysRecorded DEF AuthorityInv
<1>8. QED
  BY <1>2, <1>4, <1>5, <1>6, <1>7 DEF AuthorityInv

\* For every script, rule set, room and number of server processes, whatever
\* the interleaving of drivers, decisions, interventions, crashes and rule
\* changes: each governed step the agent performed rests on a recorded ALLOWED
\* verdict, or on a recorded APPROVAL_REQUIRED verdict and the approval of its
\* action by a member who is not the requester; and a pull request exists only
\* if the agent performed the step that drafts it.
THEOREM StepsAreAuthorised == Spec => []StepsAuthorised
<1>1. AuthorityInv => StepsAuthorised
  BY DEF AuthorityInv, PerformedCleared, DraftRecorded, Cleared, StepsAuthorised
<1>2. QED
  BY <1>1, AuthorityInit, AuthorityStep, PTL DEF Spec

-----------------------------------------------------------------------------
(* The order of the steps, with one process *)

\* The labels at which a driver's step is the cursor it read, and those at which
\* it is about to be performed.
AtCursor == {"policy", "grant", "evaluated", "denied", "findGate", "createGate",
             "requested"}
Performing == {"artifact", "event"}

\* The stepIndex of every event on record, and the attained maximum the cursor
\* is computed from.
LogSteps == {NoStep} \cup {log[i].step : i \in DOMAIN log}
HighestStep == \E m \in LogSteps : \A s \in LogSteps : m >= s

\* A driver that is about to settle a step is ahead of everything settled; until
\* it records its verdict, ahead of everything on record.
Ahead ==
  \A p \in Procs :
    /\ drv[p].pc \in AtCursor => \A i \in DOMAIN log : log[i].step < drv[p].step
    /\ drv[p].pc \in Performing => \A i \in SettlingEvents : log[i].step < drv[p].step

OrderInv == OneProcess /\ TypeInv /\ HighestStep /\ Ahead /\ StepsInOrder

\* The events are rows of integers.
LEMMA LogTyped ==
  ASSUME TypeInv
  PROVE  /\ log \in Seq(Event) /\ DOMAIN log = 1 .. Len(log) /\ Len(log) \in Nat
         /\ \A i \in DOMAIN log : log[i] \in Event /\ log[i].step \in Int
         /\ NoStep \in Int /\ LogSteps \subseteq Int
<1>1. log \in Seq(Event) /\ DOMAIN log = 1 .. Len(log) /\ Len(log) \in Nat
  BY LenProperties DEF TypeInv, TypeOK
<1>2. \A i \in DOMAIN log : log[i] \in Event
  BY <1>1, ElementOfSeq
<1>3. \A i \in DOMAIN log : log[i].step \in Int
  BY <1>2 DEF Event
<1>4. QED
  BY <1>1, <1>2, <1>3 DEF LogSteps, NoStep

\* The cursor is ahead of the whole log.
LEMMA CursorAhead ==
  ASSUME TypeInv, HighestStep
  PROVE  Cursor \in Int /\ \A i \in DOMAIN log : log[i].step < Cursor
<1>1. Max(LogSteps) \in LogSteps /\ \A s \in LogSteps : Max(LogSteps) >= s
  <2>1. \E m \in LogSteps : \A s \in LogSteps : m >= s
    BY DEF HighestStep
  <2>2. QED
    BY <2>1, Zenon DEF Max
<1> DEFINE highest == Max(LogSteps)
<1>2. Cursor = highest + 1
  BY DEF Cursor, LogSteps
<1>3. \A i \in DOMAIN log : log[i].step \in LogSteps
  BY DEF LogSteps
<1>4. highest \in Int /\ \A i \in DOMAIN log : log[i].step \in Int
  BY <1>1, LogTyped
<1>5. \A i \in DOMAIN log : highest >= log[i].step
  BY <1>1, <1>3
<1> HIDE DEF highest
<1>6. \A i \in DOMAIN log : log[i].step < highest + 1
  BY <1>4, <1>5
<1>7. QED
  BY <1>2, <1>4, <1>6

\* Drivers that settle or perform a step, and what else is recorded: events that
\* name no step and ask for no approval.
Settles(p) == RecordEvaluated(p) \/ RecordDenied(p) \/ RecordRequested(p) \/ RecordStep(p)
Aside(event) == /\ event.step = NoStep
                /\ event.actor # "agent"
                /\ event.type # "APPROVAL_REQUESTED"

LEMMA QuietGrowth ==
  ASSUME TypeInv, [Next]_vars, \A p \in Procs : ~Settles(p)
  PROVE  /\ \A i \in DOMAIN log : i \in DOMAIN log' /\ log'[i] = log[i]
         /\ \A i \in DOMAIN log' : i \in DOMAIN log \/ Aside(log'[i])
<1> DEFINE Types == ControlEvents \ {"APPROVAL_REQUESTED"}
<1>1. /\ log \in Seq(Event) /\ DOMAIN log = 1 .. Len(log) /\ Len(log) \in Nat
      /\ NoStep \in Int
  BY LogTyped
<1>2. CASE log' = log
  BY <1>2
<1>3. CASE \E type \in Types, actor \in {"user", "reviewer", "system"} :
             Record(type, actor, NoStep)
  <2>1. PICK type \in Types, actor \in {"user", "reviewer", "system"} :
             Record(type, actor, NoStep)
    BY <1>3
  <2>2. log' = Append(log, Entry(type, actor, NoStep)) /\ Entry(type, actor, NoStep) \in Event
    BY <1>1, <2>1, ControlTyped DEF Record
  <2>3. Aside(Entry(type, actor, NoStep))
    BY DEF Entry, Aside
  <2>4. QED
    BY <1>1, <2>2, <2>3, AppendProperties, LenProperties
<1>4. ASSUME NEW u \in Users, CancelCommit(u)
      PROVE  /\ \A i \in DOMAIN log : i \in DOMAIN log' /\ log'[i] = log[i]
             /\ \A i \in DOMAIN log' : i \in DOMAIN log \/ Aside(log'[i])
  <2> DEFINE asked == Entry("CANCELLATION_REQUESTED", "user", NoStep)
             cancelled == Entry("RUN_CANCELLED", "user", NoStep)
             Silent(s) == s \in Seq(Event) /\ \A i \in 1 .. Len(s) : Aside(s[i])
  <2>1. asked \in Event /\ cancelled \in Event
    BY <1>1, ControlTyped DEF ControlEvents
  <2>2. Silent(<<>>) /\ Silent(<<asked>>) /\ Silent(<<cancelled>>)
    BY <2>1 DEF Entry, Aside
  <2>3. PICK first, last : Silent(first) /\ Silent(last) /\ log' = log \o first \o last
    BY <1>4, <2>2 DEF CancelCommit
  <2>4. ASSUME NEW s \in Seq(Event), NEW t, Silent(t)
        PROVE  /\ s \o t \in Seq(Event)
               /\ \A i \in DOMAIN s : i \in DOMAIN (s \o t) /\ (s \o t)[i] = s[i]
               /\ \A i \in DOMAIN (s \o t) : i \in DOMAIN s \/ Aside((s \o t)[i])
    <3>1. /\ s \o t \in Seq(Event) /\ Len(s \o t) = Len(s) + Len(t)
          /\ \A i \in 1 .. Len(s) + Len(t) :
               (s \o t)[i] = IF i <= Len(s) THEN s[i] ELSE t[i - Len(s)]
      BY <2>4, ConcatProperties
    <3>2. /\ Len(s) \in Nat /\ DOMAIN s = 1 .. Len(s) /\ Len(t) \in Nat
          /\ DOMAIN (s \o t) = 1 .. Len(s) + Len(t)
      BY <2>4, <3>1, LenProperties
    <3>3. QED
      BY <2>4, <3>1, <3>2
  <2> HIDE DEF Silent
  <2> DEFINE middle == log \o first
  <2>5. /\ middle \in Seq(Event)
        /\ \A i \in DOMAIN log : i \in DOMAIN middle /\ middle[i] = log[i]
        /\ \A i \in DOMAIN middle : i \in DOMAIN log \/ Aside(middle[i])
    BY <1>1, <2>3, <2>4
  <2>6. log' = middle \o last
    BY <2>3
  <2> HIDE DEF middle
  <2>7. /\ \A i \in DOMAIN middle : i \in DOMAIN log' /\ log'[i] = middle[i]
        /\ \A i \in DOMAIN log' : i \in DOMAIN middle \/ Aside(log'[i])
    BY <2>3, <2>4, <2>5, <2>6
  <2>8. QED
    BY <2>5, <2>7
<1>5. ASSUME NEW p \in Procs, DriverStep(p), log' # log
      PROVE  \E type \in Types, actor \in {"user", "reviewer", "system"} :
               Record(type, actor, NoStep)
  BY <1>5
     DEF Settles, DriverStep, LoadRun, ReadCursor, EnforceAction, FindGrant, FindGate,
         CreateGate, Park, WriteArtifact, CreateSimulatedPullRequest, RecordFinish,
         CloseGates, RecordTeardown, Settle, SealEvidence, RecordSealed, LeaveDrive,
         ControlEvents
<1>6. ASSUME NEW u \in Users, RequestStep(u), log' # log, ~CancelCommit(u)
      PROVE  \E type \in Types, actor \in {"user", "reviewer", "system"} :
               Record(type, actor, NoStep)
  BY <1>6
     DEF RequestStep, SimulateCommit, PauseRecord, PauseCommit, ResumeRecord,
         ResumeCommit, RedirectCommit, DecideCommit, ApproveRecord, RejectRecord,
         RejectClose, ControlEvents
<1>7. CASE log' # log
  <2> HIDE DEF Types
  <2>1. QED
    BY <1>3, <1>4, <1>5, <1>6, <1>7
       DEF Next, RequestArrives, SimulateRead, PauseRead, ResumeRead, CancelRead,
           RedirectRead, DecideRead, OpenStream, DriverFails, Crash, vars
<1>8. QED
  BY <1>2, <1>7

\* A driver that settles a step appends one event, which names its step.
LEMMA SettledGrowth ==
  ASSUME TypeInv, NEW p \in Procs, Settles(p)
  PROVE  /\ drv[p].step \in Steps
         /\ DOMAIN log' = 1 .. Len(log) + 1
         /\ \A i \in DOMAIN log : i \in DOMAIN log' /\ log'[i] = log[i]
         /\ log'[Len(log) + 1].step = drv[p].step
         /\ RecordEvaluated(p) => log'[Len(log) + 1].type = "POLICY_EVALUATED"
         /\ RecordStep(p) => /\ log'[Len(log) + 1].actor = "agent"
                             /\ log'[Len(log) + 1].type = Script[drv[p].step].event
         /\ ~RecordStep(p) => log'[Len(log) + 1].actor = "system"
         /\ RecordDenied(p) => log'[Len(log) + 1].type = "POLICY_DENIED"
<1>1. log \in Seq(Event) /\ DOMAIN log = 1 .. Len(log) /\ Len(log) \in Nat
  BY LogTyped
<1>2. drv[p].step \in Steps /\ drv[p].step \in Int
  BY StepTyped DEF Settles, RecordEvaluated, RecordDenied, RecordRequested, RecordStep, AtStep
<1>3. PICK entry \in Event :
        /\ log' = Append(log, entry)
        /\ entry.step = drv[p].step
        /\ RecordEvaluated(p) => entry.type = "POLICY_EVALUATED"
        /\ RecordStep(p) => entry.actor = "agent" /\ entry.type = Script[drv[p].step].event
        /\ ~RecordStep(p) => entry.actor = "system"
        /\ RecordDenied(p) => entry.type = "POLICY_DENIED"
  <2>1. CASE RecordStep(p)
    <3>1. Entry(Script[drv[p].step].event, "agent", drv[p].step) \in Event
      BY <1>2 DEF Entry, Event
    <3>2. ~RecordEvaluated(p) /\ ~RecordDenied(p)
      BY <2>1 DEF RecordStep, RecordEvaluated, RecordDenied
    <3>3. QED
      BY <2>1, <3>1, <3>2 DEF RecordStep, Record, Entry
  <2>2. CASE RecordEvaluated(p)
    <3>1. Entry("POLICY_EVALUATED", "system", drv[p].step) \in Event
      BY <1>2, ControlTyped DEF ControlEvents
    <3>2. ~RecordStep(p) /\ ~RecordDenied(p)
      BY <2>2 DEF RecordStep, RecordEvaluated, RecordDenied
    <3>3. QED
      BY <2>2, <3>1, <3>2 DEF RecordEvaluated, Record, Entry
  <2>3. CASE RecordDenied(p)
    <3>1. Entry("POLICY_DENIED", "system", drv[p].step) \in Event
      BY <1>2, ControlTyped DEF ControlEvents
    <3>2. ~RecordStep(p) /\ ~RecordEvaluated(p)
      BY <2>3 DEF RecordStep, RecordEvaluated, RecordDenied
    <3>3. QED
      BY <2>3, <3>1, <3>2 DEF RecordDenied, Record, Entry
  <2>4. CASE RecordRequested(p)
    <3>1. Entry("APPROVAL_REQUESTED", "system", drv[p].step) \in Event
      BY <1>2, ControlTyped DEF ControlEvents
    <3>2. ~RecordStep(p) /\ ~RecordEvaluated(p) /\ ~RecordDenied(p)
      BY <2>4 DEF RecordStep, RecordEvaluated, RecordDenied, RecordRequested
    <3>3. QED
      BY <2>4, <3>1, <3>2 DEF RecordRequested, Record, Entry
  <2>5. QED
    BY <2>1, <2>2, <2>3, <2>4 DEF Settles
<1>4. /\ DOMAIN log' = 1 .. Len(log) + 1
      /\ \A i \in 1 .. Len(log) : log'[i] = log[i]
      /\ log'[Len(log) + 1] = entry
  BY <1>1, <1>3, AppendProperties, LenProperties
<1>5. QED
  BY <1>1, <1>2, <1>3, <1>4

\* After settling, the driver's step is only performed, and only once evaluated.
LEMMA SettledCourse ==
  ASSUME TypeInv, NEW p \in Procs, Settles(p)
  PROVE  /\ drv'[p].pc \notin AtCursor
         /\ drv'[p].pc \in Performing => RecordEvaluated(p) /\ drv'[p].step = drv[p].step
<1>1. drv \in [Procs -> Driver]
  BY DEF TypeInv, TypeOK
<1>2. CASE RecordEvaluated(p) \/ RecordDenied(p) \/ RecordRequested(p)
  BY <1>1, <1>2
     DEF RecordEvaluated, RecordDenied, RecordRequested, Goto, Conclude, Driver, AtCursor,
         Performing
<1>3. CASE RecordStep(p)
  BY <1>1, <1>3 DEF RecordStep, Goto, NextCall, At, Driver, AtCursor, Performing
<1>4. QED
  BY <1>2, <1>3 DEF Settles

\* How a driver that settles nothing comes to a label of its step: from the
\* cursor it reads now, or from an earlier label of the same step.
CursorRead(q) == ReadCursor(q) /\ drv'[q].step = Cursor /\ log' = log
Stays(q, labels) == drv[q].pc \in labels /\ drv'[q].step = drv[q].step

LEMMA QuietCourse ==
  ASSUME TypeInv, [Next]_vars, \A p \in Procs : ~Settles(p), NEW q \in Procs
  PROVE  /\ drv'[q].pc \in AtCursor => CursorRead(q) \/ Stays(q, AtCursor)
         /\ drv'[q].pc \in Performing => CursorRead(q) \/ Stays(q, Performing)
<1> DEFINE Fine == /\ drv'[q].pc \in AtCursor => CursorRead(q) \/ Stays(q, AtCursor)
                   /\ drv'[q].pc \in Performing => CursorRead(q) \/ Stays(q, Performing)
<1>1. drv \in [Procs -> Driver]
  BY DEF TypeInv, TypeOK
<1>2. CASE drv'[q] = drv[q]
  BY <1>2 DEF Stays
<1>3. CASE drv'[q].pc \notin AtCursor \cup Performing
  BY <1>3
<1>4. CASE ReadCursor(q)
  <2>1. log' = log
    BY <1>4 DEF ReadCursor
  <2>2. CASE Cursor \in Steps
    BY <1>1, <1>4, <2>1, <2>2 DEF ReadCursor, CursorRead
  <2>3. CASE Cursor \notin Steps
    BY <1>1, <1>4, <2>3 DEF ReadCursor, AtCursor, Performing
  <2>4. QED
    BY <2>2, <2>3
<1>5. CASE EnforceAction(q)
  <2>1. PICK verdict \in Outcomes :
          Goto(q, CASE verdict = "ALLOWED" -> "evaluated"
                    [] verdict = "DENIED" -> "denied"
                    [] verdict = "APPROVAL_REQUIRED" -> "grant")
    BY <1>5, VerdictsAssumption, StepTyped DEF EnforceAction, TypeInv, StepKnown, AtStep, Steps
  <2>2. drv[q].pc \in AtCursor
    BY <1>5 DEF EnforceAction, AtCursor
  <2>3. drv'[q].step = drv[q].step /\ drv'[q].pc \in {"evaluated", "denied", "grant"}
    BY <1>1, <2>1 DEF Goto, Driver, Outcomes
  <2>4. QED
    BY <2>2, <2>3 DEF Stays, Performing
<1>6. CASE FindGrant(q) \/ FindGate(q) \/ CreateGate(q)
  <2>1. drv[q].pc \in AtCursor
    BY <1>6 DEF FindGrant, FindGate, CreateGate, AtCursor
  <2>2. \/ drv'[q].pc = "idle"
        \/ /\ drv'[q].step = drv[q].step
           /\ drv'[q].pc \in {"evaluated", "denied", "findGate", "createGate", "requested"}
    BY <1>1, <1>6 DEF FindGrant, FindGate, CreateGate, Goto, Stop, NoDriver, At, Driver
  <2>3. QED
    BY <2>1, <2>2 DEF Stays, Performing, AtCursor
<1>7. CASE WriteArtifact(q)
  <2>1. drv'[q].step = drv[q].step /\ drv'[q].pc \in {"event", "finish"}
    BY <1>1, <1>7 DEF WriteArtifact, Conclude
  <2>2. QED
    BY <1>7, <2>1 DEF WriteArtifact, Stays, Performing, AtCursor
<1>8. ASSUME NEW p \in Procs, DriverStep(p)
      PROVE  Fine
  <2>1. CASE p # q
    <3>1. drv'[q] = drv[q]
      BY <1>1, <1>8, <2>1
         DEF DriverStep, LoadRun, ReadCursor, EnforceAction, FindGrant, RecordEvaluated,
             RecordDenied, FindGate, CreateGate, RecordRequested, Park, WriteArtifact,
             RecordStep, CreateSimulatedPullRequest, RecordFinish, CloseGates,
             RecordTeardown, Settle, SealEvidence, RecordSealed, LeaveDrive, Goto,
             Conclude, NextCall, Stop
    <3>2. QED
      BY <1>2, <3>1
  <2>2. CASE p = q
    <3>1. ASSUME LoadRun(q) \/ Park(q) \/ CreateSimulatedPullRequest(q) \/ LeaveDrive(q)
          PROVE  drv'[q].pc \notin AtCursor \cup Performing
      BY <1>1, <3>1
         DEF LoadRun, Park, CreateSimulatedPullRequest, LeaveDrive, NextCall, Goto, Stop,
             NoDriver, At, Driver, AtCursor, Performing
    <3>2. ASSUME RecordFinish(q) \/ CloseGates(q) \/ RecordTeardown(q) \/ Settle(q)
                 \/ SealEvidence(q) \/ RecordSealed(q)
          PROVE  drv'[q].pc \notin AtCursor \cup Performing
      BY <1>1, <3>2
         DEF RecordFinish, CloseGates, RecordTeardown, Settle, SealEvidence, RecordSealed,
             Goto, Driver, AtCursor, Performing
    <3>3. ~Settles(q)
      OBVIOUS
    <3>4. QED
      BY <1>3, <1>4, <1>5, <1>6, <1>7, <1>8, <2>2, <3>1, <3>2, <3>3 DEF DriverStep, Settles
  <2>3. QED
    BY <2>1, <2>2
<1>9. CASE \E p \in Procs \cup {NoProc} : drv' = Drive(p)
  BY <1>1, <1>2, <1>3, <1>9 DEF Drive, At, AtCursor, Performing
<1>10. CASE \E p \in Procs : DriverFails(p) \/ Crash(p)
  BY <1>1, <1>2, <1>3, <1>10 DEF DriverFails, Crash, Stop, NoDriver, At, AtCursor, Performing
<1>11. CASE \E u \in Users : RequestArrives(u) \/ RequestStep(u)
  <2>1. \A u \in Users : req[u].proc \in Procs \cup {NoProc}
    BY DEF TypeInv, TypeOK, Request
  <2>2. drv' = drv \/ \E p \in Procs \cup {NoProc} : drv' = Drive(p)
    BY <1>11, <2>1
       DEF RequestArrives, SimulateRead, PauseRead, ResumeRead, CancelRead, RedirectRead,
           DecideRead, RequestStep, SimulateCommit, PauseRecord, PauseCommit,
           ResumeRecord, ResumeCommit, CancelCommit, RedirectCommit, DecideCommit,
           ApproveRecord, RejectRecord, RejectClose
  <2>3. QED
    BY <1>2, <1>9, <2>2
<1>12. QED
  BY <1>2, <1>8, <1>9, <1>10, <1>11 DEF Next, OpenStream, vars

LEMMA OrderInit == Init /\ OneProcess => OrderInv
<1>1. SUFFICES ASSUME Init, OneProcess PROVE OrderInv
  OBVIOUS
<1>2. DOMAIN log = {1} /\ log[1].step = NoStep
  BY <1>1 DEF Init, Entry
<1>3. LogSteps = {NoStep} /\ SettlingEvents = {}
  BY <1>2 DEF LogSteps, SettlingEvents
<1>4. HighestStep
  BY <1>3 DEF HighestStep, NoStep
<1>5. Ahead
  BY <1>1 DEF Init, Ahead, NoDriver, At, AtCursor, Performing
<1>6. StepsInOrder
  BY <1>3 DEF StepsInOrder
<1>7. QED
  BY <1>1, <1>4, <1>5, <1>6, InitTyped DEF OrderInv

\* A step that settles nothing keeps the order.
LEMMA QuietKeepsOrder ==
  ASSUME OrderInv, [Next]_vars, \A p \in Procs : ~Settles(p)
  PROVE  HighestStep' /\ Ahead' /\ StepsInOrder'
<1>1. /\ TypeInv
      /\ \A i \in DOMAIN log : i \in DOMAIN log' /\ log'[i] = log[i]
      /\ \A i \in DOMAIN log' : i \in DOMAIN log \/ log'[i].step = NoStep
  BY QuietGrowth DEF OrderInv, Aside
<1>2. LogSteps' = LogSteps
  BY <1>1 DEF LogSteps
<1>3. \A i \in SettlingEvents' : i \in SettlingEvents /\ log'[i] = log[i]
  BY <1>1 DEF SettlingEvents
<1>4. HighestStep'
  BY <1>2 DEF HighestStep, OrderInv
<1>5. StepsInOrder'
  BY <1>3 DEF StepsInOrder, OrderInv
<1>6. ASSUME NEW q \in Procs
      PROVE  /\ drv'[q].pc \in AtCursor => \A i \in DOMAIN log' : log'[i].step < drv'[q].step
             /\ drv'[q].pc \in Performing =>
                  \A i \in SettlingEvents' : log'[i].step < drv'[q].step
  <2>1. CASE CursorRead(q)
    <3>1. \A i \in DOMAIN log' : log'[i].step < drv'[q].step
      BY <1>1, <2>1, CursorAhead DEF CursorRead, OrderInv
    <3>2. QED
      BY <3>1 DEF SettlingEvents
  <2>2. CASE Stays(q, AtCursor)
    <3>1. drv[q].step \in Nat
      BY <1>1, <2>2, StepTyped, ScriptAssumption DEF Stays, AtCursor, AtStep, Steps
    <3>2. \A i \in DOMAIN log : log[i].step < drv[q].step
      BY <2>2 DEF Stays, OrderInv, Ahead
    <3>3. \A i \in DOMAIN log' : log'[i].step < drv'[q].step
      BY <1>1, <2>2, <3>1, <3>2 DEF Stays, NoStep
    <3>4. QED
      BY <3>3 DEF SettlingEvents
  <2>3. CASE Stays(q, Performing) /\ ~CursorRead(q) /\ ~Stays(q, AtCursor)
    <3>1. drv'[q].pc \notin AtCursor
      BY <1>1, <2>3, QuietCourse
    <3>2. \A i \in SettlingEvents : log[i].step < drv[q].step
      BY <2>3 DEF Stays, OrderInv, Ahead
    <3>3. QED
      BY <1>3, <2>3, <3>1, <3>2 DEF Stays
  <2>4. QED
    BY <1>1, <2>1, <2>2, <2>3, QuietCourse
<1>7. Ahead'
  BY <1>6 DEF Ahead
<1>8. QED
  BY <1>4, <1>5, <1>7

\* A step settled by the only process comes after every step settled before.
LEMMA SettlingKeepsOrder ==
  ASSUME OrderInv, NEW p \in Procs, Settles(p)
  PROVE  HighestStep' /\ Ahead' /\ StepsInOrder'
<1> DEFINE last == Len(log) + 1
<1>1. TypeInv /\ Procs = {p}
  BY DEF OrderInv, OneProcess
<1>2. /\ DOMAIN log = 1 .. Len(log) /\ Len(log) \in Nat /\ LogSteps \subseteq Int
      /\ \A i \in DOMAIN log : log[i].step \in Int
  BY <1>1, LogTyped
<1>3. /\ drv[p].step \in Int /\ DOMAIN log' = 1 .. last
      /\ \A i \in DOMAIN log : i \in DOMAIN log' /\ log'[i] = log[i]
      /\ log'[last].step = drv[p].step
      /\ RecordEvaluated(p) => log'[last].type = "POLICY_EVALUATED"
  BY <1>1, SettledGrowth, ScriptAssumption DEF Steps
<1>4. HighestStep'
  <2>1. LogSteps' = LogSteps \cup {drv[p].step}
    BY <1>2, <1>3 DEF LogSteps
  <2>2. PICK m \in LogSteps : \A s \in LogSteps : m >= s
    BY DEF OrderInv, HighestStep
  <2> HIDE DEF last
  <2>3. CASE m >= drv[p].step
    BY <2>1, <2>2, <2>3 DEF HighestStep
  <2>4. CASE ~(m >= drv[p].step)
    <3>1. ASSUME NEW s \in LogSteps PROVE drv[p].step >= s
      <4>1. s \in Int /\ m \in Int /\ m >= s
        BY <1>2, <2>2
      <4>2. QED
        BY <1>3, <2>4, <4>1
    <3>2. drv[p].step >= drv[p].step
      BY <1>3
    <3>3. QED
      BY <2>1, <3>1, <3>2 DEF HighestStep
  <2>5. QED
    BY <2>3, <2>4
<1>5. \A i \in SettlingEvents' :
        \/ i \in SettlingEvents /\ log'[i] = log[i] /\ i < last
        \/ i = last /\ ~RecordEvaluated(p)
  BY <1>2, <1>3 DEF SettlingEvents
<1>6. ~RecordEvaluated(p) => \A i \in SettlingEvents : log[i].step < drv[p].step
  <2>1. CASE RecordStep(p)
    BY <1>1, <2>1 DEF OrderInv, Ahead, RecordStep, Performing
  <2>2. CASE RecordDenied(p) \/ RecordRequested(p)
    BY <1>1, <2>2 DEF OrderInv, Ahead, RecordDenied, RecordRequested, AtCursor, SettlingEvents
  <2>3. QED
    BY <2>1, <2>2 DEF Settles
<1>7. StepsInOrder'
  <2>1. SUFFICES ASSUME NEW i \in SettlingEvents', NEW j \in SettlingEvents', i < j
                 PROVE  log'[i].step < log'[j].step
    BY DEF StepsInOrder
  <2>2. CASE j \in SettlingEvents /\ log'[j] = log[j] /\ j < last
    <3>1. i \in SettlingEvents /\ log'[i] = log[i]
      BY <1>2, <1>5, <2>1, <2>2 DEF SettlingEvents
    <3>2. QED
      BY <2>1, <2>2, <3>1 DEF OrderInv, StepsInOrder
  <2>3. CASE j = last /\ ~RecordEvaluated(p)
    <3>1. i \in SettlingEvents /\ log'[i] = log[i]
      BY <1>2, <1>5, <2>1, <2>3
    <3>2. QED
      BY <1>3, <1>6, <2>3, <3>1
  <2>4. QED
    BY <1>5, <2>2, <2>3
<1>8. Ahead'
  <2>1. drv'[p].pc \notin AtCursor
    BY <1>1, SettledCourse
  <2>2. CASE drv'[p].pc \in Performing
    <3>1. RecordEvaluated(p) /\ drv'[p].step = drv[p].step
      BY <1>1, <2>2, SettledCourse
    <3>2. \A i \in SettlingEvents : log[i].step < drv[p].step
      BY <3>1 DEF OrderInv, Ahead, RecordEvaluated, AtCursor, SettlingEvents
    <3>3. \A i \in SettlingEvents' : log'[i].step < drv'[p].step
      BY <1>5, <3>1, <3>2
    <3>4. QED
      BY <1>1, <2>1, <3>3 DEF Ahead
  <2>3. CASE drv'[p].pc \notin Performing
    BY <1>1, <2>1, <2>3 DEF Ahead
  <2>4. QED
    BY <2>2, <2>3
<1>9. QED
  BY <1>4, <1>7, <1>8

LEMMA OrderStep == OrderInv /\ [Next]_vars => OrderInv'
<1>1. SUFFICES ASSUME OrderInv, [Next]_vars PROVE OrderInv'
  OBVIOUS
<1>2. TypeInv'
  BY <1>1, NextTyped DEF OrderInv
<1>3. HighestStep' /\ Ahead' /\ StepsInOrder'
  BY <1>1, QuietKeepsOrder, SettlingKeepsOrder
<1>4. QED
  BY <1>1, <1>2, <1>3 DEF OrderInv, OneProcess

\* With one server process, for every script, rule set and room and whatever the
\* members, crashes and driver failures do: no step is performed, denied or sent
\* to a gate twice or out of the script's order.
THEOREM StepsStayInOrder == Spec /\ OneProcess => []StepsInOrder
<1>1. OrderInv => StepsInOrder
  BY DEF OrderInv
<1>2. QED
  BY <1>1, OrderInit, OrderStep, PTL DEF Spec

-----------------------------------------------------------------------------
(* The gate holds, with one process *)

Last == {"RUN_SUCCEEDED", "RUN_FAILED"}

\* Where the rows and the drivers' steps come from: a verdict on record is one
\* the rules may give, only a gated step is sent to a gate, and the agent never
\* emits the event of a step that ends the run.
RowsFromRules == \A row \in policyRows : row[2] \in Verdicts[Script[row[1]].action]
DriversAtGate ==
  \A p \in Procs :
    /\ drv[p].pc \in {"findGate", "createGate", "requested"} => Script[drv[p].step].gated
    /\ drv[p].pc = "event" => Script[drv[p].step].event \notin Last
RequestsFromGates ==
  \A i \in DOMAIN log : log[i].type = "APPROVAL_REQUESTED" /\ log[i].actor = "system" =>
    log[i].step \in Steps /\ Script[log[i].step].gated
AgentInside ==
  \A i \in AgentEvents : /\ log[i].step \in Steps
                         /\ log[i].type = Script[log[i].step].event
                         /\ log[i].type \notin Last

GateInv == RowsFromRules /\ DriversAtGate /\ RequestsFromGates /\ AgentInside

LEMMA GateInit == Init => GateInv
<1>1. SUFFICES ASSUME Init PROVE GateInv
  OBVIOUS
<1>2. DOMAIN log = {1} /\ log[1].type = "RUN_CREATED" /\ log[1].actor = "user"
  BY <1>1 DEF Init, Entry
<1>3. RequestsFromGates /\ AgentInside
  BY <1>2 DEF RequestsFromGates, AgentInside, AgentEvents
<1>4. RowsFromRules /\ DriversAtGate
  BY <1>1 DEF Init, RowsFromRules, DriversAtGate, NoDriver, At
<1>5. QED
  BY <1>3, <1>4 DEF GateInv

LEMMA RowsStayFromRules ==
  ASSUME TypeInv, RowsFromRules, [Next]_vars
  PROVE  RowsFromRules'
<1>1. ASSUME NEW p \in Procs, EnforceAction(p)
      PROVE  RowsFromRules'
  <2>1. PICK verdict \in Verdicts[Script[drv[p].step].action] :
          policyRows' = policyRows \cup {<<drv[p].step, verdict>>}
    BY <1>1 DEF EnforceAction
  <2>2. QED
    BY <2>1 DEF RowsFromRules
<1>2. CASE policyRows' = policyRows
  BY <1>2 DEF RowsFromRules
<1>3. QED
  BY ZenonT(30), <1>1, <1>2
     DEF Next, DriverStep, LoadRun, ReadCursor, FindGrant,
         RecordEvaluated, RecordDenied, FindGate, CreateGate, RecordRequested, Park,
         WriteArtifact, RecordStep, CreateSimulatedPullRequest, RecordFinish, CloseGates,
         RecordTeardown, Settle, SealEvidence, RecordSealed, LeaveDrive, RequestArrives,
         SimulateRead, PauseRead, ResumeRead, CancelRead, RedirectRead, DecideRead,
         RequestStep, SimulateCommit, PauseRecord, PauseCommit, ResumeRecord,
         ResumeCommit, CancelCommit, RedirectCommit, DecideCommit, ApproveRecord,
         RejectRecord, RejectClose, OpenStream, DriverFails, Crash, vars, gateVars,
         trailVars

\* What is recorded for a gate names a gated step, and the agent's events are the
\* script's.
LEMMA RecordsStayFromScript ==
  ASSUME TypeInv, GateInv, [Next]_vars
  PROVE  RequestsFromGates' /\ AgentInside'
<1>1. CASE \A p \in Procs : ~Settles(p)
  <2>1. /\ \A i \in DOMAIN log : i \in DOMAIN log' /\ log'[i] = log[i]
        /\ \A i \in DOMAIN log' : i \in DOMAIN log \/ Aside(log'[i])
    BY <1>1, QuietGrowth
  <2>2. RequestsFromGates'
    BY <2>1 DEF GateInv, RequestsFromGates, Aside
  <2>3. AgentInside'
    BY <2>1 DEF GateInv, AgentInside, AgentEvents, Aside
  <2>4. QED
    BY <2>2, <2>3
<1>2. ASSUME NEW p \in Procs, Settles(p)
      PROVE  RequestsFromGates' /\ AgentInside'
  <2> DEFINE last == Len(log) + 1
  <2>1. DOMAIN log = 1 .. Len(log) /\ Len(log) \in Nat
    BY LogTyped
  <2>2. /\ drv[p].step \in Steps
        /\ DOMAIN log' = 1 .. last
        /\ \A i \in DOMAIN log : i \in DOMAIN log' /\ log'[i] = log[i]
        /\ log'[last].step = drv[p].step
        /\ RecordEvaluated(p) => log'[last].type = "POLICY_EVALUATED"
        /\ RecordStep(p) => /\ log'[last].actor = "agent"
                            /\ log'[last].type = Script[drv[p].step].event
        /\ ~RecordStep(p) => log'[last].actor = "system"
        /\ RecordDenied(p) => log'[last].type = "POLICY_DENIED"
    BY <1>2, SettledGrowth
  <2>3. \A i \in DOMAIN log' : i \in DOMAIN log \/ i = last
    BY <2>1, <2>2
  <2> HIDE DEF last
  <2>4. ASSUME log'[last].type = "APPROVAL_REQUESTED", log'[last].actor = "system"
        PROVE  Script[drv[p].step].gated
    <3>1. ~RecordEvaluated(p) /\ ~RecordDenied(p) /\ ~RecordStep(p)
      BY <2>2, <2>4
    <3>2. drv[p].pc = "requested"
      BY <1>2, <3>1 DEF Settles, RecordRequested
    <3>3. QED
      BY <3>2 DEF GateInv, DriversAtGate
  <2>5. ASSUME log'[last].actor = "agent"
        PROVE  log'[last].type = Script[drv[p].step].event /\ log'[last].type \notin Last
    <3>1. RecordStep(p)
      BY <2>2, <2>5
    <3>2. Script[drv[p].step].event \notin Last
      BY <3>1 DEF RecordStep, GateInv, DriversAtGate
    <3>3. QED
      BY <2>2, <3>1, <3>2
  <2>6. RequestsFromGates'
    <3>1. SUFFICES ASSUME NEW i \in DOMAIN log', log'[i].type = "APPROVAL_REQUESTED",
                          log'[i].actor = "system"
                   PROVE  log'[i].step \in Steps /\ Script[log'[i].step].gated
      BY DEF RequestsFromGates
    <3>2. CASE i \in DOMAIN log
      BY <2>2, <3>1, <3>2 DEF GateInv, RequestsFromGates
    <3>3. CASE i = last
      <4>1. Script[drv[p].step].gated
        BY <2>4, <3>1, <3>3, Zenon
      <4>2. log'[i].step = drv[p].step
        BY <2>2, <3>3
      <4>3. Script[log'[i].step].gated
        BY <4>1, <4>2, Zenon
      <4>4. QED
        BY <2>2, <4>2, <4>3
    <3>4. QED
      BY <2>3, <3>2, <3>3
  <2>7. AgentInside'
    <3>1. SUFFICES ASSUME NEW i \in DOMAIN log', log'[i].actor = "agent"
                   PROVE  /\ log'[i].step \in Steps
                          /\ log'[i].type = Script[log'[i].step].event
                          /\ log'[i].type \notin Last
      BY DEF AgentInside, AgentEvents
    <3>2. CASE i \in DOMAIN log
      BY <2>2, <3>1, <3>2 DEF GateInv, AgentInside, AgentEvents
    <3>3. CASE i = last
      BY <2>2, <2>5, <3>1, <3>3
    <3>4. QED
      BY <2>3, <3>2, <3>3
  <2>8. QED
    BY <2>6, <2>7
<1>3. QED
  BY <1>1, <1>2

\* A driver reaches the gate only at a gated step, and its event only at a step
\* that does not end the run.
LEMMA DriversStayAtGate ==
  ASSUME TypeInv, DriversAtGate, [Next]_vars
  PROVE  DriversAtGate'
<1> DEFINE Gated == {"findGate", "createGate", "requested"}
           Fine(q) == /\ drv[q].pc \in Gated => Script[drv[q].step].gated
                      /\ drv[q].pc = "event" => Script[drv[q].step].event \notin Last
<1>1. SUFFICES ASSUME NEW q \in Procs PROVE Fine(q)'
  BY DEF DriversAtGate
<1>2. drv \in [Procs -> Driver] /\ Fine(q)
  BY DEF TypeInv, TypeOK, DriversAtGate
<1>3. CASE drv'[q] = drv[q]
  BY <1>2, <1>3
<1>4. CASE drv'[q].pc \notin Gated \cup {"event"}
  BY <1>4
<1>5. CASE EnforceAction(q)
  <2>1. PICK verdict \in Outcomes :
          Goto(q, CASE verdict = "ALLOWED" -> "evaluated"
                    [] verdict = "DENIED" -> "denied"
                    [] verdict = "APPROVAL_REQUIRED" -> "grant")
    BY <1>5, VerdictsAssumption, StepTyped DEF EnforceAction, TypeInv, StepKnown, AtStep, Steps
  <2>2. drv'[q].pc \in {"evaluated", "denied", "grant"}
    BY <1>2, <2>1 DEF Goto, Driver, Outcomes
  <2>3. QED
    BY <1>4, <2>2
<1>6. CASE FindGrant(q)
  <2>1. drv'[q].step = drv[q].step
    BY <1>2, <1>6 DEF FindGrant, Goto, Driver
  <2>2. CASE Script[drv[q].step].gated
    <3>1. drv'[q].pc \in {"evaluated", "findGate", "denied"}
      BY <1>2, <1>6 DEF FindGrant, Goto, Driver
    <3>2. Script[drv'[q].step].gated
      BY <2>1, <2>2, Zenon
    <3>3. QED
      BY <3>1, <3>2
  <2>3. CASE ~Script[drv[q].step].gated
    <3>1. drv'[q].pc \in {"evaluated", "denied"}
      BY <1>2, <1>6, <2>3 DEF FindGrant, Goto, Driver
    <3>2. QED
      BY <1>4, <3>1
  <2>4. QED
    BY <2>2, <2>3
<1>7. CASE FindGate(q) \/ CreateGate(q)
  <2>1. drv[q].pc \in Gated
    BY <1>7 DEF FindGate, CreateGate
  <2>2. \/ drv'[q].pc = "idle"
        \/ drv'[q].step = drv[q].step /\ drv'[q].pc \in Gated
    BY <1>2, <1>7 DEF FindGate, CreateGate, Goto, Stop, NoDriver, At, Driver
  <2>3. QED
    BY <1>2, <2>1, <2>2
<1>8. CASE WriteArtifact(q)
  <2>1. /\ drv'[q].step = drv[q].step
        /\ drv'[q].pc = IF Script[drv[q].step].event \in Last THEN "finish" ELSE "event"
    BY <1>2, <1>8 DEF WriteArtifact, Conclude, Last
  <2>2. QED
    BY <2>1
<1>9. ASSUME NEW p \in Procs, DriverStep(p)
      PROVE  Fine(q)'
  <2>1. CASE p # q
    <3>1. drv'[q] = drv[q]
      BY <1>2, <1>9, <2>1
         DEF DriverStep, LoadRun, ReadCursor, EnforceAction, FindGrant, RecordEvaluated,
             RecordDenied, FindGate, CreateGate, RecordRequested, Park, WriteArtifact,
             RecordStep, CreateSimulatedPullRequest, RecordFinish, CloseGates,
             RecordTeardown, Settle, SealEvidence, RecordSealed, LeaveDrive, Goto,
             Conclude, NextCall, Stop
    <3>2. QED
      BY <1>3, <3>1
  <2>2. CASE p = q
    <3>1. ASSUME LoadRun(q) \/ ReadCursor(q) \/ RecordEvaluated(q) \/ RecordDenied(q)
                 \/ RecordRequested(q) \/ Park(q)
          PROVE  drv'[q].pc \notin Gated \cup {"event"}
      BY <1>2, <3>1
         DEF LoadRun, ReadCursor, RecordEvaluated, RecordDenied, RecordRequested, Park,
             Goto, Conclude, Driver
    <3>2. ASSUME RecordStep(q) \/ CreateSimulatedPullRequest(q) \/ LeaveDrive(q)
          PROVE  drv'[q].pc \notin Gated \cup {"event"}
      BY <1>2, <3>2
         DEF RecordStep, CreateSimulatedPullRequest, LeaveDrive, Goto, NextCall, Stop,
             NoDriver, At, Driver
    <3>3. ASSUME RecordFinish(q) \/ CloseGates(q) \/ RecordTeardown(q) \/ Settle(q)
                 \/ SealEvidence(q) \/ RecordSealed(q)
          PROVE  drv'[q].pc \notin Gated \cup {"event"}
      BY <1>2, <3>3
         DEF RecordFinish, CloseGates, RecordTeardown, Settle, SealEvidence, RecordSealed,
             Goto, Driver
    <3>4. QED
      BY <1>4, <1>5, <1>6, <1>7, <1>8, <1>9, <2>2, <3>1, <3>2, <3>3 DEF DriverStep
  <2>3. QED
    BY <2>1, <2>2
<1>10. CASE \E p \in Procs \cup {NoProc} : drv' = Drive(p)
  BY <1>2, <1>3, <1>4, <1>10 DEF Drive, At
<1>11. CASE \E p \in Procs : DriverFails(p) \/ Crash(p)
  BY <1>2, <1>3, <1>4, <1>11 DEF DriverFails, Crash, Stop, NoDriver, At
<1>12. CASE \E u \in Users : RequestArrives(u) \/ RequestStep(u)
  <2>1. \A u \in Users : req[u].proc \in Procs \cup {NoProc}
    BY DEF TypeInv, TypeOK, Request
  <2>2. drv' = drv \/ \E p \in Procs \cup {NoProc} : drv' = Drive(p)
    BY <1>12, <2>1
       DEF RequestArrives, SimulateRead, PauseRead, ResumeRead, CancelRead, RedirectRead,
           DecideRead, RequestStep, SimulateCommit, PauseRecord, PauseCommit,
           ResumeRecord, ResumeCommit, CancelCommit, RedirectCommit, DecideCommit,
           ApproveRecord, RejectRecord, RejectClose
  <2>3. QED
    BY <1>3, <1>10, <2>2
<1>13. QED
  BY <1>3, <1>9, <1>10, <1>11, <1>12 DEF Next, OpenStream, vars

\* The order of the steps, the authority of what was performed and the guarded
\* tail of the script together keep the gate shut.
LEMMA GateFollows ==
  ASSUME OrderInv, AuthorityInv, GateInv, GateGuarded
  PROVE  GateHolds
<1>1. SUFFICES ASSUME NEW i \in AgentEvents, NEW j \in DOMAIN log, j < i,
                      log[j].type = "APPROVAL_REQUESTED", log[j].actor = "system"
               PROVE  \E d \in decisions : d.decision = "APPROVE"
  BY DEF GateHolds
<1> DEFINE from == log[j].step
           to == log[i].step
<1>2. /\ from \in Steps /\ Script[from].gated
  BY <1>1 DEF GateInv, RequestsFromGates
<1>3. to \in Steps /\ log[i].type = Script[to].event /\ log[i].type \notin Last
  BY DEF GateInv, AgentInside
<1>4. i \in SettlingEvents /\ j \in SettlingEvents
  <2>1. from # NoStep /\ to # NoStep
    BY <1>2, <1>3, ScriptAssumption DEF Steps, NoStep
  <2>2. Script[to].event # "POLICY_EVALUATED"
    BY <1>3 DEF GateGuarded
  <2>3. QED
    BY <1>1, <1>3, <2>1, <2>2 DEF SettlingEvents, AgentEvents
<1>5. from < to
  BY <1>1, <1>4 DEF OrderInv, StepsInOrder
<1>6. Script[to].action # NoAction /\ "ALLOWED" \notin Verdicts[Script[to].action]
  <2>1. \/ Script[to].event \in {"RUN_SUCCEEDED", "RUN_FAILED"}
        \/ Script[to].action # NoAction /\ "ALLOWED" \notin Verdicts[Script[to].action]
    BY <1>2, <1>3, <1>5, Zenon DEF GateGuarded
  <2>2. QED
    BY <1>3, <2>1 DEF Last
<1>7. to \in Cleared
  BY DEF AuthorityInv, PerformedCleared
<1>8. <<to, "ALLOWED">> \notin policyRows
  BY <1>6 DEF GateInv, RowsFromRules
<1>9. QED
  BY <1>6, <1>7, <1>8 DEF Cleared, Authorised

\* With one server process, for every room and every script and rule set in which
\* no rule allows outright what lies behind a gate: once the run has asked for
\* approval the agent performs nothing more until a reviewer has approved,
\* whatever is paused, resumed, redirected, cancelled, restarted or failing.
THEOREM GateAlwaysHolds == Spec /\ OneProcess /\ GateGuarded => []GateHolds
<1> DEFINE Inv == OrderInv /\ AuthorityInv /\ GateInv /\ GateGuarded
<1>1. Init /\ OneProcess /\ GateGuarded => Inv
  BY OrderInit, AuthorityInit, GateInit
<1>2. Inv /\ [Next]_vars => Inv'
  <2>1. SUFFICES ASSUME Inv, [Next]_vars PROVE Inv'
    OBVIOUS
  <2>2. OrderInv' /\ AuthorityInv'
    BY <2>1, OrderStep, AuthorityStep
  <2>3. GateInv'
    BY <2>1, RowsStayFromRules, RecordsStayFromScript, DriversStayAtGate
       DEF OrderInv, GateInv
  <2>4. GateGuarded'
    BY <2>1 DEF GateGuarded, Steps
  <2>5. QED
    BY <2>2, <2>3, <2>4
<1>3. Inv => GateHolds
  BY GateFollows
<1>4. QED
  BY <1>1, <1>2, <1>3, PTL DEF Spec
=============================================================================
