---------------------------- MODULE IngestProofs ----------------------------
(***************************************************************************)
(* Theorems about Ingest, for every set of sessions, events, batches and   *)
(* requests: the types are right, the task has one active run at most, a   *)
(* closed run keeps its outcome, and an accepted batch is on record.       *)
(* At the end, about Signals, the alarms computed from what is recorded.   *)
(***************************************************************************)
EXTENDS Ingest, Signals, SequenceTheorems, FiniteSetTheorems, TLAPS

USE ReportAssumption, BatchAssumption, BoundAssumption

\* A request's place lies in its batch, and the run it resolved exists.
Placed(r) ==
  /\ r.pc \in {"find", "look", "create", "seen", "append"} => r.at \in DOMAIN r.batch
  /\ r.pc \in {"seen", "append"} => r.run \in DOMAIN runs

\* The active runs are those that hold the slot, and at most one does.
OneSlot ==
  /\ \A i \in DOMAIN runs : runs[i].slot <=> runs[i].status \in ActiveStatuses
  /\ \A i, j \in DOMAIN runs : runs[i].slot /\ runs[j].slot => i = j

SlotInv == TypeOK /\ OneSlot

-----------------------------------------------------------------------------
(* How the variables change *)

\* A request that moves to a well-placed state, on a log that only grows.
LEMMA RequestMoves ==
  ASSUME TypeOK, NEW d \in Deliveries, NEW r \in Request,
         request' = [request EXCEPT ![d] = r], Placed(r)',
         runs' \in Seq(Run), DOMAIN runs \subseteq DOMAIN runs'
  PROVE  TypeOK'
  BY DEF TypeOK, Placed

\* GoTo changes where the request is, and nothing else.
LEMMA GoToMoves ==
  ASSUME TypeOK, NEW d \in Deliveries, NEW label \in RequestPc, GoTo(d, label)
  PROVE  \E r \in Request :
           /\ request' = [request EXCEPT ![d] = r]
           /\ r.pc = label /\ r.batch = request[d].batch
           /\ r.at = request[d].at /\ r.run = request[d].run
<1> DEFINE r == [request[d] EXCEPT !.pc = label]
<1>1. request[d] \in Request
  BY DEF TypeOK
<1>2. r \in Request /\ r.pc = label /\ r.batch = request[d].batch
      /\ r.at = request[d].at /\ r.run = request[d].run
  BY <1>1 DEF Request
<1>3. request' = [request EXCEPT ![d] = r]
  BY DEF GoTo
<1>4. QED BY <1>2, <1>3

\* Resolving a request to an existing run leads to "seen".
LEMMA ResolvedMoves ==
  ASSUME TypeOK, NEW d \in Deliveries, NEW i \in Nat, Resolved(d, i)
  PROVE  \E r \in Request :
           /\ request' = [request EXCEPT ![d] = r]
           /\ r.pc = "seen" /\ r.batch = request[d].batch
           /\ r.at = request[d].at /\ r.run = i
<1> DEFINE r == [[request[d] EXCEPT !.pc = "seen"] EXCEPT !.run = i]
<1>1. request[d] \in Request
  BY DEF TypeOK
<1>2. r \in Request /\ r.pc = "seen" /\ r.batch = request[d].batch
      /\ r.at = request[d].at /\ r.run = i
  BY <1>1 DEF Request, RequestPc
<1>3. request' = [request EXCEPT ![d] = r]
  BY <1>1 DEF Resolved, TypeOK, Request
<1>4. QED BY <1>2, <1>3

\* The next event of the batch, if there is one, has not been resolved.
LEMMA NextEventMoves ==
  ASSUME TypeOK, NEW d \in Deliveries, NextEvent(d), request[d].at \in DOMAIN request[d].batch
  PROVE  \E r \in Request :
           /\ request' = [request EXCEPT ![d] = r]
           /\ r.pc \in {"find", "accepted"}
           /\ r.pc = "find" => r.at \in DOMAIN r.batch
<1> DEFINE here == request[d]
           on == [pc |-> "find", batch |-> here.batch, at |-> here.at + 1, run |-> 0]
           over == [here EXCEPT !.pc = "accepted"]
<1>1. here \in Request /\ here.at \in Nat
  BY DEF TypeOK, Request
<1>2. here.batch \in Seq(Events)
  BY <1>1, EmptySeq DEF Request
<1>3. on \in Request /\ over \in Request /\ over.pc = "accepted"
  BY <1>1 DEF Request, RequestPc
<1>4. CASE here.at # Len(here.batch)
  <2>1. request' = [request EXCEPT ![d] = on]
    BY <1>4 DEF NextEvent
  <2>2. on.at \in DOMAIN on.batch
    BY <1>1, <1>2, <1>4, LenProperties
  <2>3. QED BY <1>3, <2>1, <2>2
<1>5. CASE here.at = Len(here.batch)
  <2>1. request' = [request EXCEPT ![d] = over]
    BY <1>5 DEF NextEvent, GoTo
  <2>2. QED BY <1>3, <2>1
<1>6. QED BY <1>4, <1>5

\* A new row comes last and leaves the others alone.
LEMMA RowAdded ==
  ASSUME TypeOK, NEW row \in Run, runs' = Append(runs, row)
  PROVE  /\ runs' \in Seq(Run) /\ Len(runs) \in Nat
         /\ DOMAIN runs = 1 .. Len(runs) /\ DOMAIN runs' = 1 .. Len(runs) + 1
         /\ \A i \in DOMAIN runs : runs'[i] = runs[i]
         /\ runs'[Len(runs) + 1] = row
<1>1. runs \in Seq(Run) /\ Len(runs) \in Nat /\ DOMAIN runs = 1 .. Len(runs)
  BY LenProperties DEF TypeOK
<1>2. /\ runs' \in Seq(Run) /\ Len(runs') = Len(runs) + 1
      /\ \A i \in 1 .. Len(runs) : runs'[i] = runs[i]
      /\ runs'[Len(runs) + 1] = row
  BY <1>1, AppendProperties
<1>3. QED BY <1>1, <1>2, LenProperties

\* A changed row stays where it is and leaves the others alone.
LEMMA RowChanged ==
  ASSUME TypeOK, NEW i \in DOMAIN runs, NEW row \in Run, runs' = [runs EXCEPT ![i] = row]
  PROVE  /\ runs' \in Seq(Run) /\ DOMAIN runs' = DOMAIN runs
         /\ \A j \in DOMAIN runs : runs'[j] = IF j = i THEN row ELSE runs[j]
<1>1. runs \in Seq(Run) /\ DOMAIN runs = 1 .. Len(runs)
  BY LenProperties DEF TypeOK
<1>2. QED BY <1>1, ExceptSeq

\* A new run is active and holds the slot.
LEMMA NewRunTyped ==
  ASSUME NEW session \in Sessions \cup {Member}
  PROVE  /\ NewRun(session) \in Run /\ NewRun(session).slot
         /\ NewRun(session).status \in ActiveStatuses
  BY EmptySeq DEF NewRun, Run, Statuses, ActiveStatuses

\* The event a request is at.
LEMMA EventTyped ==
  ASSUME TypeOK, NEW d \in Deliveries,
         request[d].pc \in {"find", "look", "create", "seen", "append"}
  PROVE  /\ Event(d) \in Events /\ SessionOf[Event(d)] \in Sessions
         /\ request[d].at \in DOMAIN request[d].batch
<1>1. request[d].batch \in Seq(Events) /\ request[d].at \in DOMAIN request[d].batch
  BY EmptySeq DEF TypeOK, Request
<1>2. Event(d) \in Events
  BY <1>1, ElementOfSeq, LenProperties DEF Event
<1>3. QED BY <1>1, <1>2

\* A reported row keeps its type, its outcome if it had one, and its hold on
\* the slot exactly as long as it is active.
LEMMA ReportedTyped ==
  ASSUME NEW run \in Run, NEW e \in Events, run.slot <=> run.status \in ActiveStatuses
  PROVE  LET row == [Reported(run, e) EXCEPT !.events = Append(run.events, e)]
         IN /\ row \in Run
            /\ row.slot <=> row.status \in ActiveStatuses
            /\ row.slot => run.slot
            /\ run.status \in TerminalStatuses => row.status = run.status
<1> DEFINE told == Reported(run, e)
           row == [told EXCEPT !.events = Append(run.events, e)]
           replaced == [[run EXCEPT !.status = ReportedBy[e]]
                          EXCEPT !.slot = run.slot /\ ReportedBy[e] \notin TerminalStatuses]
<1>1. Append(run.events, e) \in Seq(Events)
  BY AppendProperties DEF Run
<1>2. CASE ReportedBy[e] = NoStatus \/ run.status \in TerminalStatuses
  <2>1. told = run
    BY <1>2 DEF Reported
  <2>2. QED BY <1>1, <2>1 DEF Run
<1>3. CASE ~(ReportedBy[e] = NoStatus \/ run.status \in TerminalStatuses)
  <2>1. ReportedBy[e] \in Statuses /\ run.status \in ActiveStatuses
    BY <1>3 DEF Run, Statuses
  <2>2. replaced \in Run /\ replaced.status = ReportedBy[e]
        /\ replaced.slot = (run.slot /\ ReportedBy[e] \notin TerminalStatuses)
    BY <2>1 DEF Run
  <2>3. told = replaced
    BY <1>3 DEF Reported, Run
  <2>4. row \in Run /\ row.status = told.status /\ row.slot = told.slot
    <3> HIDE DEF told
    <3>1. told \in Run
      BY <2>2, <2>3
    <3>2. QED BY <1>1, <3>1 DEF Run
  <2>5. ReportedBy[e] \in ActiveStatuses <=> ReportedBy[e] \notin TerminalStatuses
    BY <2>1 DEF Statuses, ActiveStatuses, TerminalStatuses
  <2>6. QED BY <1>3, <2>1, <2>2, <2>3, <2>4, <2>5
<1>4. QED BY <1>2, <1>3

-----------------------------------------------------------------------------
(* The invariant *)

LEMMA SlotInit == Init => SlotInv
<1>1. Init => TypeOK
  BY EmptySeq DEF Init, TypeOK, Request, RequestPc
<1>2. Init => OneSlot
  BY EmptySeq DEF Init, OneSlot
<1>3. QED BY <1>1, <1>2 DEF SlotInv

\* A row that is added while nobody holds the slot may take it.
LEMMA SlotTaken ==
  ASSUME SlotInv, Holders = {}, NEW row \in Run, runs' = Append(runs, row),
         row.slot, row.status \in ActiveStatuses
  PROVE  OneSlot'
<1>1. /\ DOMAIN runs = 1 .. Len(runs) /\ DOMAIN runs' = 1 .. Len(runs) + 1
      /\ \A i \in DOMAIN runs : runs'[i] = runs[i]
      /\ runs'[Len(runs) + 1] = row /\ Len(runs) \in Nat
  BY RowAdded DEF SlotInv
<1>2. \A i \in DOMAIN runs : ~runs[i].slot
  BY DEF Holders
<1>3. \A i \in DOMAIN runs' : i \in DOMAIN runs \/ i = Len(runs) + 1
  BY <1>1
<1>4. QED BY <1>1, <1>2, <1>3 DEF SlotInv, OneSlot

\* A row that changes may give the slot back.
LEMMA SlotKept ==
  ASSUME SlotInv, NEW i \in DOMAIN runs, NEW row \in Run, runs' = [runs EXCEPT ![i] = row],
         row.slot => runs[i].slot, row.slot <=> row.status \in ActiveStatuses
  PROVE  OneSlot'
<1>1. /\ DOMAIN runs' = DOMAIN runs
      /\ \A j \in DOMAIN runs : runs'[j] = IF j = i THEN row ELSE runs[j]
  BY RowChanged DEF SlotInv
<1>2. QED BY <1>1 DEF SlotInv, OneSlot

\* What a step does to the rows: nothing, one more, or one changed.
LEMMA StepOnRuns ==
  ASSUME SlotInv, [Next]_vars
  PROVE  \/ UNCHANGED runs /\ TypeOK'
         \/ /\ Holders = {} /\ TypeOK'
            /\ \E row \in Run : /\ runs' = Append(runs, row)
                                /\ row.slot /\ row.status \in ActiveStatuses
         \/ /\ TypeOK'
            /\ \E i \in DOMAIN runs, row \in Run :
                 /\ runs' = [runs EXCEPT ![i] = row]
                 /\ row.slot => runs[i].slot
                 /\ row.slot <=> row.status \in ActiveStatuses
                 /\ runs[i].status \in TerminalStatuses => row.status = runs[i].status
<1> USE DEF SlotInv
<1>1. TypeOK /\ runs \in Seq(Run)
  BY DEF TypeOK
<1>2. \A d \in Deliveries : request[d] \in Request /\ Placed(request[d])
  BY DEF TypeOK, Placed
<1>3. ASSUME NEW d \in Deliveries, Deliver(d) PROVE UNCHANGED runs /\ TypeOK'
  <2>1. PICK batch \in Batches :
          request' = [request EXCEPT ![d] = [pc |-> "find", batch |-> batch, at |-> 1, run |-> 0]]
    BY <1>3 DEF Deliver
  <2>2. batch \in Seq(Events) /\ batch # <<>>
    OBVIOUS
  <2>3. 1 \in DOMAIN batch
    BY <2>2, EmptySeq, LenProperties
  <2>4. [pc |-> "find", batch |-> batch, at |-> 1, run |-> 0] \in Request
    BY DEF Request, RequestPc
  <2>5. QED BY <1>1, <1>3, <2>1, <2>3, <2>4, RequestMoves DEF Deliver, Placed
<1>4. ASSUME NEW d \in Deliveries, NEW label \in RequestPc, GoTo(d, label), UNCHANGED runs,
             request[d].pc \in {"find", "look", "create", "seen", "append"},
             label = "append" => request[d].pc = "seen", label # "seen"
      PROVE  TypeOK'
  <2>1. PICK r \in Request :
          /\ request' = [request EXCEPT ![d] = r]
          /\ r.pc = label /\ r.batch = request[d].batch
          /\ r.at = request[d].at /\ r.run = request[d].run
    BY <1>4, GoToMoves
  <2>2. Placed(r)'
    BY <1>2, <1>4, <2>1 DEF Placed
  <2>3. QED BY <1>1, <1>4, <2>1, <2>2, RequestMoves
<1>5. ASSUME NEW d \in Deliveries, FindRun(d) PROVE UNCHANGED runs /\ TypeOK'
  <2>0. request[d].pc = "find" /\ UNCHANGED runs
    BY <1>5 DEF FindRun
  <2>1. CASE GoTo(d, "look")
    BY <1>4, <2>0, <2>1 DEF RequestPc
  <2>2. CASE \E i \in DOMAIN runs : Resolved(d, i)
    <3>1. PICK i \in DOMAIN runs : Resolved(d, i)
      BY <2>2
    <3>2. i \in Nat
      BY <1>1, LenProperties
    <3>3. Resolved(d, i) /\ UNCHANGED runs
      BY <2>0, <3>1
    <3>4. PICK r \in Request :
            /\ request' = [request EXCEPT ![d] = r]
            /\ r.pc = "seen" /\ r.batch = request[d].batch
            /\ r.at = request[d].at /\ r.run = i
      BY <1>1, <3>2, <3>3, ResolvedMoves
    <3>5. Placed(r)'
      BY <1>2, <2>0, <3>3, <3>4 DEF Placed
    <3>6. QED BY <1>1, <3>3, <3>4, <3>5, RequestMoves
  <2>3. QED BY <1>5, <2>1, <2>2 DEF FindRun, RunsOf
<1>6. ASSUME NEW d \in Deliveries, LookForActive(d) PROVE UNCHANGED runs /\ TypeOK'
  BY <1>4, <1>6 DEF LookForActive, RequestPc
<1>7. ASSUME NEW d \in Deliveries, CreateRun(d)
      PROVE  \/ UNCHANGED runs /\ TypeOK'
             \/ /\ Holders = {} /\ TypeOK'
                /\ \E row \in Run : /\ runs' = Append(runs, row)
                                    /\ row.slot /\ row.status \in ActiveStatuses
  <2>1. CASE Holders # {}
    BY <1>4, <1>7, <2>1 DEF CreateRun, RequestPc
  <2>2. CASE Holders = {}
    <3> DEFINE row == NewRun(SessionOf[Event(d)])
    <3>1. /\ runs' = Append(runs, row) /\ Resolved(d, Len(runs) + 1)
      BY <1>7, <2>2 DEF CreateRun
    <3>2. row \in Run /\ row.slot /\ row.status \in ActiveStatuses
      BY <1>1, <1>7, EventTyped, NewRunTyped DEF CreateRun
    <3> HIDE DEF row
    <3>3. /\ runs' \in Seq(Run) /\ Len(runs) \in Nat
          /\ DOMAIN runs = 1 .. Len(runs) /\ DOMAIN runs' = 1 .. Len(runs) + 1
      BY <1>1, <3>1, <3>2, RowAdded
    <3>4. PICK r \in Request :
            /\ request' = [request EXCEPT ![d] = r]
            /\ r.pc = "seen" /\ r.batch = request[d].batch
            /\ r.at = request[d].at /\ r.run = Len(runs) + 1
      BY <1>1, <3>1, <3>3, ResolvedMoves
    <3>5. Placed(r)' /\ DOMAIN runs \subseteq DOMAIN runs'
      BY <1>2, <1>7, <3>3, <3>4 DEF Placed, CreateRun
    <3>6. TypeOK'
      BY <1>1, <3>3, <3>4, <3>5, RequestMoves
    <3>7. QED BY <2>2, <3>1, <3>2, <3>6
  <2>3. QED BY <2>1, <2>2
<1>8. ASSUME NEW d \in Deliveries, NextEvent(d), request[d].pc \in {"seen", "append"},
             runs' \in Seq(Run), DOMAIN runs' = DOMAIN runs
      PROVE  TypeOK'
  <2>1. PICK r \in Request :
          /\ request' = [request EXCEPT ![d] = r]
          /\ r.pc \in {"find", "accepted"}
          /\ r.pc = "find" => r.at \in DOMAIN r.batch
    BY <1>1, <1>2, <1>8, NextEventMoves DEF Placed
  <2>2. Placed(r)'
    BY <2>1 DEF Placed
  <2>3. QED BY <1>1, <1>8, <2>1, <2>2, RequestMoves
<1>9. ASSUME NEW d \in Deliveries, LookForEvent(d) PROVE UNCHANGED runs /\ TypeOK'
  <2>1. UNCHANGED runs /\ request[d].pc = "seen"
    BY <1>9 DEF LookForEvent
  <2>2. CASE NextEvent(d)
    BY <1>1, <1>8, <2>1, <2>2
  <2>3. CASE GoTo(d, "append")
    BY <1>4, <2>1, <2>3 DEF RequestPc
  <2>4. QED BY <1>9, <2>2, <2>3, <2>1 DEF LookForEvent
<1>10. ASSUME NEW d \in Deliveries, AppendEvent(d)
       PROVE  \/ UNCHANGED runs /\ TypeOK'
              \/ /\ TypeOK'
                 /\ \E i \in DOMAIN runs, row \in Run :
                      /\ runs' = [runs EXCEPT ![i] = row]
                      /\ row.slot => runs[i].slot
                      /\ row.slot <=> row.status \in ActiveStatuses
                      /\ runs[i].status \in TerminalStatuses => row.status = runs[i].status
  <2> DEFINE i == request[d].run
             row == [Reported(runs[i], Event(d)) EXCEPT !.events = Append(runs[i].events, Event(d))]
  <2>1. request[d].pc = "append" /\ NextEvent(d) /\ i \in DOMAIN runs
    BY <1>2, <1>10 DEF AppendEvent, Placed
  <2>2. CASE UNCHANGED runs
    BY <1>1, <1>8, <2>1, <2>2
  <2>3. CASE runs' = [runs EXCEPT ![i] = row]
    <3>1. Event(d) \in Events /\ runs[i] \in Run
          /\ (runs[i].slot <=> runs[i].status \in ActiveStatuses)
      BY <1>1, <2>1, EventTyped, ElementOfSeq, LenProperties DEF OneSlot
    <3>3. /\ row \in Run
          /\ row.slot <=> row.status \in ActiveStatuses
          /\ row.slot => runs[i].slot
          /\ runs[i].status \in TerminalStatuses => row.status = runs[i].status
      BY <3>1, ReportedTyped
    <3> HIDE DEF row
    <3>5. runs' \in Seq(Run) /\ DOMAIN runs' = DOMAIN runs
      BY <1>1, <2>1, <2>3, <3>3, RowChanged
    <3>6. TypeOK'
      BY <1>8, <2>1, <3>5
    <3>7. QED BY <2>1, <2>3, <3>3, <3>6
  <2>4. QED BY <1>10, <2>2, <2>3 DEF AppendEvent
<1>11. ASSUME NEW d \in Deliveries, Fail(d) PROVE UNCHANGED runs /\ TypeOK'
  BY <1>4, <1>11 DEF Fail, RequestPc
<1>12. ASSUME StartMemberRun
       PROVE  /\ Holders = {} /\ TypeOK'
              /\ \E row \in Run : /\ runs' = Append(runs, row)
                                  /\ row.slot /\ row.status \in ActiveStatuses
  <2>1. NewRun(Member) \in Run /\ NewRun(Member).slot
        /\ NewRun(Member).status \in ActiveStatuses
    BY NewRunTyped
  <2>2. Holders = {} /\ runs' = Append(runs, NewRun(Member)) /\ UNCHANGED request
    BY <1>12 DEF StartMemberRun
  <2>3. runs' \in Seq(Run) /\ DOMAIN runs \subseteq DOMAIN runs'
    BY <1>1, <2>1, <2>2, RowAdded
  <2>4. TypeOK'
    BY <1>1, <2>2, <2>3 DEF TypeOK
  <2>5. QED BY <2>1, <2>2, <2>4
<1>13. ASSUME NEW i \in DOMAIN runs, FinishMemberRun(i)
       PROVE  /\ TypeOK'
              /\ \E row \in Run :
                   /\ runs' = [runs EXCEPT ![i] = row]
                   /\ row.slot => runs[i].slot
                   /\ row.slot <=> row.status \in ActiveStatuses
                   /\ runs[i].status \in TerminalStatuses => row.status = runs[i].status
  <2>1. PICK status \in {"SUCCEEDED", "FAILED", "CANCELLED"} :
          runs' = [runs EXCEPT ![i] = [runs[i] EXCEPT !.status = status, !.slot = FALSE]]
    BY <1>13 DEF FinishMemberRun
  <2> DEFINE row == [runs[i] EXCEPT !.status = status, !.slot = FALSE]
  <2>2. runs[i] \in Run /\ runs[i].status \in ActiveStatuses /\ UNCHANGED request
    BY <1>1, <1>13, ElementOfSeq, LenProperties DEF FinishMemberRun, Active
  <2>3. row \in Run /\ row.status = status /\ ~row.slot
    BY <2>2 DEF Run, Statuses, TerminalStatuses
  <2>4. status \notin ActiveStatuses /\ runs[i].status \notin TerminalStatuses
    BY <2>2 DEF ActiveStatuses, TerminalStatuses
  <2> HIDE DEF row
  <2>5. runs' \in Seq(Run) /\ DOMAIN runs' = DOMAIN runs
    BY <1>1, <2>1, <2>3, RowChanged DEF row
  <2>6. TypeOK'
    BY <1>1, <2>2, <2>5 DEF TypeOK
  <2>7. QED BY <2>1, <2>3, <2>4, <2>6 DEF row
<1>14. CASE UNCHANGED vars
  BY <1>1, <1>14 DEF vars, TypeOK
<1>15. QED
  BY <1>3, <1>5, <1>6, <1>7, <1>9, <1>10, <1>11, <1>12, <1>13, <1>14 DEF Next, RequestStep

LEMMA SlotStep == SlotInv /\ [Next]_vars => SlotInv'
<1> SUFFICES ASSUME SlotInv, [Next]_vars PROVE SlotInv'
  OBVIOUS
<1>1. CASE UNCHANGED runs /\ TypeOK'
  BY <1>1 DEF SlotInv, OneSlot
<1>2. ASSUME TypeOK', Holders = {}, NEW row \in Run, runs' = Append(runs, row),
             row.slot, row.status \in ActiveStatuses
      PROVE  SlotInv'
  BY <1>2, SlotTaken DEF SlotInv
<1>3. ASSUME TypeOK', NEW i \in DOMAIN runs, NEW row \in Run, runs' = [runs EXCEPT ![i] = row],
             row.slot => runs[i].slot, row.slot <=> row.status \in ActiveStatuses
      PROVE  SlotInv'
  BY <1>3, SlotKept DEF SlotInv
<1>4. QED BY <1>1, <1>2, <1>3, StepOnRuns

LEMMA AlwaysOneSlot == Spec => []SlotInv
<1>1. QED BY SlotInit, SlotStep, PTL DEF Spec

-----------------------------------------------------------------------------
(* The theorems *)

\* The runs and the requests keep their types, and a request only ever works
\* on an event of its batch and on a run that exists.
THEOREM TypeCorrect == Spec => []TypeOK
<1>1. SlotInv => TypeOK
  BY DEF SlotInv
<1>2. QED BY <1>1, AlwaysOneSlot, PTL

\* Two adapters, or an adapter and a member, never both have an active run on
\* the task: whoever is active holds the slot, and one row can.
THEOREM TaskHasOneActiveRun == Spec => []OneActiveRun
<1>1. ASSUME SlotInv PROVE OneActiveRun
  <2>1. \A i, j \in Active : i = j
    BY <1>1 DEF SlotInv, OneSlot, Active
  <2>2. CASE Active = {}
    BY <2>2, FS_EmptySet DEF OneActiveRun
  <2>3. CASE Active # {}
    <3>1. PICK i : i \in Active
      BY <2>3
    <3>2. Active = {i}
      BY <2>1, <3>1
    <3>3. Cardinality({i}) = 1
      BY FS_Singleton
    <3>4. QED BY <3>2, <3>3 DEF OneActiveRun
  <2>4. QED BY <2>2, <2>3
<1>2. QED BY <1>1, AlwaysOneSlot, PTL

\* No report and no retry changes the outcome of a closed run.
THEOREM ClosedRunsStayClosed == Spec => ClosedStaysClosed
<1>1. ASSUME SlotInv, [Next]_vars, NEW i \in DOMAIN runs, runs[i].status \in TerminalStatuses
      PROVE  runs'[i].status = runs[i].status
  <2>1. TypeOK
    BY <1>1 DEF SlotInv
  <2>2. ASSUME NEW row \in Run, runs' = Append(runs, row) PROVE runs'[i].status = runs[i].status
    BY <2>1, <2>2, RowAdded
  <2>3. ASSUME NEW j \in DOMAIN runs, NEW row \in Run, runs' = [runs EXCEPT ![j] = row],
               runs[j].status \in TerminalStatuses => row.status = runs[j].status
        PROVE  runs'[i].status = runs[i].status
    BY <1>1, <2>1, <2>3, RowChanged
  <2>4. QED BY <1>1, <2>2, <2>3, StepOnRuns
<1>2. SlotInv /\ [Next]_vars =>
        [\A i \in DOMAIN runs :
           runs[i].status \in TerminalStatuses => runs'[i].status = runs[i].status]_vars
  BY <1>1
<1>3. QED BY <1>2, AlwaysOneSlot, PTL DEF Spec, ClosedStaysClosed
-----------------------------------------------------------------------------
(* What is on record *)

InRecord(e) == \E i \in RunsOf(SessionOf[e]) : Recorded(i, e)

\* What a request has been through is on record, and the run it found is its session's.
Carried(r) ==
  /\ r.pc \in {"find", "look", "create", "seen", "append"} =>
       \A k \in DOMAIN r.batch : k < r.at => InRecord(r.batch[k])
  /\ r.pc \in {"seen", "append"} => runs[r.run].session = SessionOf[r.batch[r.at]]
  /\ r.pc = "accepted" => \A k \in DOMAIN r.batch : InRecord(r.batch[k])

RecordInv == SlotInv /\ \A d \in Deliveries : Carried(request[d])

\* Rows stay those of their session, and what they record stays recorded.
Grown ==
  /\ DOMAIN runs \subseteq DOMAIN runs'
  /\ \A i \in DOMAIN runs : /\ runs'[i].session = runs[i].session
                            /\ \A e \in Events : Recorded(i, e) => Recorded(i, e)'

LEMMA RecordStays == ASSUME Grown, NEW e \in Events, InRecord(e) PROVE InRecord(e)'
  BY DEF Grown, InRecord, RunsOf

LEMMA CarriedStays ==
  ASSUME Grown, NEW r \in Request, Placed(r), Carried(r)
  PROVE  Carried(r)'
<1>1. r.batch \in Seq(Events)
  BY EmptySeq DEF Request
<1>2. \A k \in DOMAIN r.batch : r.batch[k] \in Events
  BY <1>1, ElementOfSeq, LenProperties
<1>3. \A k \in DOMAIN r.batch : InRecord(r.batch[k]) => InRecord(r.batch[k])'
  BY <1>2, RecordStays
<1>4. r.pc \in {"seen", "append"} => runs'[r.run].session = runs[r.run].session
  BY DEF Placed, Grown
<1>5. QED BY <1>3, <1>4 DEF Carried

LEMMA UnchangedGrows == ASSUME UNCHANGED runs PROVE Grown
  BY DEF Grown, Recorded

LEMMA AddedGrows ==
  ASSUME TypeOK, NEW row \in Run, runs' = Append(runs, row)
  PROVE  Grown
  BY RowAdded DEF Grown, Recorded

\* A row keeps its session and its events, and may get one more.
LEMMA ChangedGrows ==
  ASSUME TypeOK, NEW i \in DOMAIN runs, NEW row \in Run, runs' = [runs EXCEPT ![i] = row],
         row.session = runs[i].session,
         \/ row.events = runs[i].events
         \/ \E e \in Events : row.events = Append(runs[i].events, e)
  PROVE  Grown
<1>1. /\ DOMAIN runs' = DOMAIN runs
      /\ \A j \in DOMAIN runs : runs'[j] = IF j = i THEN row ELSE runs[j]
  BY RowChanged
<1>2. runs[i].events \in Seq(Events)
  <2>1. runs[i] \in Run
    BY ElementOfSeq, LenProperties DEF TypeOK
  <2>2. QED BY <2>1 DEF Run
<1>3. \A k \in DOMAIN runs[i].events :
        k \in DOMAIN row.events /\ row.events[k] = runs[i].events[k]
  BY <1>2, AppendProperties, LenProperties
<1>4. QED BY <1>1, <1>3 DEF Grown, Recorded

\* The row an event is written to has it, and what it had.
LEMMA AppendRecords ==
  ASSUME SlotInv, NEW d \in Deliveries, AppendEvent(d),
         NEW i \in DOMAIN runs, i = request[d].run, NEW e \in Events, e = Event(d)
  PROVE  Grown /\ Recorded(i, e)'
<1> DEFINE row == [Reported(runs[i], e) EXCEPT !.events = Append(runs[i].events, e)]
<1>1. runs \in Seq(Run) /\ runs[i] \in Run
  BY ElementOfSeq, LenProperties DEF SlotInv, TypeOK
<1>2. CASE Recorded(i, e)
  <2>1. UNCHANGED runs
    BY <1>2 DEF AppendEvent
  <2>2. Recorded(i, e)'
    BY <1>2, <2>1 DEF Recorded
  <2>3. QED BY <2>1, <2>2, UnchangedGrows
<1>3. CASE ~Recorded(i, e)
  <2>1. runs' = [runs EXCEPT ![i] = row]
    BY <1>3 DEF AppendEvent
  <2>2. row \in Run
    BY <1>1, ReportedTyped DEF SlotInv, OneSlot
  <2>3. row.session = runs[i].session /\ row.events = Append(runs[i].events, e)
    BY <1>1 DEF Reported, Run
  <2>4. runs'[i] = row
    BY <1>1, <2>1, <2>2, RowChanged DEF SlotInv
  <2> HIDE DEF row
  <2>5. Grown
    BY <1>1, <2>1, <2>2, <2>3, ChangedGrows DEF SlotInv
  <2>6. \E k \in DOMAIN row.events : row.events[k] = e
    <3>1. runs[i].events \in Seq(Events)
      BY <1>1 DEF Run
    <3>2. /\ Len(runs[i].events) \in Nat /\ row.events \in Seq(Events)
          /\ Len(row.events) = Len(runs[i].events) + 1
          /\ row.events[Len(runs[i].events) + 1] = e
      BY SMTT(30), <2>3, <3>1, AppendProperties, LenProperties
    <3>3. Len(runs[i].events) + 1 \in DOMAIN row.events
      BY <3>2, LenProperties
    <3>4. QED BY <3>2, <3>3
  <2>7. Recorded(i, e)'
    BY <2>4, <2>6 DEF Recorded
  <2>8. QED BY <2>5, <2>7
<1>4. QED BY <1>2, <1>3

\* A request that goes on to its next event, once this one is on record.
LEMMA NextCarries ==
  ASSUME RecordInv, NEW d \in Deliveries, NextEvent(d), Grown,
         NEW e \in Events, e = Event(d), InRecord(e)',
         request[d].pc \in {"seen", "append"}
  PROVE  Carried(request[d])'
<1>0. PICK here \in Request : here = request[d]
  BY DEF RecordInv, SlotInv, TypeOK
<1> DEFINE on == [pc |-> "find", batch |-> here.batch, at |-> here.at + 1, run |-> 0]
<1>1. /\ here \in Request /\ here.at \in Nat /\ here.batch \in Seq(Events)
      /\ here.at \in DOMAIN here.batch /\ request \in [Deliveries -> Request]
  BY <1>0, EmptySeq DEF RecordInv, SlotInv, TypeOK, Request
<1>2. Placed(here) /\ Carried(here) /\ here.pc \in {"seen", "append"}
  BY <1>0 DEF RecordInv, SlotInv, TypeOK, Placed
<1>3. \A k \in DOMAIN here.batch : k < here.at => InRecord(here.batch[k])'
  <2>1. \A k \in DOMAIN here.batch : here.batch[k] \in Events
    BY <1>1, ElementOfSeq, LenProperties
  <2>2. QED BY <1>2, <2>1, RecordStays DEF Carried
<1>4. here.batch[here.at] = e
  BY <1>0 DEF Event
<1>5. CASE here.at = Len(here.batch)
  <2>1. request' = [request EXCEPT ![d].pc = "accepted"]
    BY <1>0, <1>5 DEF NextEvent, GoTo
  <2>2. request'[d].pc = "accepted" /\ request'[d].batch = here.batch
    BY <1>0, <1>1, <2>1 DEF Request
  <2>3. \A k \in DOMAIN here.batch : k < here.at \/ k = here.at
    BY <1>1, <1>5, LenProperties
  <2>4. QED BY <1>3, <1>4, <2>2, <2>3 DEF Carried
<1>6. CASE here.at # Len(here.batch)
  <2>1. request' = [request EXCEPT ![d] = on]
    BY <1>0, <1>6 DEF NextEvent
  <2>2. request'[d].pc = "find" /\ request'[d].batch = here.batch /\ request'[d].at = here.at + 1
    BY <1>1, <2>1
  <2>3. \A k \in DOMAIN here.batch : k < here.at + 1 => k < here.at \/ k = here.at
    BY <1>1, LenProperties
  <2>4. QED BY <1>3, <1>4, <2>2, <2>3 DEF Carried
<1>7. QED BY <1>5, <1>6

\* A request that only changes its place in the program.
LEMMA GoToCarries ==
  ASSUME RecordInv, NEW d \in Deliveries, NEW label \in RequestPc, GoTo(d, label), Grown,
         request[d].pc \in {"find", "look", "create", "seen", "append"},
         label \in {"look", "create", "failed"} \/ (label = "append" /\ request[d].pc = "seen")
  PROVE  Carried(request[d])'
<1>1. PICK r \in Request :
        /\ request' = [request EXCEPT ![d] = r]
        /\ r.pc = label /\ r.batch = request[d].batch
        /\ r.at = request[d].at /\ r.run = request[d].run
  BY GoToMoves DEF RecordInv, SlotInv
<1>2. Placed(r) /\ Carried(r)
  BY <1>1 DEF RecordInv, SlotInv, TypeOK, Placed, Carried
<1>3. Carried(r)'
  BY <1>2, CarriedStays
<1>4. request'[d] = r
  BY <1>1 DEF RecordInv, SlotInv, TypeOK
<1>5. QED BY <1>3, <1>4 DEF Carried

\* A request that has found or created its session's run.
LEMMA ResolvedCarries ==
  ASSUME RecordInv, NEW d \in Deliveries, NEW i \in Nat, Resolved(d, i), Grown,
         request[d].pc \in {"find", "look", "create"}, i \in DOMAIN runs',
         runs'[i].session = SessionOf[Event(d)]
  PROVE  Carried(request[d])'
<1>1. PICK r \in Request :
        /\ request' = [request EXCEPT ![d] = r]
        /\ r.pc = "seen" /\ r.batch = request[d].batch
        /\ r.at = request[d].at /\ r.run = i
  BY ResolvedMoves DEF RecordInv, SlotInv
<1>2. request[d] \in Request /\ Placed(request[d]) /\ Carried(request[d])
  BY DEF RecordInv, SlotInv, TypeOK, Placed
<1>3. request'[d] = r
  BY <1>1 DEF RecordInv, SlotInv, TypeOK
<1>4. \A k \in DOMAIN r.batch : r.batch[k] \in Events
  <2>1. r.batch \in Seq(Events)
    BY EmptySeq DEF Request
  <2>2. QED BY <2>1, ElementOfSeq, LenProperties
<1>5. \A k \in DOMAIN r.batch : k < r.at => InRecord(r.batch[k])'
  BY <1>1, <1>2, <1>4, RecordStays DEF Carried
<1>6. runs'[r.run].session = SessionOf[r.batch[r.at]]
  BY <1>1 DEF Event
<1>7. QED BY <1>1, <1>3, <1>5, <1>6 DEF Carried

\* A step of one request on its own locals, while the rows grow.
LEMMA OthersCarried ==
  ASSUME RecordInv, NEW d \in Deliveries, Grown, NEW r, request' = [request EXCEPT ![d] = r],
         Carried(request[d])'
  PROVE  \A f \in Deliveries : Carried(request[f])'
<1> SUFFICES ASSUME NEW f \in Deliveries, f # d PROVE Carried(request[f])'
  OBVIOUS
<1>1. request'[f] = request[f]
  BY DEF RecordInv, SlotInv, TypeOK
<1>2. request[f] \in Request /\ Placed(request[f]) /\ Carried(request[f])
  BY DEF RecordInv, SlotInv, TypeOK, Placed
<1>3. PICK q \in Request : q = request[f]
  BY <1>2
<1>4. Carried(q)'
  BY <1>2, <1>3, CarriedStays
<1>5. QED BY <1>1, <1>3, <1>4 DEF Carried

LEMMA RequestCarries ==
  ASSUME RecordInv, NEW d \in Deliveries, Deliver(d) \/ RequestStep(d) \/ Fail(d)
  PROVE  \A f \in Deliveries : Carried(request[f])'
<1> USE DEF RecordInv, SlotInv
<1>1. CASE Deliver(d)
  <2>1. PICK batch \in Batches :
          request' = [request EXCEPT ![d] = [pc |-> "find", batch |-> batch, at |-> 1, run |-> 0]]
    BY <1>1 DEF Deliver
  <2>2. request'[d].pc = "find" /\ request'[d].at = 1 /\ request'[d].batch = batch
    BY <2>1 DEF TypeOK
  <2>3. \A k \in DOMAIN batch : ~(k < 1)
    <3>1. batch \in Seq(Events)
      OBVIOUS
    <3>2. QED BY <3>1, LenProperties
  <2>4. Carried(request[d])'
    BY <2>2, <2>3 DEF Carried
  <2>5. Grown
    BY <1>1, UnchangedGrows DEF Deliver
  <2>6. QED BY <2>1, <2>4, <2>5, OthersCarried
<1>2. ASSUME NEW label \in RequestPc, GoTo(d, label), UNCHANGED runs,
             request[d].pc \in {"find", "look", "create", "seen", "append"},
             label \in {"look", "create", "failed"} \/ (label = "append" /\ request[d].pc = "seen")
      PROVE  \A f \in Deliveries : Carried(request[f])'
  <2>1. Grown
    BY <1>2, UnchangedGrows
  <2>2. Carried(request[d])'
    BY <1>2, <2>1, GoToCarries
  <2>3. PICK r \in Request : request' = [request EXCEPT ![d] = r]
    BY <1>2, GoToMoves
  <2>4. QED BY <2>1, <2>2, <2>3, OthersCarried
<1>3. CASE FindRun(d)
  <2>1. CASE GoTo(d, "look")
    BY <1>2, <1>3, <2>1 DEF FindRun, RequestPc
  <2>2. CASE \E i \in RunsOf(SessionOf[Event(d)]) : Resolved(d, i)
    <3>1. PICK i \in RunsOf(SessionOf[Event(d)]) : Resolved(d, i)
      BY <2>2
    <3>2. i \in Nat /\ i \in DOMAIN runs /\ runs[i].session = SessionOf[Event(d)]
      BY LenProperties DEF RunsOf, TypeOK
    <3>3. UNCHANGED runs /\ request[d].pc = "find" /\ Grown
      BY <1>3, UnchangedGrows DEF FindRun
    <3>4. Carried(request[d])'
      BY <3>1, <3>2, <3>3, ResolvedCarries
    <3>5. PICK r \in Request : request' = [request EXCEPT ![d] = r]
      BY <3>1, <3>2, ResolvedMoves
    <3>6. QED BY <3>3, <3>4, <3>5, OthersCarried
  <2>3. QED BY <1>3, <2>1, <2>2 DEF FindRun
<1>4. CASE LookForActive(d)
  BY <1>2, <1>4 DEF LookForActive, RequestPc
<1>5. CASE CreateRun(d)
  <2>1. CASE Holders # {}
    BY <1>2, <1>5, <2>1 DEF CreateRun, RequestPc
  <2>2. CASE Holders = {}
    <3> DEFINE row == NewRun(SessionOf[Event(d)])
    <3>1. runs' = Append(runs, row) /\ Resolved(d, Len(runs) + 1) /\ request[d].pc = "create"
      BY <1>5, <2>2 DEF CreateRun
    <3>2. row \in Run /\ row.session = SessionOf[Event(d)]
      BY <3>1, EventTyped, NewRunTyped DEF NewRun
    <3> HIDE DEF row
    <3>3. /\ Grown /\ Len(runs) + 1 \in Nat /\ Len(runs) + 1 \in DOMAIN runs'
          /\ runs'[Len(runs) + 1] = row
      BY <3>1, <3>2, RowAdded, AddedGrows
    <3>4. Carried(request[d])'
      BY <3>1, <3>2, <3>3, ResolvedCarries
    <3>5. PICK r \in Request : request' = [request EXCEPT ![d] = r]
      BY <3>1, <3>3, ResolvedMoves
    <3>6. QED BY <3>3, <3>4, <3>5, OthersCarried
  <2>3. QED BY <2>1, <2>2
<1>6. ASSUME NEW i \in DOMAIN runs, i = request[d].run, NEW e \in Events, e = Event(d),
             NextEvent(d), Grown, Recorded(i, e)', request[d].pc \in {"seen", "append"}
      PROVE  \A f \in Deliveries : Carried(request[f])'
  <2>1. request[d].at \in DOMAIN request[d].batch /\ runs[i].session = SessionOf[e]
    BY <1>6 DEF TypeOK, Carried, Event
  <2>2. InRecord(e)'
    <3>1. i \in DOMAIN runs' /\ runs'[i].session = SessionOf[e]
      BY <1>6, <2>1 DEF Grown
    <3>2. QED BY <1>6, <3>1 DEF InRecord, RunsOf
  <2>3. Carried(request[d])'
    BY <1>6, <2>2, NextCarries
  <2>4. PICK r \in Request : request' = [request EXCEPT ![d] = r]
    BY <1>6, <2>1, NextEventMoves
  <2>5. QED BY <1>6, <2>3, <2>4, OthersCarried
<1>7. CASE LookForEvent(d)
  <2>1. UNCHANGED runs /\ request[d].pc = "seen" /\ Grown
    BY <1>7, UnchangedGrows DEF LookForEvent
  <2>2. CASE Recorded(request[d].run, Event(d))
    <3>1. PICK i \in DOMAIN runs : i = request[d].run
      BY <2>1 DEF TypeOK
    <3>2. PICK e \in Events : e = Event(d)
      BY <2>1, EventTyped
    <3>3. Recorded(i, e)'
      BY <2>1, <2>2, <3>1, <3>2 DEF Recorded
    <3>4. NextEvent(d)
      BY <1>7, <2>2 DEF LookForEvent
    <3>5. QED BY <1>6, <2>1, <3>1, <3>2, <3>3, <3>4
  <2>3. CASE ~Recorded(request[d].run, Event(d))
    BY <1>2, <1>7, <2>1, <2>3 DEF LookForEvent, RequestPc
  <2>4. QED BY <2>2, <2>3
<1>8. CASE AppendEvent(d)
  <2>1. NextEvent(d) /\ request[d].pc = "append"
    BY <1>8 DEF AppendEvent
  <2>2. PICK i \in DOMAIN runs : i = request[d].run
    BY <2>1 DEF TypeOK
  <2>3. PICK e \in Events : e = Event(d)
    BY <2>1, EventTyped
  <2>4. Grown /\ Recorded(i, e)'
    BY <1>8, <2>2, <2>3, AppendRecords
  <2>5. QED BY <1>6, <2>1, <2>2, <2>3, <2>4
<1>9. CASE Fail(d)
  BY <1>2, <1>9 DEF Fail, RequestPc
<1>10. QED BY <1>1, <1>3, <1>4, <1>5, <1>7, <1>8, <1>9 DEF RequestStep

LEMMA RecordStep == RecordInv /\ [Next]_vars => RecordInv'
<1> SUFFICES ASSUME RecordInv, [Next]_vars PROVE RecordInv'
  OBVIOUS
<1>1. SlotInv'
  BY SlotStep DEF RecordInv
<1>2. CASE \E d \in Deliveries : Deliver(d) \/ RequestStep(d) \/ Fail(d)
  BY <1>1, <1>2, RequestCarries DEF RecordInv
<1>3. CASE Grown /\ UNCHANGED request
  <2>1. ASSUME NEW d \in Deliveries PROVE Carried(request[d])'
    <3>1. PICK q \in Request : q = request[d]
      BY DEF RecordInv, SlotInv, TypeOK
    <3>2. Placed(q) /\ Carried(q)
      BY <3>1 DEF RecordInv, SlotInv, TypeOK, Placed
    <3>3. Carried(q)'
      BY <1>3, <3>2, CarriedStays
    <3>4. QED BY <1>3, <3>1, <3>3 DEF Carried
  <2>2. QED BY <1>1, <2>1 DEF RecordInv
<1>4. CASE StartMemberRun
  <2>1. NewRun(Member) \in Run
    BY NewRunTyped
  <2>2. QED BY <1>3, <1>4, <2>1, AddedGrows DEF StartMemberRun, RecordInv, SlotInv
<1>5. CASE \E i \in DOMAIN runs : FinishMemberRun(i)
  <2>1. PICK i \in DOMAIN runs : FinishMemberRun(i)
    BY <1>5
  <2>2. PICK status \in {"SUCCEEDED", "FAILED", "CANCELLED"} :
          runs' = [runs EXCEPT ![i] = [runs[i] EXCEPT !.status = status, !.slot = FALSE]]
    BY <2>1 DEF FinishMemberRun
  <2> DEFINE row == [runs[i] EXCEPT !.status = status, !.slot = FALSE]
  <2>3. runs[i] \in Run
    BY ElementOfSeq, LenProperties DEF RecordInv, SlotInv, TypeOK
  <2>4. row \in Run /\ row.session = runs[i].session /\ row.events = runs[i].events
    BY <2>3 DEF Run, Statuses, TerminalStatuses
  <2>5. runs' = [runs EXCEPT ![i] = row] /\ UNCHANGED request
    BY <2>1, <2>2 DEF FinishMemberRun
  <2> HIDE DEF row
  <2>6. Grown
    BY <2>4, <2>5, ChangedGrows DEF RecordInv, SlotInv
  <2>7. QED BY <1>3, <2>5, <2>6
<1>6. CASE UNCHANGED vars
  BY <1>3, <1>6, UnchangedGrows DEF vars
<1>7. QED BY <1>2, <1>4, <1>5, <1>6 DEF Next

\* Whatever an adapter is told was accepted is on record, event by event and in a run
\* of the event's session, although other deliveries of the same events and other
\* runs race with it: a lost race counts as a redelivery only if the id is taken.
THEOREM AcceptedStaysRecorded == Spec => []AcceptedIsRecorded
<1>1. Init => RecordInv
  BY SlotInit DEF Init, RecordInv, Carried
<1>2. RecordInv => AcceptedIsRecorded
  BY DEF RecordInv, Carried, InRecord, AcceptedIsRecorded
<1>3. QED BY <1>1, <1>2, RecordStep, PTL DEF Spec

-----------------------------------------------------------------------------
(* The alarms *)

\* A pair of runs is named from the one with the lower id.
Named == {s \in RunIds \X Keys : s[2][1] = "overlapping_work" => s[1] < s[2][2]}

\* What a dismissal under way carries.
Askings ==
  {Spare} \cup [at : {"upsert"}, run : RunIds, key : Keys]
          \cup [at : {"event"}, run : RunIds, key : Keys, last : Nat]

AlarmsInv ==
  /\ live \subseteq RunIds
  /\ decisions \in [RunIds -> [Keys -> Nat]]
  /\ logged \in [RunIds -> Nat]
  /\ storing \in [Dismissers -> Askings]
  /\ \A d \in Dismissers :
       storing[d].at \in {"upsert", "event"} => <<storing[d].run, storing[d].key>> \in Named
  /\ dismissals \subseteq Named /\ shown \subseteq Named
  /\ \A active \in rows : active \subseteq RunIds
  /\ \A facts \in loading : facts \subseteq Named
  /\ DecisionsRecorded

LEMMA AlarmsAreNamed ==
  ASSUME NEW first, NEW active, active \subseteq RunIds
  PROVE  Alarms(active) \cup Overlaps(active, first) \subseteq Named
<1> USE BoundedSignals
<1>1. ASSUME NEW p \in Sharing(active), p[1] < p[2]
      PROVE  Overlap(p) \in Named
  <2>1. p[1] \in RunIds /\ p[2] \in RunIds
    BY <1>1 DEF Sharing
  <2>2. PICK a \in RunIds, b \in RunIds : a = p[1] /\ b = p[2] /\ a < b
    BY <1>1, <2>1
  <2>3. <<"overlapping_work", b>> \in Keys
    BY DEF Keys
  <2>4. <<a, <<"overlapping_work", b>>>> \in Named
    BY <2>2, <2>3 DEF Named
  <2>5. QED BY <2>2, <2>4 DEF Overlap
<1>2. \A kind \in {"critical_path", "scope_growth", "stalled"}, r \in RunIds :
        <<r, <<kind, 0>>>> \in Named
  BY DEF Named, Keys
<1>3. Alarms(active) \subseteq Named
  BY <1>2 DEF Alarms
<1>4. QED BY <1>1, <1>3 DEF Overlaps

LEMMA NamedOverlap ==
  ASSUME NEW r \in RunIds, NEW o \in RunIds, NEW s \in Named, About(s, r, o)
  PROVE  \E a \in RunIds, b \in RunIds :
           s = <<a, <<"overlapping_work", b>>>> /\ a < b /\ {a, b} = {r, o}
<1>1. PICK a \in RunIds, k \in Keys : s = <<a, k>>
  BY DEF Named
<1>2. k[1] = "overlapping_work" /\ {a, k[2]} = {r, o} /\ a < k[2]
  BY <1>1 DEF About, Named
<1>3. PICK b \in RunIds : k = <<"overlapping_work", b>>
  BY <1>2 DEF Keys
<1>4. QED BY <1>1, <1>2, <1>3

LEMMA AlarmsStart == SignalsInit => AlarmsInv
<1> SUFFICES ASSUME SignalsInit PROVE AlarmsInv
  OBVIOUS
<1>1. storing \in [Dismissers -> Askings] /\ \A d \in Dismissers : storing[d].at = "spare"
  BY DEF SignalsInit, Askings, Spare
<1>2. decisions \in [RunIds -> [Keys -> Nat]] /\ logged \in [RunIds -> Nat]
  BY DEF SignalsInit
<1>3. DecisionsRecorded
  BY DEF SignalsInit, DecisionsRecorded
<1>4. QED BY <1>1, <1>2, <1>3 DEF SignalsInit, AlarmsInv

\* One dismissal takes its next step; what it is about is named.
LEMMA DismissalGoesOn ==
  ASSUME AlarmsInv, NEW d \in Dismissers, NEW x \in Askings, Store(d, x),
         x.at \in {"upsert", "event"} => <<x.run, x.key>> \in Named
  PROVE  /\ storing' \in [Dismissers -> Askings]
         /\ \A e \in Dismissers :
              storing'[e].at \in {"upsert", "event"} => <<storing'[e].run, storing'[e].key>> \in Named
BY DEF AlarmsInv, Store

LEMMA AskedFor ==
  ASSUME AlarmsInv, NEW d \in Dismissers, storing[d].at \in {"upsert", "event"}
  PROVE  /\ storing[d].run \in RunIds /\ storing[d].key \in Keys
         /\ <<storing[d].run, storing[d].key>> \in Named
BY DEF AlarmsInv, Askings, Spare

LEMMA AlarmsGoOn == AlarmsInv /\ [SignalsNext]_signalVars => AlarmsInv'
<1> SUFFICES ASSUME AlarmsInv, [SignalsNext]_signalVars PROVE AlarmsInv'
  OBVIOUS
<1>1. CASE ReadRuns \/ ReadEvents
  <2>1. CASE ReadRuns
    BY <2>1 DEF ReadRuns, AlarmsInv, DecisionsRecorded
  <2>2. CASE ReadEvents
    <3>1. PICK active \in rows : \E first \in active :
            loading' = {Alarms(active) \cup Overlaps(active, first)}
      BY <2>2 DEF ReadEvents
    <3>2. active \subseteq RunIds
      BY DEF AlarmsInv
    <3>3. PICK facts : loading' = {facts} /\ facts \subseteq Named
      BY <3>1, <3>2, AlarmsAreNamed
    <3>4. QED BY <2>2, <3>3 DEF ReadEvents, AlarmsInv, DecisionsRecorded
  <2>3. QED BY <1>1, <2>1, <2>2
<1>2. CASE ReadDismissals
  BY <1>2 DEF ReadDismissals, AlarmsInv, DecisionsRecorded
<1>3. ASSUME NEW d \in Dismissers, AskDismissal(d) PROVE AlarmsInv'
  <2>1. PICK s \in shown : Store(d, [at |-> "upsert", run |-> s[1], key |-> s[2]])
    BY <1>3 DEF AskDismissal
  <2>2. s \in Named /\ s[1] \in RunIds /\ s[2] \in Keys /\ <<s[1], s[2]>> = s
    BY DEF AlarmsInv, Named
  <2>3. [at |-> "upsert", run |-> s[1], key |-> s[2]] \in Askings
    BY <2>2 DEF Askings
  <2>4. QED BY <1>3, <2>1, <2>2, <2>3, DismissalGoesOn DEF AskDismissal, AlarmsInv, DecisionsRecorded
<1>4. ASSUME NEW d \in Dismissers, ReadLogEnd(d) PROVE AlarmsInv'
  <2> DEFINE x == [at |-> "event", run |-> storing[d].run, key |-> storing[d].key,
                   last |-> logged[storing[d].run]]
  <2>1. storing[d].run \in RunIds /\ storing[d].key \in Keys /\ <<storing[d].run, storing[d].key>> \in Named
    BY <1>4, AskedFor DEF ReadLogEnd
  <2>2. x \in Askings /\ <<x.run, x.key>> \in Named
    BY <2>1 DEF Askings, AlarmsInv
  <2>3. Store(d, x)
    BY <1>4 DEF ReadLogEnd
  <2> HIDE DEF x
  <2>4. QED BY <1>4, <2>2, <2>3, DismissalGoesOn DEF ReadLogEnd, AlarmsInv, DecisionsRecorded
<1>5. ASSUME NEW d \in Dismissers, Dismiss(d) PROVE AlarmsInv'
  <2>1. /\ Spare \in Askings /\ Spare.at = "spare" /\ Store(d, Spare)
        /\ UNCHANGED <<live, touched, attempts, rows, loading, shown>>
    BY <1>5 DEF Dismiss, Askings, Spare
  <2>2. /\ storing' \in [Dismissers -> Askings]
        /\ \A e \in Dismissers :
             storing'[e].at \in {"upsert", "event"} => <<storing'[e].run, storing'[e].key>> \in Named
    BY <2>1, DismissalGoesOn
  <2>3. CASE UNCHANGED <<dismissals, decisions, logged, quiet>>
    BY <2>1, <2>2, <2>3 DEF AlarmsInv, DecisionsRecorded
  <2>4. CASE ~UNCHANGED <<dismissals, decisions, logged, quiet>>
    <3>1. PICK r \in RunIds, k \in Keys :
            r = storing[d].run /\ k = storing[d].key /\ <<r, k>> \in Named
      BY <1>5, AskedFor DEF Dismiss
    <3>2. /\ dismissals' = dismissals \cup {<<r, k>>}
          /\ decisions' = [decisions EXCEPT ![r] = [decisions[r] EXCEPT ![k] = decisions[r][k] + 1]]
          /\ logged' = [logged EXCEPT ![r] = logged[r] + 1]
      BY <1>5, <2>4, <3>1 DEF Dismiss
    <3>3. decisions \in [RunIds -> [Keys -> Nat]] /\ decisions[r][k] \in Nat
      BY DEF AlarmsInv
    <3>4. PICK n \in Nat : n = decisions[r][k] + 1 /\ n > 0
      BY <3>3
    <3>5. PICK f \in [Keys -> Nat] : f = [decisions[r] EXCEPT ![k] = n]
      BY <3>3
    <3>6. decisions' = [decisions EXCEPT ![r] = f]
      BY <3>2, <3>4, <3>5
    <3>7. /\ decisions' \in [RunIds -> [Keys -> Nat]]
          /\ \A s \in RunIds, j \in Keys :
               decisions'[s][j] = IF s = r /\ j = k THEN n ELSE decisions[s][j]
      BY <3>3, <3>5, <3>6
    <3>8. DecisionsRecorded'
      <4> SUFFICES ASSUME NEW s \in RunIds, NEW j \in Keys
                   PROVE  <<s, j>> \in dismissals' <=> decisions'[s][j] > 0
        BY DEF DecisionsRecorded
      <4>1. <<s, j>> \in dismissals' <=> <<s, j>> \in dismissals \/ (s = r /\ j = k)
        BY <3>2
      <4>2. <<s, j>> \in dismissals <=> decisions[s][j] > 0
        BY DEF AlarmsInv, DecisionsRecorded
      <4>3. QED BY <3>4, <3>7, <4>1, <4>2
    <3>9. logged' \in [RunIds -> Nat]
      BY <3>2 DEF AlarmsInv
    <3>10. QED BY <2>1, <2>2, <3>1, <3>2, <3>7, <3>8, <3>9 DEF AlarmsInv
  <2>5. QED BY <2>3, <2>4
<1>6. ASSUME NEW r \in RunIds, FallQuiet(r) \/ EndRun(r) \/ \E path \in Paths : Touch(r, path)
      PROVE  AlarmsInv'
  BY <1>6 DEF FallQuiet, EndRun, Touch, AlarmsInv, DecisionsRecorded
<1>7. CASE UNCHANGED signalVars
  BY <1>7 DEF signalVars, AlarmsInv, DecisionsRecorded
<1>8. QED BY <1>1, <1>2, <1>3, <1>4, <1>5, <1>6, <1>7 DEF SignalsNext

\* However many members decide at once: what is dismissed is on its run's timeline, and a
\* page that loads afterwards does not name it, nor the same overlap from the other run
\* (computeRoomSignals, dismissSignal).
THEOREM DismissalsAlwaysHold == SignalsSpec => DismissalsHold
<1>1. AlarmsInv /\ [SignalsNext]_signalVars =>
        [DecisionsRecorded' /\ DismissalSurvives]_signalVars
  <2> SUFFICES ASSUME AlarmsInv, SignalsNext
               PROVE  DecisionsRecorded' /\ DismissalSurvives
    OBVIOUS
  <2>1. DecisionsRecorded'
    BY AlarmsGoOn DEF AlarmsInv
  <2>2. ASSUME NEW r \in RunIds, NEW o \in RunIds, NEW d \in dismissals, About(d, r, o),
               loading # {}, loading' = {}, NEW s \in shown', About(s, r, o)
        PROVE  FALSE
    <3>1. ReadDismissals
      BY <2>2 DEF SignalsNext, ReadRuns, ReadEvents, ReadDismissals, AskDismissal, ReadLogEnd, Dismiss,
                  FallQuiet, EndRun, Touch
    <3>2. /\ s \in Named /\ s \notin dismissals /\ d \in Named
          /\ About(s, r, o) /\ About(d, r, o)
      BY <2>2, <3>1 DEF ReadDismissals, AlarmsInv
    <3>3. PICK a \in RunIds, b \in RunIds :
            s = <<a, <<"overlapping_work", b>>>> /\ a < b /\ {a, b} = {r, o}
      BY <3>2, NamedOverlap
    <3>4. PICK p \in RunIds, q \in RunIds :
            d = <<p, <<"overlapping_work", q>>>> /\ p < q /\ {p, q} = {r, o}
      BY <3>2, NamedOverlap
    <3>5. a = p /\ b = q
      <4>1. \A x \in RunIds : x \in Nat
        BY BoundedSignals DEF RunIds
      <4>2. {a, b} = {p, q} /\ a < b /\ p < q
        BY <3>3, <3>4
      <4>3. (a = p /\ b = q) \/ (a = q /\ b = p)
        BY <4>2
      <4>4. QED BY <4>1, <4>2, <4>3
    <3>6. QED BY <2>2, <3>2, <3>3, <3>4, <3>5
  <2>3. QED BY <2>1, <2>2 DEF DismissalSurvives
<1>2. QED BY <1>1, AlarmsStart, AlarmsGoOn, PTL DEF SignalsSpec, DismissalsHold
=============================================================================
