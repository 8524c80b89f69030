--------------------------- MODULE EvidenceProofs ---------------------------
(***************************************************************************)
(* Theorems about what is told of a run from the side: about Evidence, for *)
(* every number of drives that finish a run, of requests for its evidence  *)
(* and of events, that the report is sealed once, captures the end of the  *)
(* run, and is in every answer that shows a seal; and about Impact, for    *)
(* every repository, seeds and limits, that its answer says what is        *)
(* affected, how far off, and whether that is all.                         *)
(***************************************************************************)
EXTENDS Evidence, Impact, FunctionTheorems, FiniteSetTheorems, WellFoundedInduction,
        SequenceTheorems, TLAPS

USE EvidenceAssumption

Stages == {"drive", "settle", "find", "row", "read", "seal", "done"}
FinisherRow ==
    [stage : Stages, ended : BOOLEAN, pending : BOOLEAN, count : Nat, read : SUBSET Tables]
ReaderRow ==
    [stage : {"ask", "built", "answered"}, seal : BOOLEAN, given : SUBSET FinisherRow]

EvidenceTypeOK ==
    /\ ended \in BOOLEAN /\ pending \in BOOLEAN /\ answering \in BOOLEAN /\ revived \in BOOLEAN
    /\ trail \in Seq(Nat)
    /\ report \in SUBSET FinisherRow
    /\ sealing \in [Finishers -> FinisherRow]
    /\ reading \in [Readers -> ReaderRow]

\* One finisher at most has made the report and not yet recorded it; none when a
\* seal is on the trail.  What was counted lies behind.
SealInv ==
    /\ \A f \in Finishers : sealing[f].stage = "seal" =>
           /\ Seals = {}
           /\ report # {} /\ \A r \in report : r.count = sealing[f].count
    /\ \A f, g \in Finishers :
           sealing[f].stage = "seal" /\ sealing[g].stage = "seal" => f = g
    /\ \A f \in Finishers : sealing[f].count <= Len(trail)
    /\ SealedOnce

\* While nothing revives the run, it stays ended from its first finisher on, with no
\* gate open, and so does every bundle have it.
EndInv ==
    ~revived =>
        /\ \A f \in Finishers : sealing[f].stage \in {"find", "row", "read", "seal"} => ended
        /\ Ending => ~pending
        /\ \A f \in Finishers :
               sealing[f].stage = "read" => sealing[f].ended = TRUE /\ sealing[f].pending = FALSE
        /\ \A r \in report : r.ended = TRUE /\ r.pending = FALSE

\* A seal that was seen had its report, which is still the one.
ReadInv ==
    \A r \in Readers : reading[r].seal = TRUE =>
        /\ reading[r].stage # "ask" /\ report # {}
        /\ reading[r].stage = "answered" => reading[r].given = report

EvidenceInv == EvidenceTypeOK /\ SealInv /\ EndInv /\ ReadInv

-----------------------------------------------------------------------------
(* Rows and trails *)

\* A finisher's row with fields of the right type is one.
LEMMA RowType ==
    ASSUME NEW stage \in Stages, NEW over \in BOOLEAN, NEW open \in BOOLEAN, NEW count \in Nat,
           NEW read \in SUBSET Tables
    PROVE  Row(stage, over, open, count, read) \in FinisherRow
BY DEF Row, FinisherRow

\* A finisher that moves on leaves the others where they are.
LEMMA OntoOne ==
    ASSUME sealing \in [Finishers -> FinisherRow], NEW f \in Finishers, NEW row \in FinisherRow,
           Onto(f, row)
    PROVE  /\ sealing' \in [Finishers -> FinisherRow]
           /\ sealing'[f] = row
           /\ \A g \in Finishers : g # f => sealing'[g] = sealing[g]
BY DEF Onto

\* A run event that seals nothing leaves the seals as they are.
LEMMA OtherSealsNothing ==
    ASSUME trail \in Seq(Nat), trail' = Append(trail, Other)
    PROVE  /\ trail' \in Seq(Nat) /\ Len(trail') = Len(trail) + 1
           /\ Seals' = Seals
           /\ \A i \in Seals : trail'[i] = trail[i]
<1>1. /\ trail' \in Seq(Nat) /\ Len(trail') = Len(trail) + 1
      /\ DOMAIN trail = 1 .. Len(trail) /\ DOMAIN trail' = 1 .. Len(trail) + 1
      /\ \A i \in 1 .. Len(trail) : trail'[i] = trail[i]
      /\ trail'[Len(trail) + 1] = Other
    BY DEF Other
<1>2. Len(trail) \in Nat
    OBVIOUS
<1>3. Seals' = Seals
    BY <1>1, <1>2 DEF Seals
<1> QED
    BY <1>1, <1>2, <1>3 DEF Seals

\* The first seal is the last event, and names what was counted.
LEMMA OneSeal ==
    ASSUME trail \in Seq(Nat), Seals = {}, NEW count \in Nat, trail' = Append(trail, count)
    PROVE  /\ trail' \in Seq(Nat) /\ Len(trail') = Len(trail) + 1
           /\ \A i \in Seals' : i = Len(trail) + 1 /\ trail'[i] = count
<1>1. /\ trail' \in Seq(Nat) /\ Len(trail') = Len(trail) + 1
      /\ DOMAIN trail = 1 .. Len(trail) /\ DOMAIN trail' = 1 .. Len(trail) + 1
      /\ \A i \in 1 .. Len(trail) : trail'[i] = trail[i]
      /\ trail'[Len(trail) + 1] = count
    OBVIOUS
<1>2. Len(trail) \in Nat
    OBVIOUS
<1> QED
    BY <1>1, <1>2 DEF Seals

-----------------------------------------------------------------------------
(* The types *)

\* Every step keeps the types.
LEMMA TypeStep ==
    ASSUME EvidenceTypeOK, [EvidenceNext]_evidenceVars
    PROVE  EvidenceTypeOK'
<1> USE DEF EvidenceTypeOK
<1> Other \in Nat /\ "gates" \in Tables /\ "integrity" \in Tables
    BY DEF Other, Tables
<1>1. CASE OtherTrailEvent
    BY <1>1 DEF OtherTrailEvent
<1>2. CASE AskApproval \/ ReadGate \/ AnswerApproval \/ OverwriteStatus
    BY <1>2 DEF AskApproval, ReadGate, AnswerApproval, OverwriteStatus
<1>3. ASSUME NEW f \in Finishers, EndGates(f) \/ Settle(f) PROVE EvidenceTypeOK'
    <2>1. Sealing("settle") \in FinisherRow /\ Sealing("find") \in FinisherRow
        BY RowType DEF Sealing, Stages
    <2>2. sealing' \in [Finishers -> FinisherRow]
        BY <1>3, <2>1, OntoOne DEF EndGates, Settle
    <2>3. trail' \in Seq(Nat)
        BY <1>3, OtherSealsNothing DEF EndGates, Settle
    <2> QED
        BY <1>3, <2>2, <2>3 DEF EndGates, Settle
<1>4. ASSUME NEW f \in Finishers, FindReport(f) PROVE EvidenceTypeOK'
    <2>1. Sealing(IF report = {} THEN "row" ELSE "done") \in FinisherRow
        BY RowType DEF Sealing, Stages
    <2> QED
        BY <1>4, <2>1, OntoOne DEF FindReport
<1>5. ASSUME NEW f \in Finishers, ReadRun(f) PROVE EvidenceTypeOK'
    <2>1. Row("read", ended, FALSE, 0, {}) \in FinisherRow
        BY RowType DEF Stages
    <2> QED
        BY <1>5, <2>1, OntoOne DEF ReadRun
<1>6. ASSUME NEW f \in Finishers, NEW table \in Tables, ReadTable(f, table) PROVE EvidenceTypeOK'
    <2> DEFINE open == IF table = "gates" THEN pending ELSE sealing[f].pending
               count == IF table = "integrity" THEN Len(trail) ELSE sealing[f].count
    <2>1. /\ sealing[f].ended \in BOOLEAN /\ open \in BOOLEAN /\ count \in Nat
          /\ sealing[f].read \cup {table} \in SUBSET Tables
        BY DEF FinisherRow
    <2>2. Row("read", sealing[f].ended, open, count, sealing[f].read \cup {table}) \in FinisherRow
        BY <2>1, RowType DEF Stages
    <2>3. /\ Onto(f, Row("read", sealing[f].ended, open, count, sealing[f].read \cup {table}))
          /\ UNCHANGED <<ended, pending, answering, trail, report, reading, revived>>
        BY <1>6 DEF ReadTable
    <2> HIDE DEF open, count
    <2> QED
        BY <2>2, <2>3, OntoOne
<1>7. ASSUME NEW f \in Finishers, CreateReport(f) PROVE EvidenceTypeOK'
    <2> DEFINE row == sealing[f]
    <2>1. row \in FinisherRow
        OBVIOUS
    <2> HIDE DEF row
    <2>2. /\ row.ended \in BOOLEAN /\ row.pending \in BOOLEAN /\ row.count \in Nat
          /\ row.read \in SUBSET Tables
        BY <2>1 DEF FinisherRow
    <2>3. Row("seal", row.ended, row.pending, row.count, row.read) \in FinisherRow
        BY <2>2, RowType DEF Stages
    <2>4. Sealing("done") \in FinisherRow
        BY RowType DEF Sealing, Stages
    <2> QED
        BY <1>7, <2>1, <2>3, <2>4, OntoOne DEF CreateReport, Created, row
<1>8. ASSUME NEW f \in Finishers, RecordSeal(f) PROVE EvidenceTypeOK'
    <2>1. Sealing("done") \in FinisherRow /\ sealing[f].count \in Nat
        BY RowType DEF Sealing, Stages, FinisherRow
    <2> QED
        BY <1>8, <2>1, OntoOne DEF RecordSeal
<1>9. ASSUME NEW f \in Finishers, StopFinisher(f) PROVE EvidenceTypeOK'
    <2>1. Sealing("done") \in FinisherRow
        BY RowType DEF Sealing, Stages
    <2> QED
        BY <1>9, <2>1, OntoOne DEF StopFinisher
<1>10. ASSUME NEW r \in Readers, BuildAnswer(r) PROVE EvidenceTypeOK'
    <2>1. [stage |-> "built", seal |-> Seals # {}, given |-> {}] \in ReaderRow
        BY DEF ReaderRow
    <2> QED
        BY <1>10, <2>1 DEF BuildAnswer
<1>11. ASSUME NEW r \in Readers, AnswerEvidence(r) PROVE EvidenceTypeOK'
    <2>1. reading[r].seal \in BOOLEAN
        BY DEF ReaderRow
    <2>2. [stage |-> "answered", seal |-> reading[r].seal, given |-> report] \in ReaderRow
        BY <2>1 DEF ReaderRow
    <2> DEFINE row == [stage |-> "answered", seal |-> reading[r].seal, given |-> report]
    <2>3. row \in ReaderRow
        BY <2>2
    <2>4. /\ reading' = [reading EXCEPT ![r] = row]
          /\ UNCHANGED <<ended, pending, answering, trail, report, sealing, revived>>
        BY <1>11 DEF AnswerEvidence
    <2> HIDE DEF row
    <2> QED
        BY <2>3, <2>4
<1>12. CASE UNCHANGED evidenceVars
    BY <1>12 DEF evidenceVars
<1> QED
    BY <1>1, <1>2, <1>3, <1>4, <1>5, <1>6, <1>7, <1>8, <1>9, <1>10, <1>11, <1>12
    DEF EvidenceNext

-----------------------------------------------------------------------------
(* One seal *)

\* A finisher that moves anywhere but to the seal, while nothing is sealed.
LEMMA MoveSealInv ==
    ASSUME EvidenceTypeOK, SealInv, NEW f \in Finishers, NEW row \in FinisherRow, Onto(f, row),
           row.stage # "seal", row.count <= Len(trail), report' = report,
           Len(trail') \in Nat, Len(trail') >= Len(trail),
           Seals' = Seals, \A i \in Seals : trail'[i] = trail[i]
    PROVE  SealInv'
<1>1. /\ sealing'[f] = row
      /\ \A g \in Finishers : g # f => sealing'[g] = sealing[g]
    BY OntoOne DEF EvidenceTypeOK
<1>2. /\ Len(trail) \in Nat
      /\ \A g \in Finishers : sealing[g].count \in Nat
      /\ row.count \in Nat
    BY DEF EvidenceTypeOK, FinisherRow
<1>3. \A g \in Finishers : sealing'[g].stage = "seal" => g # f /\ sealing[g].stage = "seal"
    BY <1>1
<1>4. \A g \in Finishers : sealing'[g].count <= Len(trail')
    BY <1>1, <1>2 DEF SealInv
<1>5. SealedOnce'
    BY DEF SealInv, SealedOnce
<1> QED
    BY <1>1, <1>3, <1>4, <1>5 DEF SealInv

\* Every step keeps the report sealed once.
LEMMA SealStep ==
    ASSUME EvidenceTypeOK, SealInv, [EvidenceNext]_evidenceVars
    PROVE  SealInv'
<1>t. Len(trail) \in Nat
    BY DEF EvidenceTypeOK
<1>0. CASE UNCHANGED <<trail, report, sealing>>
    <2>1. Seals' = Seals
        BY <1>0 DEF Seals
    <2>2. SealedOnce'
        BY <1>0, <2>1 DEF SealInv, SealedOnce
    <2> QED
        BY <1>0, <2>1, <2>2 DEF SealInv
<1>1. CASE OtherTrailEvent
    <2>1. trail' = Append(trail, Other) /\ report' = report /\ sealing' = sealing
        BY <1>1 DEF OtherTrailEvent
    <2>2. /\ Len(trail') = Len(trail) + 1 /\ Seals' = Seals
          /\ \A i \in Seals : trail'[i] = trail[i]
        BY <2>1, OtherSealsNothing DEF EvidenceTypeOK
    <2>3. \A g \in Finishers : sealing[g].count \in Nat
        BY DEF EvidenceTypeOK, FinisherRow
    <2>4. \A g \in Finishers : sealing'[g].count <= Len(trail')
        BY <1>t, <2>1, <2>2, <2>3 DEF SealInv
    <2>5. SealedOnce'
        BY <2>1, <2>2 DEF SealInv, SealedOnce
    <2> QED
        BY <2>1, <2>2, <2>4, <2>5 DEF SealInv
<1>2. \A stage \in Stages \ {"seal"} :
          /\ Sealing(stage) \in FinisherRow
          /\ Sealing(stage).stage # "seal" /\ Sealing(stage).count <= Len(trail)
    <2> SUFFICES ASSUME NEW stage \in Stages \ {"seal"}
                 PROVE  /\ Sealing(stage) \in FinisherRow
                        /\ Sealing(stage).stage # "seal" /\ Sealing(stage).count <= Len(trail)
        OBVIOUS
    <2>1. Sealing(stage) \in FinisherRow
        BY RowType DEF Sealing
    <2>2. Sealing(stage).stage = stage /\ Sealing(stage).count = 0
        BY DEF Sealing, Row
    <2> QED
        BY <1>t, <2>1, <2>2
<1>3. ASSUME NEW f \in Finishers, EndGates(f) \/ Settle(f) PROVE SealInv'
    <2>1. PICK stage \in {"settle", "find"} : Onto(f, Sealing(stage))
        BY <1>3 DEF EndGates, Settle
    <2>2. /\ Sealing(stage) \in FinisherRow
          /\ Sealing(stage).stage # "seal" /\ Sealing(stage).count <= Len(trail)
        BY <1>2 DEF Stages
    <2>3. report' = report /\ trail' = Append(trail, Other)
        BY <1>3 DEF EndGates, Settle
    <2>4. /\ Len(trail') = Len(trail) + 1 /\ Seals' = Seals
          /\ \A i \in Seals : trail'[i] = trail[i]
        BY <2>3, OtherSealsNothing DEF EvidenceTypeOK
    <2>5. Len(trail') \in Nat /\ Len(trail') >= Len(trail)
        BY <1>t, <2>4
    <2> QED
        BY <2>1, <2>2, <2>3, <2>4, <2>5, MoveSealInv
<1>4. ASSUME NEW f \in Finishers, NEW row \in FinisherRow, Onto(f, row),
             row.stage # "seal", row.count <= Len(trail), UNCHANGED <<trail, report>>
      PROVE  SealInv'
    <2>1. Seals' = Seals /\ Len(trail') \in Nat /\ Len(trail') >= Len(trail)
        BY <1>t, <1>4 DEF Seals
    <2>2. \A i \in Seals : trail'[i] = trail[i]
        BY <1>4
    <2> QED
        BY <1>4, <2>1, <2>2, MoveSealInv
<1>5. ASSUME NEW f \in Finishers, FindReport(f) PROVE SealInv'
    <2>1. PICK stage \in Stages \ {"seal"} : Onto(f, Sealing(stage))
        BY <1>5 DEF FindReport, Stages
    <2>2. UNCHANGED <<trail, report>>
        BY <1>5 DEF FindReport
    <2> QED
        BY <1>4, <1>2, <2>1, <2>2
<1>6. ASSUME NEW f \in Finishers, ReadRun(f) PROVE SealInv'
    <2> DEFINE row == Row("read", ended, FALSE, 0, {})
    <2>1. row \in FinisherRow
        BY RowType DEF Stages, EvidenceTypeOK
    <2>2. row.stage # "seal" /\ row.count <= Len(trail)
        BY <1>t DEF Row
    <2>3. Onto(f, row) /\ UNCHANGED <<trail, report>>
        BY <1>6 DEF ReadRun
    <2> HIDE DEF row
    <2> QED
        BY <1>4, <2>1, <2>2, <2>3
<1>7. ASSUME NEW f \in Finishers, NEW table \in Tables, ReadTable(f, table) PROVE SealInv'
    <2> DEFINE open == IF table = "gates" THEN pending ELSE sealing[f].pending
               count == IF table = "integrity" THEN Len(trail) ELSE sealing[f].count
               row == Row("read", sealing[f].ended, open, count, sealing[f].read \cup {table})
    <2>1. /\ sealing[f].ended \in BOOLEAN /\ open \in BOOLEAN /\ count \in Nat
          /\ sealing[f].read \cup {table} \in SUBSET Tables
        BY DEF FinisherRow, EvidenceTypeOK
    <2>2. count <= Len(trail)
        BY <1>t DEF SealInv
    <2>3. Onto(f, row) /\ UNCHANGED <<trail, report>>
        BY <1>7 DEF ReadTable
    <2> HIDE DEF open, count
    <2>4. row \in FinisherRow
        BY <2>1, RowType DEF Stages
    <2>5. row.stage # "seal" /\ row.count <= Len(trail)
        BY <2>2 DEF Row
    <2> HIDE DEF row
    <2> QED
        BY <1>4, <2>3, <2>4, <2>5
<1>8. ASSUME NEW f \in Finishers, CreateReport(f) PROVE SealInv'
    <2>1. CASE report # {}
        <3>1. Onto(f, Sealing("done")) /\ UNCHANGED <<trail, report>>
            BY <1>8, <2>1 DEF CreateReport
        <3> QED
            BY <1>4, <1>2, <3>1 DEF Stages
    <2>2. CASE report = {}
        <3> DEFINE made == Row("seal", sealing[f].ended, sealing[f].pending,
                               sealing[f].count, sealing[f].read)
        <3>1. /\ report' = {sealing[f]} /\ Onto(f, made) /\ trail' = trail
            BY <1>8, <2>2 DEF CreateReport, Created
        <3>2. made.stage = "seal" /\ made.count = sealing[f].count
            BY DEF Row
        <3>3. sealing[f] \in FinisherRow
            BY DEF EvidenceTypeOK
        <3>4. made \in FinisherRow
            <4>1. /\ sealing[f].ended \in BOOLEAN /\ sealing[f].pending \in BOOLEAN
                  /\ sealing[f].count \in Nat /\ sealing[f].read \in SUBSET Tables
                BY <3>3 DEF FinisherRow
            <4> QED
                BY <4>1, RowType DEF Stages
        <3> HIDE DEF made
        <3>5. /\ sealing'[f] = made
              /\ \A g \in Finishers : g # f => sealing'[g] = sealing[g]
            BY <3>1, <3>4, OntoOne DEF EvidenceTypeOK
        <3>6. Seals = {} /\ Seals' = {}
            BY <2>2, <3>1 DEF SealInv, SealedOnce, Seals
        <3>7. \A g \in Finishers : sealing[g].stage # "seal"
            BY <2>2 DEF SealInv
        <3>8. \A g \in Finishers : sealing'[g].stage = "seal" => g = f
            BY <3>5, <3>7
        <3>9. \A g \in Finishers : sealing'[g].count <= Len(trail')
            BY <3>1, <3>2, <3>5 DEF SealInv
        <3>10. SealedOnce'
            BY <3>6 DEF SealedOnce
        <3>11. /\ report' # {}
               /\ \A r \in report' : r.count = sealing'[f].count
            BY <3>1, <3>2, <3>5
        <3> QED
            BY <3>6, <3>8, <3>9, <3>10, <3>11 DEF SealInv
    <2> QED
        BY <2>1, <2>2
<1>9. ASSUME NEW f \in Finishers, RecordSeal(f) PROVE SealInv'
    <2> DEFINE count == sealing[f].count
    <2>1. /\ Seals = {} /\ count <= Len(trail) /\ count \in Nat
          /\ report # {} /\ \A r \in report : r.count = count
          /\ \A g \in Finishers : g # f => sealing[g].stage # "seal"
        BY <1>9 DEF RecordSeal, SealInv, EvidenceTypeOK, FinisherRow
    <2>2. trail' = Append(trail, count) /\ report' = report /\ Onto(f, Sealing("done"))
        BY <1>9 DEF RecordSeal
    <2>3. Sealing("done") \in FinisherRow /\ Sealing("done").stage # "seal"
          /\ Sealing("done").count = 0
        BY RowType DEF Sealing, Row, Stages
    <2>4. /\ sealing'[f] = Sealing("done")
          /\ \A g \in Finishers : g # f => sealing'[g] = sealing[g]
        BY <2>2, <2>3, OntoOne DEF EvidenceTypeOK
    <2> HIDE DEF count
    <2>5. /\ Len(trail') = Len(trail) + 1
          /\ \A i \in Seals' : i = Len(trail) + 1 /\ trail'[i] = count
        BY <2>1, <2>2, OneSeal DEF EvidenceTypeOK
    <2>6. \A g \in Finishers : sealing'[g].stage # "seal"
        BY <2>1, <2>3, <2>4
    <2>7. \A g \in Finishers : sealing[g].count \in Nat
        BY DEF EvidenceTypeOK, FinisherRow
    <2>8. \A g \in Finishers : sealing'[g].count <= Len(trail')
        BY <1>t, <2>3, <2>4, <2>5, <2>7 DEF SealInv
    <2>9. \A i \in Seals' : \E r \in report' : trail'[i] = r.count /\ r.count < i
        BY <1>t, <2>1, <2>2, <2>5
    <2>10. SealedOnce'
        BY <2>5, <2>9 DEF SealedOnce
    <2> QED
        BY <2>6, <2>8, <2>10 DEF SealInv
<1>10. ASSUME NEW f \in Finishers, StopFinisher(f) PROVE SealInv'
    <2>1. Onto(f, Sealing("done")) /\ UNCHANGED <<trail, report>>
        BY <1>10 DEF StopFinisher
    <2> QED
        BY <1>4, <1>2, <2>1 DEF Stages
<1>11. AskApproval \/ ReadGate \/ AnswerApproval \/ OverwriteStatus
           => UNCHANGED <<trail, report, sealing>>
    BY DEF AskApproval, ReadGate, AnswerApproval, OverwriteStatus
<1>12. ASSUME NEW r \in Readers, BuildAnswer(r) \/ AnswerEvidence(r)
       PROVE  UNCHANGED <<trail, report, sealing>>
    BY <1>12 DEF BuildAnswer, AnswerEvidence
<1>13. UNCHANGED evidenceVars => UNCHANGED <<trail, report, sealing>>
    BY DEF evidenceVars
<1> QED
    BY <1>0, <1>1, <1>3, <1>5, <1>6, <1>7, <1>8, <1>9, <1>10, <1>11, <1>12, <1>13
    DEF EvidenceNext

-----------------------------------------------------------------------------
(* The end of the run *)

\* A finisher that moves while the run stays as it is.
LEMMA MoveEndInv ==
    ASSUME EvidenceTypeOK, EndInv, NEW f \in Finishers, NEW row \in FinisherRow, Onto(f, row),
           ~revived /\ row.stage \in {"find", "row", "read", "seal"} => ended = TRUE,
           ~revived /\ row.stage = "read" => row.ended = TRUE /\ row.pending = FALSE,
           UNCHANGED <<ended, pending, report, revived>>,
           row.stage # "settle"
    PROVE  EndInv'
<1>1. /\ sealing'[f] = row
      /\ \A g \in Finishers : g # f => sealing'[g] = sealing[g]
    BY OntoOne DEF EvidenceTypeOK
<1>2. Ending' => Ending
    BY <1>1 DEF Ending
<1> QED
    BY <1>1, <1>2 DEF EndInv

\* Every step keeps what is sealed the end of the run, unless it revives it.
LEMMA EndStep ==
    ASSUME EvidenceTypeOK, EndInv, [EvidenceNext]_evidenceVars
    PROVE  EndInv'
<1>0. CASE UNCHANGED <<ended, pending, report, sealing, revived>>
    BY <1>0 DEF EndInv, Ending
<1>1. CASE AskApproval \/ AnswerApproval \/ OverwriteStatus
    BY <1>1 DEF AskApproval, AnswerApproval, OverwriteStatus, EndInv, Ending, EvidenceTypeOK
<1>2. ASSUME NEW f \in Finishers, NEW stage \in {"settle", "find"}, Onto(f, Sealing(stage)),
             ~revived => pending' = FALSE, stage = "find" => ended' = TRUE,
             ended' = ended \/ ended' = TRUE, UNCHANGED <<report, revived>>
      PROVE  EndInv'
    <2>1. Sealing(stage) \in FinisherRow /\ Sealing(stage).stage = stage
        BY RowType DEF Sealing, Stages, Row
    <2>2. /\ sealing'[f] = Sealing(stage)
          /\ \A g \in Finishers : g # f => sealing'[g] = sealing[g]
        BY <1>2, <2>1, OntoOne DEF EvidenceTypeOK
    <2> QED
        BY <1>2, <2>1, <2>2 DEF EndInv
<1>3. ASSUME NEW f \in Finishers, EndGates(f) PROVE EndInv'
    <2>1. /\ Onto(f, Sealing("settle")) /\ pending' = FALSE
          /\ UNCHANGED <<ended, report, revived>>
        BY <1>3 DEF EndGates
    <2> QED
        BY <1>2, <2>1
<1>4. ASSUME NEW f \in Finishers, Settle(f) PROVE EndInv'
    <2>1. /\ Onto(f, Sealing("find")) /\ ended' = TRUE
          /\ UNCHANGED <<pending, report, revived>>
        BY <1>4 DEF Settle
    <2>2. ~revived => pending' = FALSE
        BY <1>4, <2>1 DEF Settle, EndInv, Ending, EvidenceTypeOK
    <2> QED
        BY <1>2, <2>1, <2>2
<1>5. ASSUME NEW f \in Finishers, NEW stage \in {"row", "done"}, Onto(f, Sealing(stage)),
             ~revived /\ stage = "row" => ended = TRUE,
             UNCHANGED <<ended, pending, report, revived>>
      PROVE  EndInv'
    <2>1. Sealing(stage) \in FinisherRow
        BY RowType DEF Sealing, Stages
    <2>2. Sealing(stage).stage = stage
        BY DEF Sealing, Row
    <2> QED
        BY <1>5, <2>1, <2>2, MoveEndInv
<1>6. ASSUME NEW f \in Finishers, FindReport(f) PROVE EndInv'
    <2>1. PICK stage \in {"row", "done"} : Onto(f, Sealing(stage))
        BY <1>6 DEF FindReport
    <2>2. UNCHANGED <<ended, pending, report, revived>>
        BY <1>6 DEF FindReport
    <2>3. ~revived => ended = TRUE
        BY <1>6 DEF FindReport, EndInv, Ending, EvidenceTypeOK
    <2> QED
        BY <1>5, <2>1, <2>2, <2>3
<1>7. ASSUME NEW f \in Finishers, ReadRun(f) PROVE EndInv'
    <2> DEFINE row == Row("read", ended, FALSE, 0, {})
    <2>1. row \in FinisherRow
        BY RowType DEF Stages, EvidenceTypeOK
    <2>2. row.stage = "read" /\ row.ended = ended /\ row.pending = FALSE
        BY DEF Row
    <2>3. Onto(f, row) /\ UNCHANGED <<ended, pending, report, revived>>
        BY <1>7 DEF ReadRun
    <2>4. ~revived => ended = TRUE
        BY <1>7 DEF ReadRun, EndInv, Ending, EvidenceTypeOK
    <2> HIDE DEF row
    <2> QED
        BY <2>1, <2>2, <2>3, <2>4, MoveEndInv
<1>8. ASSUME NEW f \in Finishers, NEW table \in Tables, ReadTable(f, table) PROVE EndInv'
    <2> DEFINE open == IF table = "gates" THEN pending ELSE sealing[f].pending
               count == IF table = "integrity" THEN Len(trail) ELSE sealing[f].count
               row == Row("read", sealing[f].ended, open, count, sealing[f].read \cup {table})
    <2>1. /\ sealing[f].ended \in BOOLEAN /\ open \in BOOLEAN /\ count \in Nat
          /\ sealing[f].read \cup {table} \in SUBSET Tables
        BY DEF FinisherRow, EvidenceTypeOK
    <2>2. Onto(f, row) /\ UNCHANGED <<ended, pending, report, revived>>
        BY <1>8 DEF ReadTable
    <2>3. ~revived => ended = TRUE /\ pending = FALSE
        BY <1>8 DEF ReadTable, EndInv, Ending, EvidenceTypeOK
    <2>4. ~revived => sealing[f].ended = TRUE /\ sealing[f].pending = FALSE
        BY <1>8 DEF ReadTable, EndInv
    <2>5. ~revived => open = FALSE
        BY <2>3, <2>4
    <2> HIDE DEF open, count
    <2>6. row \in FinisherRow
        BY <2>1, RowType DEF Stages
    <2>7. row.stage = "read" /\ row.ended = sealing[f].ended /\ row.pending = open
        BY DEF Row
    <2> HIDE DEF row
    <2> QED
        BY <2>2, <2>3, <2>4, <2>5, <2>6, <2>7, MoveEndInv
<1>9. ASSUME NEW f \in Finishers, CreateReport(f) PROVE EndInv'
    <2>1. CASE report # {}
        <3>1. Onto(f, Sealing("done")) /\ UNCHANGED <<ended, pending, report, revived>>
            BY <1>9, <2>1 DEF CreateReport
        <3> QED
            BY <1>5, <3>1
    <2>2. CASE report = {}
        <3> DEFINE made == Row("seal", sealing[f].ended, sealing[f].pending,
                               sealing[f].count, sealing[f].read)
        <3>1. /\ report' = {sealing[f]} /\ Onto(f, made)
              /\ UNCHANGED <<ended, pending, revived>>
            BY <1>9, <2>2 DEF CreateReport, Created
        <3>2. made.stage = "seal"
            BY DEF Row
        <3>3. sealing[f] \in FinisherRow
            BY DEF EvidenceTypeOK
        <3>4. made \in FinisherRow
            <4>1. /\ sealing[f].ended \in BOOLEAN /\ sealing[f].pending \in BOOLEAN
                  /\ sealing[f].count \in Nat /\ sealing[f].read \in SUBSET Tables
                BY <3>3 DEF FinisherRow
            <4> QED
                BY <4>1, RowType DEF Stages
        <3> HIDE DEF made
        <3>5. /\ sealing'[f] = made
              /\ \A g \in Finishers : g # f => sealing'[g] = sealing[g]
            BY <3>1, <3>4, OntoOne DEF EvidenceTypeOK
        <3>6. ~revived => /\ ended /\ ~pending
                          /\ sealing[f].ended = TRUE /\ sealing[f].pending = FALSE
            BY <1>9 DEF CreateReport, EndInv, Ending
        <3> QED
            BY <3>1, <3>2, <3>5, <3>6 DEF EndInv, Ending
    <2> QED
        BY <2>1, <2>2
<1>10. ASSUME NEW f \in Finishers, RecordSeal(f) \/ StopFinisher(f) PROVE EndInv'
    <2>1. Onto(f, Sealing("done")) /\ UNCHANGED <<ended, pending, report, revived>>
        BY <1>10 DEF RecordSeal, StopFinisher
    <2> QED
        BY <1>5, <2>1
<1>11. OtherTrailEvent \/ ReadGate \/ UNCHANGED evidenceVars
          => UNCHANGED <<ended, pending, report, sealing, revived>>
    BY DEF OtherTrailEvent, ReadGate, evidenceVars
<1>12. ASSUME NEW r \in Readers, BuildAnswer(r) \/ AnswerEvidence(r)
       PROVE  UNCHANGED <<ended, pending, report, sealing, revived>>
    BY <1>12 DEF BuildAnswer, AnswerEvidence
<1> QED
    BY <1>0, <1>1, <1>6, <1>7, <1>8, <1>9, <1>10, <1>11, <1>12, <1>3, <1>4 DEF EvidenceNext

-----------------------------------------------------------------------------
(* The answers *)

\* Every step keeps what an answer shows: a report that was there stays.
LEMMA ReadStep ==
    ASSUME EvidenceTypeOK, SealInv, ReadInv, [EvidenceNext]_evidenceVars
    PROVE  ReadInv'
<1>0. CASE UNCHANGED <<reading, report>>
    BY <1>0 DEF ReadInv
<1>1. ASSUME NEW f \in Finishers, CreateReport(f) PROVE ReadInv'
    <2>1. CASE report # {}
        BY <1>0, <1>1, <2>1 DEF CreateReport
    <2>2. CASE report = {}
        BY <1>1, <2>2 DEF CreateReport, ReadInv
    <2> QED
        BY <2>1, <2>2
<1>2. ASSUME NEW r \in Readers, BuildAnswer(r) PROVE ReadInv'
    <2> DEFINE row == [stage |-> "built", seal |-> Seals # {}, given |-> {}]
    <2>1. reading' = [reading EXCEPT ![r] = row] /\ report' = report
        BY <1>2 DEF BuildAnswer
    <2>2. row.stage = "built" /\ (row.seal = TRUE => report # {})
        BY DEF SealInv, SealedOnce
    <2> HIDE DEF row
    <2> QED
        BY <2>1, <2>2 DEF ReadInv, EvidenceTypeOK
<1>3. ASSUME NEW r \in Readers, AnswerEvidence(r) PROVE ReadInv'
    <2> DEFINE row == [stage |-> "answered", seal |-> reading[r].seal, given |-> report]
    <2>1. reading' = [reading EXCEPT ![r] = row] /\ report' = report
        BY <1>3 DEF AnswerEvidence
    <2>2. row.stage = "answered" /\ row.seal = reading[r].seal /\ row.given = report
        OBVIOUS
    <2> HIDE DEF row
    <2> QED
        BY <2>1, <2>2 DEF ReadInv, EvidenceTypeOK
<1>4. OtherTrailEvent \/ AskApproval \/ ReadGate \/ AnswerApproval \/ OverwriteStatus
          \/ UNCHANGED evidenceVars => UNCHANGED <<reading, report>>
    BY DEF OtherTrailEvent, AskApproval, ReadGate, AnswerApproval, OverwriteStatus, evidenceVars
<1>5. ASSUME NEW f \in Finishers,
             \/ EndGates(f) \/ Settle(f) \/ FindReport(f) \/ ReadRun(f) \/ RecordSeal(f)
             \/ StopFinisher(f)
             \/ \E table \in Tables : ReadTable(f, table)
      PROVE  UNCHANGED <<reading, report>>
    BY <1>5 DEF EndGates, Settle, FindReport, ReadRun, RecordSeal, StopFinisher, ReadTable
<1> QED
    BY <1>0, <1>1, <1>2, <1>3, <1>4, <1>5 DEF EvidenceNext

-----------------------------------------------------------------------------
(* The theorems *)

\* The invariant holds at first, ...
LEMMA EvidenceStart == EvidenceInit => EvidenceInv
<1> SUFFICES ASSUME EvidenceInit PROVE EvidenceInv
    OBVIOUS
<1>1. Sealing("drive") \in FinisherRow
    BY RowType DEF Sealing, Stages
<1>2. Sealing("drive").stage = "drive" /\ Sealing("drive").count = 0
    BY DEF Sealing, Row
<1> DEFINE row == [stage |-> "ask", seal |-> FALSE, given |-> {}]
<1>3. row \in ReaderRow
    BY DEF ReaderRow
<1>4. EvidenceTypeOK
    <2>1. reading = [r \in Readers |-> row]
        BY DEF EvidenceInit
    <2> HIDE DEF row
    <2>2. reading \in [Readers -> ReaderRow]
        BY <1>3, <2>1
    <2>3. sealing \in [Finishers -> FinisherRow]
        BY <1>1 DEF EvidenceInit
    <2>4. trail \in Seq(Nat) /\ report \in SUBSET FinisherRow
        BY DEF EvidenceInit
    <2>5. /\ ended \in BOOLEAN /\ pending \in BOOLEAN /\ answering \in BOOLEAN
          /\ revived \in BOOLEAN
        BY DEF EvidenceInit
    <2> QED
        BY <2>2, <2>3, <2>4, <2>5 DEF EvidenceTypeOK
<1>5. Seals = {} /\ Len(trail) = 0
    BY DEF EvidenceInit, Seals
<1>6. SealInv
    BY <1>2, <1>5 DEF EvidenceInit, SealInv, SealedOnce
<1>7. EndInv
    BY <1>2 DEF EvidenceInit, EndInv, Ending
<1>8. ReadInv
    BY DEF EvidenceInit, ReadInv
<1> QED
    BY <1>4, <1>6, <1>7, <1>8 DEF EvidenceInv

\* ... every step keeps it, ...
LEMMA EvidenceStep == EvidenceInv /\ [EvidenceNext]_evidenceVars => EvidenceInv'
BY TypeStep, SealStep, EndStep, ReadStep DEF EvidenceInv

\* ... and it implies the property.
LEMMA EvidenceInvImplies == EvidenceInv => ReportStands
<1> SUFFICES ASSUME EvidenceInv PROVE ReportStands
    OBVIOUS
<1>1. ASSUME ~revived, NEW r \in report PROVE Missing(r) = {}
    <2>1. r.ended = TRUE /\ r.pending = FALSE
        BY <1>1 DEF EvidenceInv, EndInv
    <2> DEFINE lacks == [end |-> ~r.ended, answer |-> r.pending]
    <2>2. lacks["end"] = (~r.ended) /\ lacks["answer"] = r.pending
        OBVIOUS
    <2>3. lacks["end"] = FALSE /\ lacks["answer"] = FALSE
        BY <2>1, <2>2, Zenon
    <2>4. DOMAIN lacks = {"end", "answer"}
        OBVIOUS
    <2> HIDE DEF lacks
    <2>5. \A item \in DOMAIN lacks : lacks[item] = FALSE
        BY <2>3, <2>4
    <2>6. {item \in DOMAIN lacks : lacks[item]} = {}
        BY <2>5, Zenon
    <2> QED
        BY <2>6, Zenon DEF Missing, lacks
<1>2. CapturesEnd
    BY <1>1 DEF CapturesEnd
<1>3. AnswersShowTheSeal
    <2> SUFFICES ASSUME NEW r \in Readers, reading[r].stage = "answered", reading[r].seal
                 PROVE  reading[r].given = report
        BY DEF AnswersShowTheSeal
    <2>1. reading[r].seal \in BOOLEAN
        BY DEF EvidenceInv, EvidenceTypeOK, ReaderRow
    <2>2. reading[r].seal = TRUE
        BY <2>1, Zenon
    <2> QED
        BY <2>2 DEF EvidenceInv, ReadInv
<1> QED
    BY <1>2, <1>3 DEF EvidenceInv, SealInv, ReportStands

\* The types of every state.
THEOREM EvidenceTypeCorrect == EvidenceSpec => []EvidenceTypeOK
<1>1. EvidenceInv => EvidenceTypeOK
    BY DEF EvidenceInv
<1> QED
    BY <1>1, EvidenceStart, EvidenceStep, PTL DEF EvidenceSpec

\* However many drives finish a run and wherever one of them stops: one report, one
\* EVIDENCE_FINALIZED that names it, of the run's end, and in every answer with a seal.
THEOREM ReportAlwaysStands == EvidenceSpec => []ReportStands
BY EvidenceStart, EvidenceStep, EvidenceInvImplies, PTL DEF EvidenceSpec

-----------------------------------------------------------------------------
(* Impact queries *)

HIDE EvidenceAssumption

\* The files of relation R that import one of S.
Importers(R, S) == {e[1] : e \in {x \in R : x[2] \in S}}

\* What lies within k imports of S, for each k.
Withins(R, S) ==
    {T \in [0 .. NFiles -> SUBSET Files] :
        /\ T[0] = S
        /\ \A k \in 1 .. NFiles : T[k] = T[k - 1] \cup Importers(R, T[k - 1])}

-----------------------------------------------------------------------------
(* Numbers and orders *)

\* A set of numbers that is not empty has a least one.
LEMMA LeastNumber ==
  ASSUME NEW S \in SUBSET Nat, S # {}
  PROVE  \E n \in S : \A m \in S : n <= m
<1>1. PICK n \in S : \A m \in S : ~(<<m, n>> \in OpToRel(<, Nat))
  <2> DEFINE less == OpToRel(<, Nat)
  <2>1. IsWellFoundedOn(less, Nat) /\ S \subseteq Nat
    BY NatLessThanWellFounded
  <2> HIDE DEF less
  <2>2. \E n \in S : \A m \in S : ~(<<m, n>> \in less)
    BY <2>1, WFMin
  <2> QED BY <2>2 DEF less
<1>2. ASSUME NEW m \in S PROVE n <= m
  <2>1. m \in Nat /\ n \in Nat
    OBVIOUS
  <2>2. ~(m < n)
    BY <1>1, <2>1 DEF OpToRel
  <2> QED BY <2>1, <2>2
<1> QED BY <1>2

\* The ith place behind the first m.
LEMMA Shifted ==
  ASSUME NEW m \in Nat, NEW n \in Nat, NEW i \in 1 .. n
  PROVE  m + i \in 1 .. m + n /\ ~(m + i <= m) /\ (m + i) - m = i
  OBVIOUS

\* A set of numbers that holds 0 and with each number the next holds all up to n.
LEMMA UpTo ==
  ASSUME NEW n \in Nat, NEW S \in SUBSET Nat, 0 \in S,
         \A k \in 1 .. n : k - 1 \in S => k \in S
  PROVE  0 .. n \subseteq S
<1> DEFINE left == (0 .. n) \ S
<1>1. SUFFICES ASSUME left # {} PROVE FALSE
  OBVIOUS
<1>2. left \in SUBSET Nat
  OBVIOUS
<1>3. PICK k \in left : \A m \in left : k <= m
  BY <1>1, <1>2, LeastNumber
<1>4. k \in 1 .. n /\ k - 1 \in 0 .. n /\ ~(k <= k - 1)
  OBVIOUS
<1>5. k - 1 \in S
  BY <1>3, <1>4
<1> QED BY <1>4, <1>5

USE KnownLimits, ImportsAreEdges, SeedsAreFiles

Rising(s, n) == \A i, j \in 1 .. n : i < j => s[i] < s[j]

Enumerated(S) == \E s \in [1 .. Cardinality(S) -> S] : Rising(s, Cardinality(S))

\* There are NFiles files, so a set of them is finite.
LEMMA FilesAreFinite ==
  ASSUME NEW S \in SUBSET Files
  PROVE  IsFiniteSet(S) /\ Cardinality(S) \in Nat /\ Cardinality(S) <= NFiles
<1>1. IsFiniteSet(Files) /\ Cardinality(Files) = NFiles
  BY FS_Interval DEF Files
<1> QED BY <1>1, FS_Subset, FS_CardinalityType

\* The files that are no later than n can be put in order.
LEMMA AllEnumerated ==
  ASSUME NEW S \in SUBSET Files
  PROVE  Enumerated(S)
<1> DEFINE good == {n \in 0 .. NFiles : \A X \in SUBSET (1 .. n) : Enumerated(X)}
<1>1. 0 \in good
  <2>1. ASSUME NEW X \in SUBSET (1 .. 0) PROVE Enumerated(X)
    <3>1. X = {} /\ 1 .. 0 = {}
      OBVIOUS
    <3>2. Cardinality(X) = 0
      BY <3>1, FS_EmptySet
    <3>3. [x \in 1 .. 0 |-> x] \in [1 .. 0 -> X]
      BY <3>1
    <3>4. Rising([x \in 1 .. 0 |-> x], 0)
      BY <3>1 DEF Rising
    <3> QED BY <3>2, <3>3, <3>4 DEF Enumerated
  <2> QED BY <2>1
<1>2. ASSUME NEW n \in 1 .. NFiles, n - 1 \in good PROVE n \in good
  <2>1. ASSUME NEW X \in SUBSET (1 .. n) PROVE Enumerated(X)
    <3>1. CASE n \notin X
      <4>1. X \in SUBSET (1 .. n - 1)
        BY <3>1
      <4> QED BY <1>2, <4>1
    <3>2. CASE n \in X
      <4> DEFINE Y == X \ {n}
      <4>1. Y \in SUBSET (1 .. n - 1) /\ X \in SUBSET Files /\ Y \in SUBSET Files
        BY DEF Files
      <4>2. Enumerated(Y)
        BY <1>2, <4>1
      <4>3. PICK s \in [1 .. Cardinality(Y) -> Y] : Rising(s, Cardinality(Y))
        BY <4>2 DEF Enumerated
      <4>4. PICK c \in Nat : c = Cardinality(Y)
        BY <4>1, FilesAreFinite
      <4>5. Cardinality(X) = c + 1
        <5>1. IsFiniteSet(X) /\ Cardinality(X) \in Nat
          BY <4>1, FilesAreFinite
        <5>2. Cardinality(Y) = Cardinality(X) - 1
          BY <3>2, <5>1, FS_RemoveElement
        <5> QED BY <4>4, <5>1, <5>2
      <4> DEFINE t == [i \in 1 .. c + 1 |-> IF i <= c THEN s[i] ELSE n]
      <4>6. s \in [1 .. c -> Y] /\ \A i, j \in 1 .. c : i < j => s[i] < s[j]
        BY <4>3, <4>4 DEF Rising
      <4>7. t \in [1 .. c + 1 -> X]
        <5>1. ASSUME NEW i \in 1 .. c + 1
              PROVE  (IF i <= c THEN s[i] ELSE n) \in X
          <6>1. CASE i <= c
            <7>1. i \in 1 .. c
              BY <6>1
            <7> QED BY <4>6, <6>1, <7>1
          <6> QED BY <3>2, <6>1
        <5> QED BY <5>1
      <4>8. ASSUME NEW i \in 1 .. c + 1, NEW j \in 1 .. c + 1, i < j
            PROVE  t[i] < t[j]
        <5>1. i \in 1 .. c /\ t[i] = s[i]
          BY <4>8
        <5>2. CASE j <= c
          <6>1. j \in 1 .. c /\ t[j] = s[j]
            BY <5>2
          <6> QED BY <4>6, <4>8, <5>1, <6>1
        <5>3. CASE j > c
          <6>1. t[j] = n
            BY <5>3
          <6>2. s[i] \in 1 .. n - 1
            BY <4>1, <4>6, <5>1
          <6> QED BY <5>1, <6>1, <6>2
        <5> QED BY <5>2, <5>3
      <4> HIDE DEF t
      <4>9. Rising(t, c + 1)
        BY <4>8 DEF Rising
      <4> QED BY <4>5, <4>7, <4>9 DEF Enumerated
    <3> QED BY <3>1, <3>2
  <2> QED BY <2>1
<1> HIDE DEF good
<1>3. 0 .. NFiles \subseteq good
  <2>1. good \in SUBSET Nat
    BY DEF good
  <2> QED BY <1>1, <1>2, <2>1, UpTo
<1>4. NFiles \in good
  BY <1>3
<1> QED BY <1>4 DEF good, Files

\* InOrder names every file of a set, and nothing else.
LEMMA InOrderNames ==
  ASSUME NEW S \in SUBSET Files
  PROVE  /\ InOrder(S) \in Seq(S)
         /\ \A f \in S : \E i \in 1 .. Len(InOrder(S)) : InOrder(S)[i] = f
<1> DEFINE s == InOrder(S)
<1>1. PICK c \in Nat : c = Cardinality(S)
  BY FilesAreFinite
<1>2. s \in [1 .. c -> S] /\ \A i, j \in 1 .. c : i < j => s[i] < s[j]
  BY <1>1, AllEnumerated DEF Enumerated, Rising, InOrder
<1> HIDE DEF s
<1>3. s \in Seq(S) /\ Len(s) = c
  <2>1. s \in Seq(S)
    BY <1>2 DEF Seq
  <2>2. DOMAIN s = 1 .. c /\ DOMAIN s = 1 .. Len(s) /\ Len(s) \in Nat
    BY <1>2, <2>1, LenProperties
  <2> QED BY <2>1, <2>2
<1>4. ASSUME NEW i \in 1 .. c, NEW j \in 1 .. c, s[i] = s[j] PROVE i = j
  <2>1. s[i] \in Nat /\ s[j] \in Nat
    <3>1. s[i] \in S /\ s[j] \in S
      BY <1>2
    <3>2. s[i] \in Files /\ s[j] \in Files
      BY <3>1
    <3>3. Files \subseteq Nat
      BY DEF Files
    <3> QED BY <3>2, <3>3
  <2>2. ~(i < j) /\ ~(j < i)
    BY <1>2, <1>4, <2>1
  <2> QED BY <2>2
<1>5. s \in Injection(1 .. c, S)
  BY <1>2, <1>4 DEF Injection, IsInjective
<1>6. Cardinality(1 .. c) = Cardinality(S) /\ IsFiniteSet(S)
  <2>1. Cardinality(1 .. c) = c
    BY FS_Interval
  <2> QED BY <1>1, <2>1, FilesAreFinite
<1>7. s \in Surjection(1 .. c, S)
  BY <1>5, <1>6, FS_Injection
<1>8. \A f \in S : \E i \in 1 .. c : s[i] = f
  BY <1>7 DEF Surjection
<1> QED BY <1>3, <1>8 DEF s

-----------------------------------------------------------------------------
(* What lies within k imports *)

\* There is what lies within k imports, for each k.
LEMMA WithinsExist ==
  ASSUME NEW R \in SUBSET (Files \X Files), NEW S \in SUBSET Files
  PROVE  \E T \in Withins(R, S) : TRUE
<1> DEFINE Upto(n) ==
      \E T \in [0 .. n -> SUBSET Files] :
          /\ T[0] = S
          /\ \A k \in 1 .. n : T[k] = T[k - 1] \cup Importers(R, T[k - 1])
<1> DEFINE good == {n \in 0 .. NFiles : Upto(n)}
<1>1. Upto(0)
  <2> DEFINE T == [k \in 0 .. 0 |-> S]
  <2>1. T \in [0 .. 0 -> SUBSET Files] /\ T[0] = S /\ 1 .. 0 = {}
    OBVIOUS
  <2> QED BY <2>1
<1>2. ASSUME NEW n \in 1 .. NFiles, Upto(n - 1) PROVE Upto(n)
  <2>1. PICK T \in [0 .. n - 1 -> SUBSET Files] :
            /\ T[0] = S
            /\ \A k \in 1 .. n - 1 : T[k] = T[k - 1] \cup Importers(R, T[k - 1])
    BY <1>2
  <2> DEFINE last == T[n - 1] \cup Importers(R, T[n - 1])
             U == [k \in 0 .. n |-> IF k = n THEN last ELSE T[k]]
  <2>2. n - 1 \in 0 .. n - 1 /\ T[n - 1] \in SUBSET Files
    OBVIOUS
  <2>3. Importers(R, T[n - 1]) \in SUBSET Files
    BY DEF Importers
  <2>4. last \in SUBSET Files
    BY <2>2, <2>3
  <2>5. ASSUME NEW k \in 0 .. n, k # n PROVE U[k] = T[k] /\ k \in 0 .. n - 1
    BY <2>5
  <2>6. U[n] = last
    OBVIOUS
  <2>7. U \in [0 .. n -> SUBSET Files]
    <3> HIDE DEF last
    <3>1. ASSUME NEW k \in 0 .. n PROVE (IF k = n THEN last ELSE T[k]) \in SUBSET Files
      <4>1. CASE k = n
        BY <2>4, <4>1
      <4>2. CASE k # n
        <5>1. k \in 0 .. n - 1
          BY <4>2
        <5> QED BY <4>2, <5>1
      <4> QED BY <4>1, <4>2
    <3> QED BY <3>1
  <2> HIDE DEF U
  <2>8. U[0] = S
    <3>1. 0 \in 0 .. n /\ 0 # n
      OBVIOUS
    <3> QED BY <2>1, <2>5, <3>1
  <2>9. ASSUME NEW k \in 1 .. n PROVE U[k] = U[k - 1] \cup Importers(R, U[k - 1])
    <3>1. k - 1 \in 0 .. n /\ k - 1 # n /\ k \in 0 .. n
      OBVIOUS
    <3>2. U[k - 1] = T[k - 1]
      BY <2>5, <3>1
    <3>3. CASE k = n
      BY <2>6, <3>2, <3>3
    <3>4. CASE k # n
      <4>1. k \in 1 .. n - 1
        BY <3>4
      <4> QED BY <2>1, <2>5, <3>1, <3>2, <3>4, <4>1
    <3> QED BY <3>3, <3>4
  <2> QED BY <2>7, <2>8, <2>9
<1> HIDE DEF Upto
<1>3. 0 \in good /\ good \in SUBSET Nat
  BY <1>1
<1>4. \A n \in 1 .. NFiles : n - 1 \in good => n \in good
  BY <1>2
<1> HIDE DEF good
<1>5. 0 .. NFiles \subseteq good
  BY <1>3, <1>4, UpTo
<1>6. NFiles \in good
  BY <1>5
<1> QED BY <1>6 DEF good, Upto, Withins

\* The reference is what lies within k imports of the seeds.
LEMMA AffectedIsWithins ==
  ASSUME NEW R \in SUBSET (Files \X Files), seeds \in SUBSET Files
  PROVE  Affected(R) \in Withins(R, seeds)
<1> DEFINE Fits(W) ==
      W = [k \in 0 .. NFiles |->
             IF k = 0 THEN seeds
             ELSE W[k - 1] \cup {e[1] : e \in {x \in R : x[2] \in W[k - 1]}}]
<1>1. PICK T \in Withins(R, seeds) : TRUE
  BY WithinsExist
<1>2. ASSUME NEW k \in 0 .. NFiles
      PROVE  T[k] = IF k = 0 THEN seeds
                    ELSE T[k - 1] \cup {e[1] : e \in {x \in R : x[2] \in T[k - 1]}}
  <2>1. CASE k = 0
    BY <2>1 DEF Withins
  <2>2. CASE k # 0
    <3>1. k \in 1 .. NFiles
      BY <2>2
    <3> QED BY <2>2, <3>1 DEF Withins, Importers
  <2> QED BY <2>1, <2>2
<1>3. Fits(T)
  <2>1. T = [k \in 0 .. NFiles |-> T[k]]
    BY DEF Withins
  <2> QED BY <1>2, <2>1
<1>4. Affected(R) = CHOOSE W : Fits(W)
  BY DEF Affected
<1> HIDE DEF Fits
<1>5. Fits(Affected(R))
  BY <1>3, <1>4
<1> DEFINE A == Affected(R)
<1> HIDE DEF A
<1>6. A = [k \in 0 .. NFiles |->
             IF k = 0 THEN seeds
             ELSE A[k - 1] \cup {e[1] : e \in {x \in R : x[2] \in A[k - 1]}}]
  BY <1>5 DEF Fits, A
<1>7. 0 \in 0 .. NFiles /\ A[0] = seeds
  <2>1. 0 \in 0 .. NFiles
    OBVIOUS
  <2> QED BY <1>6, <2>1
<1>8. ASSUME NEW k \in 1 .. NFiles PROVE A[k] = A[k - 1] \cup Importers(R, A[k - 1])
  <2>1. k \in 0 .. NFiles /\ k # 0
    OBVIOUS
  <2> QED BY <1>6, <2>1 DEF Importers
<1>9. A \in [0 .. NFiles -> SUBSET Files]
  <2> DEFINE good == {k \in 0 .. NFiles : A[k] \in SUBSET Files}
  <2>1. 0 \in good /\ good \in SUBSET Nat
    BY <1>7
  <2>2. ASSUME NEW k \in 1 .. NFiles, k - 1 \in good PROVE k \in good
    <3>1. Importers(R, A[k - 1]) \subseteq Files
      BY DEF Importers
    <3> QED BY <1>8, <2>2, <3>1
  <2> HIDE DEF good
  <2>3. 0 .. NFiles \subseteq good
    BY <2>1, <2>2, UpTo
  <2>4. \A k \in 0 .. NFiles : A[k] \in SUBSET Files
    BY <2>3 DEF good
  <2>5. A = [k \in 0 .. NFiles |-> A[k]]
    BY <1>6
  <2> QED BY <2>4, <2>5
<1> QED BY <1>7, <1>8, <1>9 DEF Withins, A

\* What lies within k imports lies within more.
LEMMA WithinsGrow ==
  ASSUME NEW R, NEW S, NEW T \in Withins(R, S),
         NEW k \in 0 .. NFiles, NEW m \in 0 .. NFiles, k <= m
  PROVE  T[k] \subseteq T[m]
<1> DEFINE good == {j \in 0 .. NFiles : j < k \/ T[k] \subseteq T[j]}
<1>1. 0 \in good /\ good \in SUBSET Nat
  OBVIOUS
<1>2. ASSUME NEW j \in 1 .. NFiles, j - 1 \in good PROVE j \in good
  <2>1. T[j] = T[j - 1] \cup Importers(R, T[j - 1])
    BY DEF Withins
  <2>2. CASE j - 1 < k
    <3>1. j < k \/ j = k
      BY <2>2
    <3> QED BY <3>1
  <2>3. CASE T[k] \subseteq T[j - 1]
    BY <2>1, <2>3
  <2> QED BY <1>2, <2>2, <2>3
<1> HIDE DEF good
<1>3. 0 .. NFiles \subseteq good
  BY <1>1, <1>2, UpTo
<1>4. m \in good /\ ~(m < k)
  BY <1>3
<1> QED BY <1>4 DEF good

\* A file that imports itself adds nothing.
LEMMA LoopsAddNothing ==
  ASSUME NEW R \in SUBSET (Files \X Files), NEW Q \in SUBSET R, NEW S,
         \A e \in R : e[1] # e[2] => e \in Q,
         NEW T \in Withins(R, S)
  PROVE  T \in Withins(Q, S)
<1>1. ASSUME NEW k \in 1 .. NFiles
      PROVE  T[k] = T[k - 1] \cup Importers(Q, T[k - 1])
  <2>1. T[k] = T[k - 1] \cup Importers(R, T[k - 1])
    BY DEF Withins
  <2>2. ASSUME NEW f \in Importers(R, T[k - 1])
        PROVE  f \in T[k - 1] \cup Importers(Q, T[k - 1])
    BY DEF Importers
  <2>3. Importers(Q, T[k - 1]) \subseteq Importers(R, T[k - 1])
    BY DEF Importers
  <2> QED BY <2>1, <2>2, <2>3
<1> QED BY <1>1 DEF Withins

-----------------------------------------------------------------------------
(* The walk *)

Waiting(f) == \E i \in 1 .. Len(queue) : queue[i] = f

WalkTypes ==
    /\ limit \in Limits /\ imports \in ImportRelations /\ blobs \in Blobs /\ seeds \in Queries
    /\ edges \in SUBSET imports
    /\ next \in 0 .. NFiles + 1
    /\ DOMAIN depth \in SUBSET Files
    /\ depth \in [DOMAIN depth -> Nat]
    /\ queue \in Seq(DOMAIN depth)
    /\ truncated \in BOOLEAN /\ finished \in BOOLEAN

\* Nothing is visited while the files are scanned; a graph without the flag has
\* every import of a file that was scanned.
Scanned ==
    /\ next > 0 =>
        /\ finished = FALSE /\ truncated = FALSE
        /\ DOMAIN depth = seeds
        /\ \A f \in seeds : Waiting(f) /\ depth[f] = 0
    /\ truncated = FALSE /\ blobs = {} =>
        \A e \in imports : e[1] # e[2] /\ (next = 0 \/ e[1] < next) => e \in edges

\* The seeds are found, and nothing too far off.
FoundInv ==
    /\ seeds \subseteq DOMAIN depth
    /\ \A f \in DOMAIN depth : depth[f] < Cardinality(DOMAIN depth) /\ depth[f] <= limit.depth

\* The importers of what was visited are found.
Explored ==
    \A f \in DOMAIN depth :
        \/ Waiting(f) \/ depth[f] >= limit.depth
        \/ \A e \in edges : e[2] = f => e[1] \in DOMAIN depth

\* What waits is in the order of its distance, and no two differ by more than one.
BreadthFirst ==
    \A i, j \in 1 .. Len(queue) :
        i < j => depth[queue[i]] <= depth[queue[j]] /\ depth[queue[j]] <= depth[queue[i]] + 1

\* T has f at distance d.
At(T, f, d) == f \in T[d] /\ \A k \in 0 .. NFiles : k < d => f \notin T[k]

Distances ==
    next = 0 => \A T \in Withins(edges, seeds), f \in DOMAIN depth : At(T, f, depth[f])

Emptied == finished = TRUE /\ truncated = FALSE => queue = <<>>

WalkInv == WalkTypes /\ Scanned /\ FoundInv /\ Explored /\ BreadthFirst /\ Distances /\ Emptied

\* While everything that waits is K imports away or more, everything that is
\* within K imports has been found.
LEMMA FoundWithin ==
  ASSUME WalkInv, next = 0, NEW T \in Withins(edges, seeds), NEW K \in 0 .. NFiles,
         K <= limit.depth, \A i \in 1 .. Len(queue) : depth[queue[i]] >= K
  PROVE  \A k \in 0 .. K : T[k] \subseteq DOMAIN depth
<1> USE DEF WalkInv
<1> DEFINE good == {k \in 0 .. K : T[k] \subseteq DOMAIN depth}
<1>1. 0 \in good /\ good \in SUBSET Nat
  BY DEF Withins, FoundInv
<1>2. ASSUME NEW k \in 1 .. K, k - 1 \in good PROVE k \in good
  <2>1. T[k] = T[k - 1] \cup Importers(edges, T[k - 1]) /\ k - 1 \in 0 .. NFiles
    BY DEF Withins
  <2>2. ASSUME NEW e \in edges, e[2] \in T[k - 1] PROVE e[1] \in DOMAIN depth
    <3>1. e[2] \in DOMAIN depth
      BY <1>2, <2>2
    <3>2. PICK d \in Nat : d = depth[e[2]]
      BY <3>1 DEF WalkTypes
    <3>3. ~(k - 1 < d)
      BY <2>1, <2>2, <3>1, <3>2 DEF Distances, At
    <3>4. d < K
      BY <3>3
    <3>5. ~Waiting(e[2])
      BY <3>2, <3>4 DEF Waiting
    <3>6. limit.depth \in Nat
      BY DEF WalkTypes
    <3>7. ~(d >= limit.depth)
      BY <3>4, <3>6
    <3> QED BY <3>1, <3>2, <3>5, <3>7 DEF Explored
  <2>3. Importers(edges, T[k - 1]) \subseteq DOMAIN depth
    BY <2>2 DEF Importers
  <2> QED BY <1>2, <2>1, <2>3
<1> HIDE DEF good
<1>3. 0 .. K \subseteq good
  <2>1. K \in Nat /\ \A k \in 1 .. K : k - 1 \in good => k \in good
    BY <1>2
  <2> QED BY <1>1, <2>1, UpTo
<1> QED BY <1>3 DEF good

LEMMA WalkStarts ==
  ASSUME ImpactInit
  PROVE  WalkInv
<1> USE DEF ImpactInit
<1>1. seeds \in SUBSET Files /\ DOMAIN depth = seeds /\ \A f \in seeds : depth[f] = 0
  OBVIOUS
<1>2. queue \in Seq(seeds) /\ \A f \in seeds : Waiting(f)
  BY <1>1, InOrderNames DEF Waiting
<1>3. depth \in [DOMAIN depth -> Nat]
  BY <1>1
<1>4. WalkTypes
  <2>1. 1 \in 0 .. NFiles + 1
    OBVIOUS
  <2> QED BY <1>1, <1>2, <1>3, <2>1 DEF WalkTypes
<1>5. Scanned
  <2>1. ASSUME NEW e \in imports PROVE ~(next = 0) /\ ~(e[1] < next)
    <3>1. e[1] \in Files
      OBVIOUS
    <3> QED BY <3>1 DEF Files
  <2> QED BY <1>1, <1>2, <2>1 DEF Scanned
<1>6. FoundInv
  <2>1. ASSUME NEW f \in seeds PROVE 0 < Cardinality(seeds)
    <3>1. IsFiniteSet(seeds) /\ Cardinality(seeds) \in Nat
      BY <1>1, FilesAreFinite
    <3>2. Cardinality(seeds) # 0
      BY <3>1, FS_EmptySet
    <3> QED BY <3>1, <3>2
  <2>2. limit.depth \in Nat
    OBVIOUS
  <2> QED BY <1>1, <2>1, <2>2 DEF FoundInv
<1>7. Explored
  BY <1>1, <1>2 DEF Explored
<1>8. BreadthFirst
  <2>1. \A i \in 1 .. Len(queue) : queue[i] \in seeds
    BY <1>2, ElementOfSeq
  <2> QED BY <1>1, <2>1 DEF BreadthFirst
<1>9. Distances /\ Emptied
  BY DEF Distances, Emptied
<1> QED BY <1>4, <1>5, <1>6, <1>7, <1>8, <1>9 DEF WalkInv

LEMMA ScanKeeps ==
  ASSUME WalkInv, ScanFile
  PROVE  WalkInv'
<1> USE DEF WalkInv
<1>1. /\ next \in 1 .. NFiles /\ next' = next + 1
      /\ UNCHANGED <<limit, imports, blobs, seeds, depth, queue, truncated, finished>>
      /\ edges' = IF next \in blobs THEN edges
                  ELSE edges \cup {e \in imports : e[1] = next /\ e[2] # next}
  <2>1. limit.files \in Nat
    BY DEF WalkTypes
  <2> QED BY <2>1 DEF ScanFile
<1>2. WalkTypes'
  BY <1>1 DEF WalkTypes
<1>3. Scanned'
  <2>1. \A f : Waiting(f)' <=> Waiting(f)
    BY <1>1 DEF Waiting
  <2>2. ASSUME truncated = FALSE, blobs = {}, NEW e \in imports,
               e[1] # e[2], e[1] < next + 1
        PROVE  e \in edges'
    <3>1. e[1] \in Nat
      <4>1. e[1] \in Files
        BY DEF WalkTypes
      <4> QED BY <4>1 DEF Files
    <3>2. CASE e[1] < next
      BY <1>1, <2>2, <3>2 DEF Scanned
    <3>3. CASE e[1] = next
      BY <1>1, <2>2, <3>3
    <3> QED BY <1>1, <2>2, <3>1, <3>2, <3>3
  <2>3. next > 0 /\ ~(next + 1 = 0)
    BY <1>1
  <2> QED BY <1>1, <2>1, <2>2, <2>3 DEF Scanned
<1>4. FoundInv' /\ BreadthFirst' /\ Emptied'
  BY <1>1 DEF FoundInv, BreadthFirst, Emptied
<1>5. Explored'
  <2>1. \A f \in DOMAIN depth : Waiting(f)
    BY <1>1 DEF Scanned
  <2> QED BY <1>1, <2>1 DEF Explored, Waiting
<1>6. Distances'
  BY <1>1 DEF Distances
<1> QED BY <1>2, <1>3, <1>4, <1>5, <1>6

LEMMA BuiltKeeps ==
  ASSUME WalkInv, GraphBuilt
  PROVE  WalkInv'
<1> USE DEF WalkInv
<1>1. /\ next > 0 /\ next' = 0 /\ truncated' = (next <= NFiles)
      /\ UNCHANGED <<limit, imports, blobs, seeds, edges, depth, queue, finished>>
  BY DEF GraphBuilt
<1>2. WalkTypes'
  <2>1. 0 \in 0 .. NFiles + 1 /\ truncated' \in BOOLEAN
    BY <1>1
  <2> QED BY <1>1, <2>1 DEF WalkTypes
<1>3. Scanned'
  <2>1. ASSUME truncated' = FALSE, blobs = {}, NEW e \in imports, e[1] # e[2]
        PROVE  e \in edges
    <3>1. ~(next <= NFiles)
      BY <1>1, <2>1
    <3>2. e[1] \in 1 .. NFiles /\ next \in Nat
      BY DEF WalkTypes, Files
    <3>3. e[1] < next
      BY <3>1, <3>2
    <3>4. truncated = FALSE
      BY <1>1 DEF Scanned
    <3> QED BY <2>1, <3>3, <3>4 DEF Scanned
  <2>2. ~(next' > 0)
    BY <1>1
  <2>3. imports' = imports /\ edges' = edges /\ blobs' = blobs
    BY <1>1
  <2> QED BY <2>1, <2>2, <2>3 DEF Scanned
<1>4. FoundInv' /\ BreadthFirst' /\ Explored'
  BY <1>1 DEF FoundInv, BreadthFirst, Explored, Waiting
<1>5. Emptied'
  BY <1>1 DEF Emptied, Scanned
<1>6. Distances'
  <2>1. ASSUME NEW T \in Withins(edges, seeds), NEW f \in DOMAIN depth
        PROVE  At(T, f, depth[f])
    <3>1. depth[f] = 0 /\ f \in seeds
      BY <1>1 DEF Scanned
    <3> QED BY <3>1 DEF At, Withins
  <2> QED BY <1>1, <2>1 DEF Distances
<1> QED BY <1>2, <1>3, <1>4, <1>5, <1>6

LEMMA FinishKeeps ==
  ASSUME WalkInv, Finish
  PROVE  WalkInv'
<1> USE DEF WalkInv
<1>1. /\ next = 0 /\ truncated' = (truncated \/ queue # <<>>) /\ finished' = TRUE
      /\ UNCHANGED <<limit, imports, blobs, seeds, edges, next, depth, queue>>
  BY DEF Finish
<1>2. WalkTypes'
  BY <1>1 DEF WalkTypes
<1>3. truncated' = FALSE => truncated = FALSE /\ queue = <<>>
  BY <1>1 DEF WalkTypes
<1>4. Scanned'
  BY <1>1, <1>3 DEF Scanned
<1>5. FoundInv' /\ BreadthFirst' /\ Explored' /\ Distances'
  BY <1>1 DEF FoundInv, BreadthFirst, Explored, Waiting, Distances
<1>6. Emptied'
  BY <1>1, <1>3 DEF Emptied
<1> QED BY <1>2, <1>4, <1>5, <1>6

LEMMA VisitKeeps ==
  ASSUME WalkInv, Visit
  PROVE  WalkInv'
<1> USE DEF WalkInv
<1> DEFINE D == DOMAIN depth
<1>1. /\ queue \in Seq(D) /\ D \in SUBSET Files /\ depth \in [D -> Nat]
      /\ edges \in SUBSET (Files \X Files) /\ limit.depth \in Nat
  <2>1. imports \in SUBSET (Files \X Files)
    BY DEF WalkTypes
  <2> QED BY <2>1 DEF WalkTypes
<1>2. PICK l \in Nat : l = Len(queue) /\ l > 0
  <2>1. Len(queue) \in Nat /\ Len(queue) # 0
    BY <1>1, EmptySeq, LenProperties DEF Visit
  <2> QED BY <2>1
<1>3. PICK f \in D : f = Head(queue) /\ f = queue[1]
  <2>1. Head(queue) \in D
    BY <1>1, HeadTailProperties DEF Visit
  <2>2. Head(queue) = queue[1]
    BY <1>1
  <2> QED BY <2>1, <2>2
<1>4. PICK d \in Nat : d = depth[f]
  BY <1>1
<1>5. PICK found \in SUBSET Files :
        /\ found = IF d < limit.depth THEN Unseen(f) ELSE {}
        /\ depth' = [g \in D \cup found |-> IF g \in found THEN d + 1 ELSE depth[g]]
        /\ queue' = Tail(queue) \o InOrder(found)
  <2> DEFINE F == IF d < limit.depth THEN Unseen(f) ELSE {}
  <2>1. F \in SUBSET Files
    BY <1>1 DEF Unseen
  <2>2. /\ depth' = [g \in D \cup F |-> IF g \in F THEN d + 1 ELSE depth[g]]
        /\ queue' = Tail(queue) \o InOrder(F)
    BY <1>3, <1>4 DEF Visit
  <2>3. F = IF d < limit.depth THEN Unseen(f) ELSE {}
    OBVIOUS
  <2> HIDE DEF F
  <2> QED BY <2>1, <2>2, <2>3
<1>6. /\ next = 0 /\ finished = FALSE
      /\ UNCHANGED <<limit, imports, blobs, seeds, edges, next, truncated, finished>>
  BY DEF Visit, WalkTypes
<1>7. \A g \in found :
        g \notin D /\ d < limit.depth /\ \E e \in edges : e[1] = g /\ e[2] = f
  BY <1>5 DEF Unseen
<1>8. d < limit.depth => \A e \in edges : e[2] = f => e[1] \in D \cup found
  BY <1>5 DEF Unseen
<1>9. /\ DOMAIN depth' = D \cup found
      /\ \A g \in D : depth'[g] = depth[g]
      /\ \A g \in found : depth'[g] = d + 1
  BY <1>5, <1>7
\* The queue: what waited behind f, and what was found, in this order.
<1>10. PICK n \in Nat :
        /\ n = Len(InOrder(found))
        /\ \A i \in 1 .. n : InOrder(found)[i] \in found
        /\ \A g \in found : \E i \in 1 .. n : InOrder(found)[i] = g
  BY InOrderNames, LenProperties, ElementOfSeq
<1>11. /\ Tail(queue) \in Seq(D) /\ Len(Tail(queue)) = l - 1
       /\ \A i \in 1 .. l - 1 : Tail(queue)[i] = queue[i + 1]
  BY <1>1, <1>2, HeadTailProperties DEF Visit
<1>12. /\ queue' \in Seq(D \cup found) /\ Len(queue') = (l - 1) + n
       /\ \A i \in 1 .. l - 1 : queue'[i] = queue[i + 1]
       /\ \A i \in 1 .. n : queue'[(l - 1) + i] = InOrder(found)[i]
  <2>1. Tail(queue) \in Seq(D \cup found) /\ InOrder(found) \in Seq(D \cup found)
    BY <1>11, InOrderNames, SeqMonotonic
  <2>2. /\ queue' \in Seq(D \cup found) /\ Len(queue') = (l - 1) + n
        /\ \A i \in 1 .. (l - 1) + n :
              queue'[i] = IF i <= l - 1 THEN Tail(queue)[i] ELSE InOrder(found)[i - (l - 1)]
    <3> DEFINE s == Tail(queue)
               t == InOrder(found)
    <3>1. /\ s \in Seq(D \cup found) /\ t \in Seq(D \cup found)
          /\ queue' = s \o t /\ Len(s) = l - 1 /\ Len(t) = n
      BY <1>5, <1>10, <1>11, <2>1
    <3> HIDE DEF s, t
    <3>2. /\ s \o t \in Seq(D \cup found) /\ Len(s \o t) = Len(s) + Len(t)
          /\ \A i \in 1 .. Len(s) + Len(t) :
                (s \o t)[i] = IF i <= Len(s) THEN s[i] ELSE t[i - Len(s)]
      BY <3>1, ConcatProperties, Zenon
    <3> QED BY <3>1, <3>2 DEF s, t
  <2>3. ASSUME NEW i \in 1 .. l - 1 PROVE queue'[i] = queue[i + 1]
    <3>1. i \in 1 .. (l - 1) + n /\ i <= l - 1
      OBVIOUS
    <3> QED BY <1>11, <2>2, <3>1
  <2>4. ASSUME NEW i \in 1 .. n PROVE queue'[(l - 1) + i] = InOrder(found)[i]
    <3>1. /\ (l - 1) + i \in 1 .. (l - 1) + n /\ ~((l - 1) + i <= l - 1)
          /\ ((l - 1) + i) - (l - 1) = i
      <4>1. l - 1 \in Nat
        BY <1>2
      <4> QED BY <4>1, Shifted
    <3> QED BY <2>2, <3>1
  <2> QED BY <2>2, <2>3, <2>4
<1>13. ASSUME NEW i \in 1 .. Len(queue')
       PROVE  \/ i \in 1 .. l - 1 /\ i + 1 \in 1 .. l /\ queue'[i] = queue[i + 1] /\ queue'[i] \in D
              \/ i > l - 1 /\ queue'[i] \in found
  <2>1. CASE i <= l - 1
    <3>1. i \in 1 .. l - 1 /\ i + 1 \in 1 .. l
      BY <1>12, <2>1
    <3> QED BY <1>1, <1>2, <1>12, <3>1, ElementOfSeq
  <2>2. CASE i > l - 1
    <3>1. PICK k \in 1 .. n : i = (l - 1) + k
      <4>1. i - (l - 1) \in 1 .. n /\ i = (l - 1) + (i - (l - 1))
        BY <1>12, <2>2
      <4> QED BY <4>1
    <3> QED BY <1>10, <1>12, <2>2, <3>1
  <2> QED BY <1>12, <2>1, <2>2
<1>14. ASSUME NEW g \in found PROVE Waiting(g)'
  <2>1. PICK i \in 1 .. n : InOrder(found)[i] = g
    BY <1>10
  <2>2. (l - 1) + i \in 1 .. Len(queue')
    <3>1. l - 1 \in Nat
      BY <1>2
    <3> QED BY <1>12, <3>1, Shifted
  <2> QED BY <1>12, <2>1, <2>2 DEF Waiting
<1>15. ASSUME NEW g \in D, g # f, Waiting(g) PROVE Waiting(g)'
  <2>1. PICK i \in 1 .. l : queue[i] = g
    BY <1>2, <1>15 DEF Waiting
  <2>2. i # 1
    BY <1>3, <1>15, <2>1
  <2>3. PICK k \in 1 .. l - 1 : i = k + 1
    <3>1. i - 1 \in 1 .. l - 1 /\ i = (i - 1) + 1
      BY <2>2
    <3> QED BY <3>1
  <2>4. k \in 1 .. Len(queue')
    BY <1>12
  <2> QED BY <1>12, <2>1, <2>3, <2>4 DEF Waiting
\* What waits is as far as f or one further.
<1>16. ASSUME NEW i \in 1 .. l
       PROVE  queue[i] \in D /\ d <= depth[queue[i]] /\ depth[queue[i]] <= d + 1
  <2>1. queue[i] \in D
    BY <1>1, <1>2, ElementOfSeq
  <2>2. CASE i = 1
    BY <1>3, <1>4, <2>1, <2>2
  <2>3. CASE i # 1
    <3>1. 1 \in 1 .. Len(queue) /\ i \in 1 .. Len(queue) /\ 1 < i
      BY <1>2, <2>3
    <3> QED BY <1>3, <1>4, <2>1, <3>1 DEF BreadthFirst
  <2> QED BY <2>2, <2>3
<1>17. WalkTypes'
  <2>1. D \cup found \in SUBSET Files
    BY <1>1
  <2>2. depth' \in [D \cup found -> Nat]
    BY <1>1, <1>5
  <2> QED BY <1>6, <1>9, <1>12, <2>1, <2>2 DEF WalkTypes
<1>18. Scanned' /\ Emptied'
  BY <1>6 DEF Scanned, Emptied
<1>19. FoundInv'
  <2>1. PICK c \in Nat : c = Cardinality(D)
    BY <1>1, FilesAreFinite
  <2>2. PICK m \in Nat : m = Cardinality(D \cup found)
    BY <1>1, FilesAreFinite
  <2>3. c <= m
    BY <1>1, <2>1, <2>2, FilesAreFinite, FS_Subset
  <2>4. ASSUME NEW g \in found PROVE c + 1 <= m
    <3>1. IsFiniteSet(D) /\ IsFiniteSet(D \cup found)
      BY <1>1, FilesAreFinite
    <3>2. Cardinality(D \cup {g}) = c + 1
      BY <1>7, <2>1, <3>1, FS_AddElement
    <3>3. Cardinality(D \cup {g}) <= m
      BY <2>2, <3>1, FS_Subset
    <3> QED BY <3>2, <3>3
  <2>5. ASSUME NEW g \in D \cup found PROVE depth'[g] < m /\ depth'[g] <= limit.depth
    <3>1. CASE g \in D
      BY <1>1, <1>9, <2>1, <2>3, <3>1 DEF FoundInv
    <3>2. CASE g \in found
      <4>1. d < c
        BY <1>4, <2>1 DEF FoundInv
      <4> QED BY <1>1, <1>7, <1>9, <2>4, <3>2, <4>1
    <3> QED BY <3>1, <3>2
  <2>6. seeds \subseteq D \cup found
    BY DEF FoundInv
  <2> QED BY <1>6, <1>9, <2>2, <2>5, <2>6 DEF FoundInv
<1>20. Explored'
  <2>1. ASSUME NEW g \in D \cup found
        PROVE  \/ Waiting(g)' \/ depth'[g] >= limit.depth
               \/ \A e \in edges : e[2] = g => e[1] \in D \cup found
    <3>1. CASE g \in found
      BY <1>14, <3>1
    <3>2. CASE g = f
      <4>1. d < limit.depth \/ d >= limit.depth
        BY <1>1
      <4> QED BY <1>4, <1>8, <1>9, <3>2, <4>1
    <3>3. CASE g \in D /\ g # f
      BY <1>9, <1>15, <3>3 DEF Explored
    <3> QED BY <3>1, <3>2, <3>3
  <2> QED BY <1>6, <1>9, <2>1 DEF Explored
<1>21. BreadthFirst'
  <2>1. ASSUME NEW i \in 1 .. Len(queue'), NEW j \in 1 .. Len(queue'), i < j
        PROVE  /\ depth'[queue'[i]] <= depth'[queue'[j]]
               /\ depth'[queue'[j]] <= depth'[queue'[i]] + 1
    <3>1. CASE i > l - 1
      <4>1. j > l - 1
        BY <1>12, <2>1, <3>1
      <4>2. queue'[i] \in found /\ queue'[j] \in found
        BY <1>13, <3>1, <4>1
      <4> QED BY <1>9, <4>2
    <3>2. CASE i \in 1 .. l - 1
      <4>1. i + 1 \in 1 .. l /\ queue'[i] = queue[i + 1] /\ queue'[i] \in D
        BY <1>13, <3>2
      <4>2. PICK u \in Nat : u = depth[queue[i + 1]] /\ d <= u /\ u <= d + 1
        BY <1>1, <1>16, <4>1
      <4>3. CASE j > l - 1
        <5>1. depth'[queue'[j]] = d + 1
          BY <1>9, <1>13, <4>3
        <5> QED BY <1>9, <4>1, <4>2, <5>1
      <4>4. CASE j \in 1 .. l - 1
        <5>1. j + 1 \in 1 .. l /\ queue'[j] = queue[j + 1] /\ queue'[j] \in D
          BY <1>13, <4>4
        <5>2. i + 1 \in 1 .. Len(queue) /\ j + 1 \in 1 .. Len(queue) /\ i + 1 < j + 1
          BY <1>2, <2>1, <4>1, <5>1
        <5> QED BY <1>9, <4>1, <5>1, <5>2 DEF BreadthFirst
      <4> QED BY <1>13, <4>3, <4>4
    <3> QED BY <1>13, <3>1, <3>2
  <2> QED BY <2>1 DEF BreadthFirst
<1>22. Distances'
  <2>1. ASSUME NEW T \in Withins(edges, seeds), NEW g \in D \cup found
        PROVE  At(T, g, depth'[g])
    <3>1. CASE g \in D
      BY <1>6, <1>9, <3>1 DEF Distances
    <3>2. CASE g \in found
      <4>1. d \in 0 .. NFiles /\ d + 1 \in 1 .. NFiles
        <5>1. PICK m \in Nat : m = Cardinality(D \cup found) /\ m <= NFiles
          BY <1>1, FilesAreFinite
        <5>2. d + 1 < m
          BY <1>6, <1>9, <1>19, <3>2, <5>1 DEF FoundInv
        <5> QED BY <5>1, <5>2
      <4>2. f \in T[d]
        BY <1>4, <1>6 DEF Distances, At
      <4>3. PICK e \in edges : e[1] = g /\ e[2] = f
        BY <1>7, <3>2
      <4>4. T[d + 1] = T[d] \cup Importers(edges, T[d])
        <5>1. (d + 1) - 1 = d
          OBVIOUS
        <5> QED BY <4>1, <5>1 DEF Withins
      <4>5. g \in T[d + 1]
        BY <4>2, <4>3, <4>4 DEF Importers
      <4>6. \A k \in 0 .. d : T[k] \subseteq D
        <5>1. d <= limit.depth
          BY <1>4 DEF FoundInv
        <5>2. \A i \in 1 .. Len(queue) : depth[queue[i]] >= d
          BY <1>1, <1>2, <1>16
        <5> QED BY <1>6, <4>1, <5>1, <5>2, FoundWithin
      <4>7. ASSUME NEW k \in 0 .. NFiles, k < d + 1 PROVE g \notin T[k]
        <5>1. k \in 0 .. d
          BY <4>7
        <5> QED BY <1>7, <3>2, <4>6, <5>1
      <4> QED BY <1>9, <3>2, <4>5, <4>7 DEF At
    <3> QED BY <3>1, <3>2
  <2> QED BY <1>6, <1>9, <2>1 DEF Distances
<1> QED BY <1>17, <1>18, <1>19, <1>20, <1>21, <1>22

\* The walk goes as it should, whatever its limits.
LEMMA WalkAlwaysInv == ImpactSpec => []WalkInv
<1>1. ASSUME WalkInv, [ImpactNext]_impactVars PROVE WalkInv'
  <2>1. CASE UNCHANGED impactVars
    BY <1>1, <2>1 DEF impactVars, WalkInv, WalkTypes, Scanned, FoundInv, Explored, BreadthFirst,
                      Distances, Emptied, Waiting
  <2> QED BY <1>1, <2>1, ScanKeeps, BuiltKeeps, VisitKeeps, FinishKeeps DEF ImpactNext
<1> QED BY <1>1, WalkStarts, PTL DEF ImpactSpec

\* The type invariant of an impact query.
THEOREM ImpactTypeCorrect == ImpactSpec => []ImpactTypeOK
<1>1. ASSUME WalkInv PROVE ImpactTypeOK
  <2>1. ASSUME NEW f \in DOMAIN depth PROVE depth[f] \in 0 .. limit.depth
    BY <1>1 DEF WalkInv, WalkTypes, FoundInv
  <2>2. \A i \in 1 .. Len(queue) : queue[i] \in DOMAIN depth
    BY <1>1, ElementOfSeq DEF WalkInv, WalkTypes
  <2> QED BY <1>1, <2>1, <2>2 DEF ImpactTypeOK, WalkInv, WalkTypes
<1> QED BY <1>1, WalkAlwaysInv, PTL

\* "Nobody mistakes a partial answer for a complete one" (compute_impact): for any
\* repository, seeds and limits the distances of an answer are the shortest in the
\* graph that was built, and an answer without the flag, in a repository whose
\* files could all be read, names every file that is affected within the depth
\* limit and no other.
THEOREM AnswerAlwaysHonest == ImpactSpec => []AnswerIsHonest
<1>1. ASSUME WalkInv PROVE AnswerIsHonest
  <2>1. /\ imports \in SUBSET (Files \X Files) /\ edges \in SUBSET (Files \X Files)
        /\ edges \in SUBSET imports /\ seeds \in SUBSET Files /\ limit.depth \in Nat
    <3>1. imports \in SUBSET (Files \X Files)
      BY <1>1 DEF WalkInv, WalkTypes
    <3> QED BY <1>1, <3>1 DEF WalkInv, WalkTypes
  <2>2. DepthIsDistance
    <3>1. Affected(edges) \in Withins(edges, seeds)
      BY <2>1, AffectedIsWithins
    <3> QED BY <1>1, <3>1 DEF WalkInv, Distances, At, DepthIsDistance
  <2>3. ASSUME finished, ~truncated, blobs = {}
        PROVE  DOMAIN depth = Affected(imports)[IF limit.depth < NFiles THEN limit.depth ELSE NFiles]
    <3>1. PICK K \in 0 .. NFiles : /\ K = IF limit.depth < NFiles THEN limit.depth ELSE NFiles
                                   /\ K <= limit.depth
      BY <2>1
    <3>2. PICK T \in Withins(imports, seeds) : T = Affected(imports)
      BY <2>1, AffectedIsWithins
    <3>3. next = 0
      BY <1>1, <2>3 DEF WalkInv, WalkTypes, Scanned
    <3>4. T \in Withins(edges, seeds)
      BY <1>1, <2>1, <2>3, <3>3, LoopsAddNothing DEF WalkInv, WalkTypes, Scanned
    <3>5. \A i \in 1 .. Len(queue) : depth[queue[i]] >= K
      BY <1>1, <2>3, EmptySeq DEF WalkInv, WalkTypes, Emptied
    <3>6. T[K] \subseteq DOMAIN depth
      BY <1>1, <3>1, <3>3, <3>4, <3>5, FoundWithin
    <3>7. ASSUME NEW f \in DOMAIN depth PROVE f \in T[K]
      <4>1. PICK d \in 0 .. NFiles : d = depth[f] /\ d <= K
        <5>1. PICK c \in Nat : c = Cardinality(DOMAIN depth) /\ c <= NFiles
          BY <1>1, FilesAreFinite DEF WalkInv, WalkTypes
        <5>2. depth[f] \in Nat /\ depth[f] < c /\ depth[f] <= limit.depth
          BY <1>1, <5>1 DEF WalkInv, WalkTypes, FoundInv
        <5> QED BY <2>1, <3>1, <5>1, <5>2
      <4>2. f \in T[d]
        BY <1>1, <3>3, <3>4, <4>1 DEF WalkInv, Distances, At
      <4> QED BY <3>4, <4>1, <4>2, WithinsGrow
    <3> QED BY <3>1, <3>2, <3>6, <3>7
  <2> QED BY <2>2, <2>3 DEF AnswerIsHonest, UnflaggedIsComplete
<1> QED BY <1>1, WalkAlwaysInv, PTL
=============================================================================
