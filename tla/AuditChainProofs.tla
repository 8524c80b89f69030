-------------------------- MODULE AuditChainProofs --------------------------
(***************************************************************************)
(* Theorems about AuditChain, for every set of calls, every number of      *)
(* attempts and every number of edits: the types are right, the calls      *)
(* implement EventLog, the badge is honest on a log that adopted hashing   *)
(* at some point, and a call gives up only under contention.               *)
(***************************************************************************)
EXTENDS AuditChain, SequenceTheorems, FiniteSetTheorems, TLAPS

USE CallsAssumption, AttemptsAssumption

\* Content as it was when it was hashed.
Pristine(content) == [seq |-> content.seq, call |-> content.call, edited |-> FALSE]

\* What a row number i links to when it is inserted.
LinkAt(i) ==
  IF i = 1 THEN Genesis
  ELSE IF rows[i - 1].chained THEN rows[i - 1].hash ELSE Genesis

\* Every row links to the row before it and carries the digest of what it said
\* then, and only calls of appendRunEvent leave chained rows.
RowsLinked ==
  \A i \in DOMAIN rows :
    /\ rows[i].prev = LinkAt(i)
    /\ rows[i].hash = Append(rows[i].prev, Pristine(rows[i].content))
    /\ rows[i].chained <=> rows[i].content.call \in Chained

\* A call that is about to insert holds the number and the link of a row that
\* may be taken by now, but can not have moved.
InsertsLinked ==
  \A c \in Calls :
    call[c].pc = "insert" =>
      /\ call[c].seq \in 1 .. Len(rows) + 1
      /\ call[c].prev = LinkAt(call[c].seq)

LinkedInv == TypeOK /\ RowsLinked /\ InsertsLinked

-----------------------------------------------------------------------------
(* Types *)

\* The row a call writes is one.
LEMMA NewRowTyped ==
  ASSUME TypeOK, NEW c \in Calls
  PROVE  /\ NewRow(c) \in Row
         /\ NewRow(c).content = [seq |-> call[c].seq, call |-> c, edited |-> FALSE]
         /\ NewRow(c).chained = (c \in Chained)
         /\ NewRow(c).prev = call[c].prev
         /\ NewRow(c).hash = Append(call[c].prev, NewRow(c).content)
<1> DEFINE content == [seq |-> call[c].seq, call |-> c, edited |-> FALSE]
<1>1. content \in Content /\ call[c].prev \in Digest
  BY DEF TypeOK, Call, Content
<1>2. Append(call[c].prev, content) \in Digest
  BY <1>1, AppendProperties DEF Digest
<1>3. QED BY <1>1, <1>2 DEF NewRow, Hash, Row

\* The digest of the tail is a digest.
LEMMA TailHashTyped ==
  ASSUME TypeOK
  PROVE  TailHash \in Digest /\ TailHash = LinkAt(Len(rows) + 1)
<1>1. Genesis \in Digest
  BY EmptySeq DEF Genesis, Digest
<1>2. Len(rows) \in Nat /\ (rows = <<>> <=> Len(rows) = 0)
  BY EmptySeq, LenProperties DEF TypeOK
<1>3. rows # <<>> => rows[Len(rows)] \in Row
  BY <1>2, ElementOfSeq DEF TypeOK
<1>4. QED BY <1>1, <1>2, <1>3 DEF TailHash, LinkAt, Row

\* Editing a row changes the flag of its content and nothing else.
LEMMA EditTyped ==
  ASSUME TypeOK, NEW i \in DOMAIN rows, Edit(i)
  PROVE  /\ rows' \in Seq(Row) /\ Len(rows') = Len(rows)
         /\ \A j \in DOMAIN rows :
              /\ rows'[j].chained = rows[j].chained
              /\ rows'[j].prev = rows[j].prev
              /\ rows'[j].hash = rows[j].hash
              /\ rows'[j].content.call = rows[j].content.call
              /\ Pristine(rows'[j].content) = Pristine(rows[j].content)
<1> DEFINE content == [rows[i].content EXCEPT !.edited = TRUE]
           edit == [rows[i] EXCEPT !.content = content]
<1>1. Len(rows) \in Nat /\ DOMAIN rows = 1 .. Len(rows)
  BY LenProperties DEF TypeOK
<1>2. rows[i] \in Row
  BY <1>1, ElementOfSeq DEF TypeOK
<1>3. content \in Content /\ content.seq = rows[i].content.seq
      /\ content.call = rows[i].content.call
  BY <1>2 DEF Row, Content
<1>4. /\ edit \in Row /\ edit.content = content /\ edit.chained = rows[i].chained
      /\ edit.prev = rows[i].prev /\ edit.hash = rows[i].hash
  <2> HIDE DEF content
  <2> QED BY <1>2, <1>3 DEF Row
<1>5. rows' = [rows EXCEPT ![i] = edit]
  BY DEF Edit
<1> HIDE DEF edit
<1>6. /\ rows' \in Seq(Row) /\ Len(rows') = Len(rows)
      /\ \A j \in 1 .. Len(rows) : rows'[j] = IF j = i THEN edit ELSE rows[j]
  BY <1>1, <1>4, <1>5, ExceptSeq DEF TypeOK
<1> HIDE DEF content
<1>7. QED BY <1>1, <1>3, <1>4, <1>6 DEF Pristine

\* Inserting adds the new row at the end.
LEMMA InsertTyped ==
  ASSUME TypeOK, NEW c \in Calls, Insert(c)
  PROVE  /\ TypeOK'
         /\ \/ UNCHANGED rows
            \/ /\ Len(rows') = Len(rows) + 1
               /\ \A j \in DOMAIN rows : rows'[j] = rows[j]
               /\ rows'[Len(rows) + 1] = NewRow(c)
               /\ ~Taken(call[c].seq)
<1>1. call' \in [Calls -> Call]
  <2>1. ASSUME NEW label \in CallPc, NEW tries \in Nat, Answer(c, label, tries)
        PROVE  call' \in [Calls -> Call]
    BY <2>1 DEF TypeOK, Answer, Call
  <2>2. call[c].tries \in Nat /\ call[c].tries + 1 \in Nat
    BY DEF TypeOK, Call
  <2>3. CASE ~Taken(call[c].seq)
    BY <2>1, <2>2, <2>3 DEF Insert, CallPc
  <2>4. CASE Taken(call[c].seq)
    BY <2>1, <2>2, <2>4 DEF Insert, CallPc
  <2>5. QED BY <2>3, <2>4
<1>2. CASE ~Taken(call[c].seq)
  <2>1. rows' = Append(rows, NewRow(c))
    BY <1>2 DEF Insert
  <2>2. NewRow(c) \in Row /\ rows \in Seq(Row) /\ DOMAIN rows = 1 .. Len(rows)
    BY NewRowTyped, LenProperties DEF TypeOK
  <2>3. /\ rows' \in Seq(Row) /\ Len(rows') = Len(rows) + 1
        /\ \A j \in 1 .. Len(rows) : rows'[j] = rows[j]
        /\ rows'[Len(rows) + 1] = NewRow(c)
    BY <2>1, <2>2, AppendProperties
  <2>4. TypeOK'
    BY <1>1, <2>3 DEF TypeOK, Insert
  <2>5. QED BY <1>2, <2>2, <2>3, <2>4
<1>3. CASE Taken(call[c].seq)
  BY <1>1, <1>3 DEF TypeOK, Insert
<1>4. QED BY <1>2, <1>3

\* The type invariant holds at first and every step keeps it.
LEMMA TypeInit == Init => TypeOK
<1>1. Genesis \in Digest /\ <<>> \in Seq(Row)
  BY EmptySeq DEF Genesis, Digest
<1>2. QED BY <1>1 DEF Init, TypeOK, Call, CallPc

LEMMA TypeStep == TypeOK /\ [Next]_vars => TypeOK'
<1> SUFFICES ASSUME TypeOK, [Next]_vars PROVE TypeOK'
  OBVIOUS
<1>1. ASSUME NEW c \in Calls, Start(c) PROVE TypeOK'
  <2>1. Genesis \in Digest /\ Len(rows) \in Nat
    BY EmptySeq, LenProperties DEF Genesis, Digest, TypeOK
  <2>2. QED BY <1>1, <2>1 DEF TypeOK, Start, Call, CallPc
<1>2. ASSUME NEW c \in Calls, ReadTail(c) PROVE TypeOK'
  <2>1. Len(rows) + 1 \in Nat /\ TailHash \in Digest
    BY TailHashTyped, LenProperties DEF TypeOK
  <2>2. QED BY <1>2, <2>1 DEF TypeOK, ReadTail, Call, CallPc
<1>3. ASSUME NEW c \in Calls, Insert(c) PROVE TypeOK'
  BY <1>3, InsertTyped
<1>4. ASSUME NEW i \in DOMAIN rows, Edit(i) PROVE TypeOK'
  BY <1>4, EditTyped DEF TypeOK, Edit
<1>5. CASE UNCHANGED vars
  BY <1>5 DEF vars, TypeOK
<1>6. QED BY <1>1, <1>2, <1>3, <1>4, <1>5 DEF Next

\* The log, the calls and their counters keep their types.
THEOREM TypeCorrect == Spec => []TypeOK
<1>1. QED BY TypeInit, TypeStep, PTL DEF Spec

-----------------------------------------------------------------------------
(* The calls implement EventLog *)

\* The log seen by EventLog.
Recorded == [i \in DOMAIN rows |-> rows[i].content.call]
AnswerTo(c) == IF call[c].pc \in {"recorded", "refused"} THEN call[c].pc ELSE "open"

\* A step that leaves the answers and the calls of the rows alone is a stutter.
LEMMA Stutters ==
  ASSUME DOMAIN rows' = DOMAIN rows,
         \A i \in DOMAIN rows : rows'[i].content.call = rows[i].content.call,
         \A c \in Calls : AnswerTo(c)' = AnswerTo(c)
  PROVE  UNCHANGED Log!logVars
  BY DEF Recorded, AnswerTo, Log!logVars

\* An insert that commits adds the call's event, once, at the end.
LEMMA InsertAdds ==
  ASSUME TypeOK, NEW c \in Calls, Insert(c), ~Taken(call[c].seq)
  PROVE  Recorded' = Append(Recorded, c)
<1>1. /\ rows' = Append(rows, NewRow(c)) /\ NewRow(c) \in Row
      /\ NewRow(c).content.call = c
  <2>1. rows' = Append(rows, NewRow(c))
    BY DEF Insert
  <2>2. NewRow(c) \in Row
        /\ NewRow(c).content = [seq |-> call[c].seq, call |-> c, edited |-> FALSE]
    BY NewRowTyped
  <2>3. QED BY <2>1, <2>2
<1>2. /\ rows \in Seq(Row) /\ Len(rows) \in Nat /\ DOMAIN rows = 1 .. Len(rows)
  BY LenProperties DEF TypeOK
<1>3. /\ rows' \in Seq(Row) /\ Len(rows') = Len(rows) + 1
      /\ \A i \in 1 .. Len(rows) : rows'[i] = rows[i]
      /\ rows'[Len(rows) + 1] = NewRow(c)
  BY <1>1, <1>2, AppendProperties
<1>4. DOMAIN rows' = 1 .. Len(rows) + 1
  BY <1>3, LenProperties
<1>5. \A i \in 1 .. Len(rows) : rows[i].content.call \in Calls
  <2>1. SUFFICES ASSUME NEW i \in 1 .. Len(rows) PROVE rows[i].content.call \in Calls
    OBVIOUS
  <2>2. rows[i] \in Row
    BY <1>2, ElementOfSeq
  <2>3. QED BY <2>2 DEF Row, Content
<1>6. /\ Recorded \in Seq(Calls) /\ Len(Recorded) = Len(rows)
      /\ \A i \in 1 .. Len(rows) : Recorded[i] = rows[i].content.call
  <2>1. Recorded = [i \in 1 .. Len(rows) |-> rows[i].content.call]
    BY <1>2 DEF Recorded
  <2>2. Recorded \in Seq(Calls)
    BY <1>2, <1>5, <2>1, IsASeq
  <2>3. QED BY <1>2, <2>1, <2>2, LenProperties
<1>7. Recorded' = [i \in 1 .. Len(rows) + 1 |-> rows'[i].content.call]
  BY <1>4 DEF Recorded
<1>8. \A i \in 1 .. Len(rows) + 1 :
        rows'[i].content.call = IF i \in 1 .. Len(rows) THEN Recorded[i] ELSE c
  BY <1>1, <1>2, <1>3, <1>6
<1>9. /\ Append(Recorded, c) \in Seq(Calls)
      /\ Len(Append(Recorded, c)) = Len(rows) + 1
      /\ \A i \in 1 .. Len(rows) : Append(Recorded, c)[i] = Recorded[i]
      /\ Append(Recorded, c)[Len(rows) + 1] = c
  BY <1>6, AppendProperties
<1>10. Recorded' \in Seq(Calls)
  BY <1>2, <1>6, <1>7, <1>8, IsASeq
<1>11. Len(Recorded') = Len(rows) + 1
  BY <1>2, <1>7, <1>10, LenProperties
<1>12. \A i \in 1 .. Len(rows) + 1 : Recorded'[i] = Append(Recorded, c)[i]
  BY <1>2, <1>7, <1>8, <1>9
<1> DEFINE after == Recorded'
<1> HIDE DEF after
<1>13. /\ after \in Seq(Calls) /\ Len(after) = Len(Append(Recorded, c))
       /\ \A i \in 1 .. Len(after) : after[i] = Append(Recorded, c)[i]
  BY <1>9, <1>10, <1>11, <1>12 DEF after
<1>14. after = Append(Recorded, c)
  BY <1>9, <1>13, SeqEqual
<1>15. QED BY <1>14 DEF after

\* Every step of the calls is a step of EventLog or leaves it alone.
LEMMA StepMaps == TypeOK /\ [Next]_vars => [Log!Next]_Log!logVars
<1> SUFFICES ASSUME TypeOK, [Next]_vars PROVE [Log!Next]_Log!logVars
  OBVIOUS
<1> DEFINE answers == [c \in Calls |-> AnswerTo(c)]
<1>1. ASSUME NEW c \in Calls, Start(c) PROVE UNCHANGED Log!logVars
  BY <1>1, Stutters DEF Start, AnswerTo, TypeOK
<1>2. ASSUME NEW c \in Calls, ReadTail(c) PROVE UNCHANGED Log!logVars
  BY <1>2, Stutters DEF ReadTail, AnswerTo, TypeOK
<1>3. ASSUME NEW c \in Calls, Insert(c) PROVE [Log!Next]_Log!logVars
  <2>1. AnswerTo(c) = "open"
    BY <1>3 DEF Insert, AnswerTo
  <2>2. ASSUME NEW label \in {"recorded", "refused"}, NEW tries, Answer(c, label, tries)
        PROVE  answers' = [answers EXCEPT ![c] = label]
    BY <2>2 DEF Answer, AnswerTo, TypeOK
  <2>3. CASE ~Taken(call[c].seq)
    <3>1. Recorded' = Append(Recorded, c)
      BY <1>3, <2>3, InsertAdds
    <3>2. answers' = [answers EXCEPT ![c] = "recorded"]
      BY <1>3, <2>2, <2>3 DEF Insert
    <3>3. Log!Add(c)
      BY <2>1, <3>1, <3>2 DEF Log!Add, Recorded, AnswerTo
    <3>4. QED BY <3>3 DEF Log!Next
  <2>4. CASE Taken(call[c].seq) /\ call[c].tries + 1 < Attempts(c)
    <3>1. rows' = rows /\ Answer(c, "read", call[c].tries + 1)
      BY <1>3, <2>4 DEF Insert
    <3>2. UNCHANGED Log!logVars
      BY <1>3, <3>1, Stutters DEF Insert, Answer, AnswerTo, TypeOK
    <3>3. QED BY <3>2
  <2>5. CASE Taken(call[c].seq) /\ ~(call[c].tries + 1 < Attempts(c))
    <3>1. rows' = rows /\ Answer(c, "refused", call[c].tries + 1)
      BY <1>3, <2>5 DEF Insert
    <3>2. answers' = [answers EXCEPT ![c] = "refused"]
      BY <2>2, <3>1
    <3>3. Log!Refuse(c)
      BY <2>1, <3>1, <3>2 DEF Log!Refuse, AnswerTo
    <3>4. QED BY <3>3 DEF Log!Next
  <2>6. QED BY <2>3, <2>4, <2>5
<1>4. ASSUME NEW i \in DOMAIN rows, Edit(i) PROVE UNCHANGED Log!logVars
  <2>1. DOMAIN rows' = DOMAIN rows
    BY <1>4 DEF Edit
  <2>2. QED BY <1>4, <2>1, EditTyped, Stutters DEF Edit, AnswerTo
<1>5. ASSUME UNCHANGED vars PROVE UNCHANGED Log!logVars
  BY <1>5, Stutters DEF vars, AnswerTo
<1>6. QED BY <1>1, <1>2, <1>3, <1>4, <1>5 DEF Next

\* Each call adds one event at the end of the log, once, or none at all: the
\* calls of appendRunEvent implement EventLog.
THEOREM CallsImplementEventLog == Spec => ImplementsEventLog
<1>1. Init => Log!Init
  BY EmptySeq DEF Init, Log!Init
<1>2. QED BY <1>1, StepMaps, TypeCorrect, PTL DEF Spec, ImplementsEventLog, Log!Spec

-----------------------------------------------------------------------------
(* The chain *)

\* A step that adds at most the row the inserting call holds leaves the links
\* of all rows as they are.
LEMMA LinksStay ==
  ASSUME TypeOK, NEW i \in 1 .. Len(rows) + 1,
         \A j \in DOMAIN rows : rows'[j].chained = rows[j].chained /\ rows'[j].hash = rows[j].hash
  PROVE  LinkAt(i)' = LinkAt(i)
<1>1. DOMAIN rows = 1 .. Len(rows) /\ Len(rows) \in Nat
  BY LenProperties DEF TypeOK
<1>2. i # 1 => i - 1 \in DOMAIN rows
  BY <1>1
<1>3. QED BY <1>2 DEF LinkAt

LEMMA LinkedInit == Init => LinkedInv
<1>1. SUFFICES ASSUME Init PROVE LinkedInv
  OBVIOUS
<1>2. RowsLinked
  BY <1>1, EmptySeq DEF Init, RowsLinked
<1>3. InsertsLinked
  BY <1>1 DEF Init, InsertsLinked
<1>4. QED BY <1>1, <1>2, <1>3, TypeInit DEF LinkedInv

LEMMA LinkedStep == LinkedInv /\ [Next]_vars => LinkedInv'
<1> SUFFICES ASSUME LinkedInv, [Next]_vars PROVE LinkedInv'
  OBVIOUS
<1>1. TypeOK /\ TypeOK' /\ RowsLinked /\ InsertsLinked
  BY TypeStep DEF LinkedInv
<1>2. Len(rows) \in Nat /\ DOMAIN rows = 1 .. Len(rows)
  BY <1>1, LenProperties DEF TypeOK
<1>3. ASSUME NEW c \in Calls, Start(c) PROVE RowsLinked' /\ InsertsLinked'
  BY <1>1, <1>3 DEF Start, RowsLinked, InsertsLinked, LinkAt, TypeOK
<1>4. ASSUME NEW c \in Calls, ReadTail(c) PROVE RowsLinked' /\ InsertsLinked'
  <2>1. RowsLinked'
    BY <1>1, <1>4 DEF ReadTail, RowsLinked, LinkAt
  <2>2. TailHash = LinkAt(Len(rows) + 1) /\ Len(rows) + 1 \in 1 .. Len(rows) + 1
    BY <1>1, <1>2, TailHashTyped
  <2>3. InsertsLinked'
    BY <1>1, <1>4, <2>2 DEF ReadTail, InsertsLinked, LinkAt, TypeOK
  <2>4. QED BY <2>1, <2>3
<1>5. ASSUME NEW c \in Calls, Insert(c) PROVE RowsLinked' /\ InsertsLinked'
  <2>1. \A d \in Calls : call'[d].pc = "insert" => call[d].pc = "insert" /\ call'[d] = call[d]
    BY <1>1, <1>5 DEF Insert, Answer, TypeOK
  <2>2. CASE UNCHANGED rows
    BY <1>1, <2>1, <2>2 DEF RowsLinked, InsertsLinked, LinkAt
  <2>3. CASE /\ Len(rows') = Len(rows) + 1
             /\ \A j \in DOMAIN rows : rows'[j] = rows[j]
             /\ rows'[Len(rows) + 1] = NewRow(c)
             /\ ~Taken(call[c].seq)
    <3>1. \A i \in 1 .. Len(rows) + 1 : LinkAt(i)' = LinkAt(i)
      BY <1>1, <2>3, LinksStay
    <3>2. InsertsLinked'
      BY <1>1, <1>2, <2>1, <2>3, <3>1 DEF InsertsLinked
    <3>3. DOMAIN rows' = 1 .. Len(rows) + 1
      BY <1>1, <2>3, LenProperties DEF TypeOK
    <3>4. call[c].seq = Len(rows) + 1 /\ call[c].prev = LinkAt(Len(rows) + 1)
      BY <1>1, <1>2, <1>5, <2>3 DEF InsertsLinked, Insert, Taken
    <3>5. /\ NewRow(c).prev = LinkAt(Len(rows) + 1)
          /\ NewRow(c).hash = Append(NewRow(c).prev, Pristine(NewRow(c).content))
          /\ NewRow(c).chained <=> NewRow(c).content.call \in Chained
      <4>1. /\ NewRow(c).content = [seq |-> call[c].seq, call |-> c, edited |-> FALSE]
            /\ NewRow(c).chained = (c \in Chained)
            /\ NewRow(c).prev = call[c].prev
            /\ NewRow(c).hash = Append(call[c].prev, NewRow(c).content)
        BY <1>1, NewRowTyped
      <4>2. NewRow(c).content.call = c /\ Pristine(NewRow(c).content) = NewRow(c).content
        BY <4>1 DEF Pristine
      <4>3. QED BY <3>4, <4>1, <4>2
    <3>6. SUFFICES ASSUME NEW i \in 1 .. Len(rows) + 1
                   PROVE  /\ rows'[i].prev = LinkAt(i)'
                          /\ rows'[i].hash = Append(rows'[i].prev, Pristine(rows'[i].content))
                          /\ rows'[i].chained <=> rows'[i].content.call \in Chained
      BY <3>2, <3>3 DEF RowsLinked
    <3>7. CASE i = Len(rows) + 1
      BY <2>3, <3>1, <3>5, <3>7
    <3>8. CASE i \in DOMAIN rows
      BY <1>1, <2>3, <3>1, <3>8 DEF RowsLinked
    <3>9. QED BY <1>2, <3>7, <3>8
  <2>4. QED BY <1>1, <1>5, <2>2, <2>3, InsertTyped
<1>6. ASSUME NEW i \in DOMAIN rows, Edit(i) PROVE RowsLinked' /\ InsertsLinked'
  <2>1. /\ Len(rows') = Len(rows) /\ DOMAIN rows' = DOMAIN rows
        /\ \A j \in DOMAIN rows :
             /\ rows'[j].chained = rows[j].chained
             /\ rows'[j].prev = rows[j].prev
             /\ rows'[j].hash = rows[j].hash
             /\ rows'[j].content.call = rows[j].content.call
             /\ Pristine(rows'[j].content) = Pristine(rows[j].content)
    BY <1>1, <1>6, EditTyped DEF Edit
  <2>2. \A j \in 1 .. Len(rows) + 1 : LinkAt(j)' = LinkAt(j)
    BY <1>1, <2>1, LinksStay
  <2>3. RowsLinked'
    <3>1. SUFFICES ASSUME NEW j \in DOMAIN rows
                   PROVE  /\ rows'[j].prev = LinkAt(j)'
                          /\ rows'[j].hash = Append(rows'[j].prev, Pristine(rows'[j].content))
                          /\ rows'[j].chained <=> rows'[j].content.call \in Chained
      BY <2>1 DEF RowsLinked
    <3>2. /\ rows[j].prev = LinkAt(j)
          /\ rows[j].hash = Append(rows[j].prev, Pristine(rows[j].content))
          /\ rows[j].chained <=> rows[j].content.call \in Chained
      BY <1>1 DEF RowsLinked
    <3>3. LinkAt(j)' = LinkAt(j)
      BY <1>2, <2>2
    <3>4. QED BY <2>1, <3>2, <3>3
  <2>4. InsertsLinked'
    BY <1>1, <1>6, <2>1, <2>2 DEF InsertsLinked, Edit
  <2>5. QED BY <2>3, <2>4
<1>7. ASSUME UNCHANGED vars PROVE RowsLinked' /\ InsertsLinked'
  <2>1. rows' = rows /\ call' = call
    BY <1>7 DEF vars
  <2>2. QED BY <1>1, <2>1 DEF RowsLinked, InsertsLinked, LinkAt
<1>8. QED BY <1>1, <1>3, <1>4, <1>5, <1>6, <1>7 DEF Next, LinkedInv

LEMMA AlwaysLinked == Spec => []LinkedInv
<1>1. QED BY LinkedInit, LinkedStep, PTL DEF Spec

\* While plain rows only precede chained ones, the digest the verifier carries
\* when it comes to a chained row is the one that row links to.
LEMMA RunningHashIsLink ==
  ASSUME LinkedInv, PlainFirst, NEW i \in DOMAIN rows, rows[i].chained
  PROVE  RunningHash(i) = LinkAt(i)
<1> DEFINE before == {j \in 1 .. i - 1 : rows[j].chained}
<1>1. Len(rows) \in Nat /\ DOMAIN rows = 1 .. Len(rows)
  BY LenProperties DEF LinkedInv, TypeOK
<1>2. CASE i # 1 /\ rows[i - 1].chained
  <2>1. i - 1 \in before /\ \A j \in before : i - 1 >= j
    BY <1>1, <1>2
  <2>2. \A x \in before : (\A y \in before : x >= y) => x = i - 1
    BY <1>1, <1>2, <2>1
  <2>3. Max(before) = i - 1 /\ before # {}
    <3> HIDE DEF before
    <3> QED BY <2>1, <2>2 DEF Max
  <2>4. QED BY <1>2, <2>3 DEF RunningHash, LinkAt
<1>3. CASE i = 1 \/ ~rows[i - 1].chained
  <2>1. before = {}
    BY <1>1, <1>3 DEF PlainFirst
  <2>2. QED BY <1>3, <2>1 DEF RunningHash, LinkAt
<1>4. QED BY <1>2, <1>3

\* Such a row verifies unless it was edited: its digest was taken over what it
\* said when it was written.
LEMMA VerifiesUnlessEdited ==
  ASSUME LinkedInv, PlainFirst, NEW i \in DOMAIN rows, rows[i].chained
  PROVE  Verifies(i) <=> i \notin Edited
<1>1. /\ rows[i].prev = LinkAt(i)
      /\ rows[i].hash = Append(rows[i].prev, Pristine(rows[i].content))
  BY DEF LinkedInv, RowsLinked
<1>2. rows[i] \in Row
  BY ElementOfSeq, LenProperties DEF LinkedInv, TypeOK
<1>3. /\ rows[i].prev \in Seq(Content) /\ rows[i].content \in Content
      /\ Pristine(rows[i].content) \in Content
  BY <1>2 DEF Row, Digest, Content, Pristine
<1>4. rows[i].hash = Append(rows[i].prev, rows[i].content)
        <=> rows[i].content = Pristine(rows[i].content)
  BY <1>1, <1>3, AppendInjective
<1>5. rows[i].content = Pristine(rows[i].content) <=> ~rows[i].content.edited
  BY <1>3 DEF Content, Pristine
<1>6. RunningHash(i) = rows[i].prev
  BY <1>1, RunningHashIsLink
<1>7. QED BY <1>4, <1>5, <1>6 DEF Verifies, Hash, Edited

\* A log that adopted hashing at some point verifies if and only if none of its
\* chained rows was edited, whatever calls raced for its tail.
THEOREM BadgeTellsTheTruth == Spec => []BadgeIsHonest
<1>1. ASSUME LinkedInv, PlainFirst
      PROVE  Valid <=> \A i \in Edited : ~rows[i].chained
  <2>1. \A i \in DOMAIN rows : rows[i].chained => (Verifies(i) <=> i \notin Edited)
    BY <1>1, VerifiesUnlessEdited
  <2>2. \A i \in DOMAIN rows : ~rows[i].chained => Verifies(i)
    BY DEF Verifies
  <2>3. Edited \subseteq DOMAIN rows
    BY DEF Edited
  <2>4. QED BY <2>1, <2>2, <2>3 DEF Valid
<1>2. LinkedInv => BadgeIsHonest
  BY <1>1 DEF BadgeIsHonest
<1>3. QED BY <1>2, AlwaysLinked, PTL

-----------------------------------------------------------------------------
(* Giving up *)

\* Each number a call found taken was taken by an event recorded since the
\* call was made, and each attempt aims behind the last.
Counted ==
  \A c \in Calls :
    /\ call[c].pc \in {"read", "insert"} => Len(rows) >= begun[c] + call[c].tries
    /\ call[c].pc = "insert" => call[c].seq > begun[c] + call[c].tries
    /\ call[c].pc = "refused" => Len(rows) >= begun[c] + Attempts(c)

LEMMA CountedStep == TypeOK /\ Counted /\ [Next]_vars => Counted'
<1> SUFFICES ASSUME TypeOK, Counted, [Next]_vars PROVE Counted'
  OBVIOUS
<1>1. /\ Len(rows) \in Nat
      /\ \A c \in Calls : /\ begun[c] \in Nat /\ call[c].tries \in Nat
                          /\ call[c].seq \in Nat /\ Attempts(c) \in Nat
  BY LenProperties DEF TypeOK, Call, Attempts
<1>2. ASSUME NEW c \in Calls, Start(c) PROVE Counted'
  BY <1>1, <1>2 DEF Start, Counted, TypeOK, Attempts
<1>3. ASSUME NEW c \in Calls, ReadTail(c) PROVE Counted'
  BY <1>1, <1>3 DEF ReadTail, Counted, TypeOK, Attempts
<1>4. ASSUME NEW c \in Calls, Insert(c) PROVE Counted'
  <2>1. Len(rows') >= Len(rows) /\ Len(rows') \in Nat
    BY <1>1, <1>4, InsertTyped
  <2>2. UNCHANGED begun /\ call[c].pc = "insert"
    BY <1>4 DEF Insert
  <2>3. ASSUME NEW d \in Calls, d # c, call'[d] = call[d]
        PROVE  /\ call'[d].pc \in {"read", "insert"} => Len(rows') >= begun[d] + call'[d].tries
               /\ call'[d].pc = "insert" => call'[d].seq > begun[d] + call'[d].tries
               /\ call'[d].pc = "refused" => Len(rows') >= begun[d] + Attempts(d)
    BY <1>1, <2>1, <2>3 DEF Counted
  <2>4. CASE ~Taken(call[c].seq)
    <3>1. Answer(c, "recorded", call[c].tries)
      BY <1>4, <2>4 DEF Insert
    <3>2. QED BY <2>2, <2>3, <3>1 DEF Answer, Counted, TypeOK, Attempts
  <2>5. CASE Taken(call[c].seq)
    <3>1. /\ UNCHANGED rows
          /\ Answer(c, IF call[c].tries + 1 < Attempts(c) THEN "read" ELSE "refused",
                    call[c].tries + 1)
      BY <1>4, <2>5 DEF Insert
    <3>2. Len(rows) >= begun[c] + call[c].tries + 1
      BY <1>1, <2>2, <2>5 DEF Counted, Taken
    <3>3. call[c].tries + 1 < Attempts(c) \/ Len(rows) >= begun[c] + Attempts(c)
      <4>1. call[c].tries < Attempts(c) \/ Len(rows) >= begun[c] + Attempts(c)
        BY <1>1, <3>2
      <4>2. QED BY <1>1, <3>2
    <3>4. QED BY <1>1, <2>2, <2>3, <3>1, <3>2, <3>3 DEF Answer, Counted, TypeOK, Attempts
  <2>6. QED BY <2>4, <2>5
<1>5. ASSUME NEW i \in DOMAIN rows, Edit(i) PROVE Counted'
  BY <1>5, EditTyped DEF Edit, Counted, Attempts
<1>6. CASE UNCHANGED vars
  BY <1>6 DEF vars, Counted, Attempts
<1>7. QED BY <1>2, <1>3, <1>4, <1>5, <1>6 DEF Next

\* A call that gave up met, since it was made, as many new events as it has
\* attempts: losing one race never loses an event.
THEOREM GivesUpUnderContention == Spec => []RefusedOnlyUnderContention
<1>1. Init => Counted
  BY EmptySeq DEF Init, Counted
<1>2. TypeOK /\ Counted => RefusedOnlyUnderContention
  <2>1. ASSUME TypeOK PROVE /\ Len(rows) \in Nat
                            /\ \A c \in Calls : begun[c] \in Nat /\ Attempts(c) \in Nat
    BY <2>1, LenProperties DEF TypeOK, Attempts
  <2>2. QED BY <2>1 DEF Counted, RefusedOnlyUnderContention
<1>3. QED BY <1>1, <1>2, CountedStep, TypeCorrect, PTL DEF Spec
=============================================================================
