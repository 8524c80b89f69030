----------------------------- MODULE AuditChain -----------------------------
(***************************************************************************)
(* The tamper-evident log of one run (src/lib/audit/index.ts and           *)
(* hash-chain.ts): concurrent calls of appendRunEvent, each a transaction  *)
(* under READ COMMITTED that reads the tail and inserts behind it, the     *)
(* writers that share the table without hashing, rows that are edited      *)
(* afterwards, and the verifier.                                           *)
(*                                                                         *)
(* A digest stands for the sequence of everything hashed into it, so two   *)
(* digests are equal only when the same contents were hashed in the same   *)
(* order: SHA-256 without collisions.                                      *)
(***************************************************************************)
EXTENDS Integers, Sequences, FiniteSets, FiniteSetsExt

CONSTANTS
  Calls,        \* the calls that record an event of this run
  Chained,      \* those that go through appendRunEvent
  MaxAttempts,  \* MAX_SEQUENCE_ATTEMPTS: tries before appendRunEvent gives up
  MaxEdits      \* bound: rows edited after they were written

ASSUME CallsAssumption == Chained \subseteq Calls
ASSUME AttemptsAssumption == MaxAttempts \in Nat \ {0} /\ MaxEdits \in Nat

VARIABLES
  rows,   \* the RunEvent rows, in sequence order; row i has sequence i
  call,   \* the locals of each call
  begun   \* the length of the log when the call was made

vars == <<rows, call, begun>>

\* What is hashed: canonicalEventPayload, with the payload reduced to the call
\* it came from and whether it was edited since.
Content == [seq : Nat, call : Calls, edited : BOOLEAN]

Digest == Seq(Content)
Genesis == <<>>                                   \* GENESIS_HASH
Hash(previous, content) == Append(previous, content)  \* computeEventHash

\* A row without an eventHash is not chained; its prev and hash say nothing.
Row == [content : Content, chained : BOOLEAN, prev : Digest, hash : Digest]

CallPc == {"idle", "read", "insert", "recorded", "refused"}
Call == [pc : CallPc, seq : Nat, prev : Digest, tries : Nat]

TypeOK ==
  /\ rows \in Seq(Row)
  /\ call \in [Calls -> Call]
  /\ begun \in [Calls -> Nat]

\* Rows written without a hash, and callers that do not retry: appendEventTx
\* and the other writers of RunEvent give up at the first unique violation.
Attempts(c) == IF c \in Chained THEN MaxAttempts ELSE 1

Init ==
  /\ rows = <<>>
  /\ call = [c \in Calls |-> [pc |-> "idle", seq |-> 0, prev |-> Genesis, tries |-> 0]]
  /\ begun = [c \in Calls |-> 0]

\* A handler or a driver calls appendRunEvent, or writes a plain event.
Start(c) ==
  /\ call[c].pc = "idle"
  /\ call' = [call EXCEPT ![c] = [pc |-> "read", seq |-> 0, prev |-> Genesis, tries |-> 0]]
  /\ begun' = [begun EXCEPT ![c] = Len(rows)]
  /\ UNCHANGED rows

\* The digest of the last row, or GENESIS_HASH when there is none on record.
TailHash ==
  IF rows = <<>> THEN Genesis
  ELSE IF rows[Len(rows)].chained THEN rows[Len(rows)].hash ELSE Genesis

\* Faulty variant: the tail's number is decremented, as if rows were listed
\* newest first.
ReadTailBackwards(c) ==
  /\ call[c].pc = "read"
  /\ call' = [call EXCEPT ![c] = [pc |-> "insert", seq |-> Len(rows) - 1,
                                  prev |-> TailHash, tries |-> call[c].tries]]
  /\ UNCHANGED <<rows, begun>>

\* findFirst, ordered by sequence, descending: the next number and the digest
\* to link to.
ReadTail(c) ==
  /\ call[c].pc = "read"
  /\ call' = [call EXCEPT ![c] = [pc |-> "insert", seq |-> Len(rows) + 1,
                                  prev |-> TailHash, tries |-> call[c].tries]]
  /\ UNCHANGED <<rows, begun>>

NewRow(c) ==
  LET content == [seq |-> call[c].seq, call |-> c, edited |-> FALSE]
  IN [content |-> content, chained |-> c \in Chained, prev |-> call[c].prev,
      hash |-> Hash(call[c].prev, content)]

\* (runId, sequence) is unique, so the number may be taken by now.
Taken(seq) == seq <= Len(rows)

Answer(c, label, tries) ==
  call' = [call EXCEPT ![c] = [pc |-> label, seq |-> call[c].seq,
                               prev |-> call[c].prev, tries |-> tries]]

\* Faulty variant: a taken number is inserted again, with the tail read before.
InsertStale(c) ==
  /\ call[c].pc = "insert"
  /\ IF Taken(call[c].seq) THEN UNCHANGED <<rows, call>>
     ELSE rows' = Append(rows, NewRow(c)) /\ Answer(c, "recorded", call[c].tries)
  /\ UNCHANGED begun

\* Faulty variant: every error is a sequence race, also the call's own success.
InsertTwice(c) ==
  /\ call[c].pc = "insert"
  /\ IF Taken(call[c].seq) THEN Answer(c, "read", 0) /\ UNCHANGED rows
     ELSE rows' = Append(rows, NewRow(c)) /\ Answer(c, "read", call[c].tries)
  /\ UNCHANGED begun

\* Faulty variant: one attempt less than the caller was promised.
InsertImpatient(c) ==
  /\ call[c].pc = "insert"
  /\ IF Taken(call[c].seq) THEN Answer(c, "refused", call[c].tries) /\ UNCHANGED rows
     ELSE rows' = Append(rows, NewRow(c)) /\ Answer(c, "recorded", call[c].tries)
  /\ UNCHANGED begun

\* The insert commits, or the number is taken: try again from a fresh tail, or
\* give up after the last attempt.
Insert(c) ==
  /\ call[c].pc = "insert"
  /\ IF ~Taken(call[c].seq)
     THEN rows' = Append(rows, NewRow(c)) /\ Answer(c, "recorded", call[c].tries)
     ELSE /\ UNCHANGED rows
          /\ Answer(c, IF call[c].tries + 1 < Attempts(c) THEN "read" ELSE "refused",
                    call[c].tries + 1)
  /\ UNCHANGED begun

\* An UPDATE changes a row's content; nothing recomputes the digests.
Edited == {i \in DOMAIN rows : rows[i].content.edited}
Edit(i) ==
  /\ i \in DOMAIN rows \ Edited
  /\ Cardinality(Edited) < MaxEdits
  /\ rows' = [rows EXCEPT ![i].content.edited = TRUE]
  /\ UNCHANGED <<call, begun>>

Next ==
  \/ \E c \in Calls : Start(c) \/ ReadTail(c) \/ Insert(c)
  \/ \E i \in DOMAIN rows : Edit(i)

Spec == Init /\ [][Next]_vars

\* A handler that has started runs to its end.
FairSpec == Spec /\ \A c \in Calls : WF_vars(ReadTail(c) \/ Insert(c))

-----------------------------------------------------------------------------
(* The verifier *)

\* verifyChain's running digest when it comes to row i: that of the last
\* chained row before it.
RunningHash(i) ==
  LET before == {j \in 1 .. i - 1 : rows[j].chained}
  IN IF before = {} THEN Genesis ELSE rows[Max(before)].hash

\* Faulty variant: only the links are compared, no content is hashed again.
VerifiesLinks(i) == rows[i].chained => rows[i].prev = RunningHash(i)

\* One turn of verifyChain's loop; it stops at the first row that fails.
Verifies(i) ==
  rows[i].chained =>
    /\ rows[i].prev = RunningHash(i)
    /\ rows[i].hash = Hash(RunningHash(i), rows[i].content)

\* verifyChain reports valid.
Valid == \A i \in DOMAIN rows : Verifies(i)

-----------------------------------------------------------------------------
(* Properties *)

\* No plain row follows a chained one: the log of a run that adopted hashing at
\* some point, or always had it (hash-chain.ts:125-131).
PlainFirst ==
  \A i, j \in DOMAIN rows : i < j /\ rows[i].chained => rows[j].chained

\* On such a log the badge tells the truth in both directions: as long as no
\* chained row was edited it verifies, however many calls raced for its tail
\* and whatever lay before; and one edited chained row fails it for good.
BadgeIsHonest ==
  PlainFirst => (Valid <=> \A i \in Edited : ~rows[i].chained)

\* appendRunEvent gives up only under contention: since it was called, at least
\* as many events were recorded as it made attempts.
RefusedOnlyUnderContention ==
  \A c \in Calls :
    call[c].pc = "refused" => Len(rows) - begun[c] >= Attempts(c)

\* Every call returns: it has recorded its event or given up.
EveryCallReturns ==
  \A c \in Calls : call[c].pc = "read" ~> call[c].pc \in {"recorded", "refused"}

\* The calls implement EventLog: one event each, at the end, or none.
Log == INSTANCE EventLog WITH
  recorded <- [i \in DOMAIN rows |-> rows[i].content.call],
  answer <- [c \in Calls |-> IF call[c].pc \in {"recorded", "refused"} THEN call[c].pc
                             ELSE "open"]
ImplementsEventLog == Log!Spec

\* README.md:372-374, "report as unchained rather than as tampering": a log
\* nobody edited verifies, whoever wrote its rows.
UntouchedVerifies == Edited = {} => Valid
=============================================================================
