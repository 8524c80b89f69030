------------------------------ MODULE Evidence ------------------------------
(***************************************************************************)
(* Evidence reports (lib/evidence/service.ts).  The drive that finishes a  *)
(* run seals a report of it, once; two drives may finish the same run.  A  *)
(* bundle is put together from the run's row, its approvals, its events    *)
(* and the verification of its chain, read one by one: kept of it here is  *)
(* whether the run had ended, whether an approval was pending and how many *)
(* events were verified.  GET evidence builds a bundle and then looks for  *)
(* the sealed one; kept of its bundle is whether its timeline has a seal.  *)
(***************************************************************************)
EXTENDS Naturals, Sequences

CONSTANTS
    Finishers,      \* drives that finish the run
    Readers,        \* requests for the evidence
    MaxTrail        \* bound: length of the trail past which only finishers add to it

ASSUME EvidenceAssumption == Finishers \cap Readers = {} /\ MaxTrail \in Nat

VARIABLES
    ended,      \* the run's status is terminal
    pending,    \* an approval request of the run is PENDING
    answering,  \* a reviewer's request has read it as such
    trail,      \* its events: how many an EVIDENCE_FINALIZED names, or Other
    report,     \* EvidenceReport of the run, a set of one bundle or none
    sealing,    \* how far each finisher is, and its bundle so far
    reading,    \* how far each reader is, what it saw and the report it was given
    revived     \* history: a gate asked for, an answer or another status while it ended or after

evidenceVars == <<ended, pending, answering, trail, report, sealing, reading, revived>>

Other == 0
Seals == {i \in DOMAIN trail : trail[i] # Other}

\* A finisher's row: where it is, and what its bundle says so far, of which tables.
Row(stage, over, open, count, read) ==
    [stage |-> stage, ended |-> over, pending |-> open, count |-> count, read |-> read]
Sealing(stage) == Row(stage, FALSE, FALSE, 0, {})
Tables == {"gates", "integrity"}

EvidenceInit ==
    /\ ended = FALSE /\ pending = FALSE /\ answering = FALSE
    /\ trail = <<>>
    /\ report = {}
    /\ sealing = [f \in Finishers |-> Sealing("drive")]
    /\ reading = [r \in Readers |-> [stage |-> "ask", seal |-> FALSE, given |-> {}]]
    /\ revived = FALSE

\* completeness.missing, as far as it is about the run's progress.
Missing(bundle) ==
    LET lacks == [end |-> ~bundle.ended, answer |-> bundle.pending]
    IN {item \in DOMAIN lacks : lacks[item]}

\* From the moment a drive has closed the gates on.
Ending == ended \/ \E f \in Finishers : sealing[f].stage = "settle"

-----------------------------------------------------------------------------
(* The run and its trail *)

OtherTrailEvent ==
    /\ Len(trail) < MaxTrail
    /\ trail' = Append(trail, Other)
    /\ UNCHANGED <<ended, pending, answering, report, sealing, reading, revived>>

AskApproval ==
    /\ ~pending /\ pending' = TRUE
    /\ revived' = (revived \/ Ending)
    /\ UNCHANGED <<ended, answering, trail, report, sealing, reading>>

ReadGate ==
    /\ pending /\ ~answering
    /\ answering' = TRUE
    /\ UNCHANGED <<ended, pending, trail, report, sealing, reading, revived>>

\* resolveApproval: granted or rejected, whatever has become of the gate and the run
\* since it was read.
AnswerApproval ==
    /\ answering /\ answering' = FALSE
    /\ pending' = FALSE /\ ended' \in BOOLEAN
    /\ revived' = (revived \/ Ending)
    /\ UNCHANGED <<trail, report, sealing, reading>>

\* A drive, a pause or a resume under way writes its status over any other.
OverwriteStatus ==
    /\ ended /\ ended' = FALSE /\ revived' = TRUE
    /\ UNCHANGED <<pending, answering, trail, report, sealing, reading>>

-----------------------------------------------------------------------------
(* finishRun and finalizeEvidenceReport *)

Onto(f, row) == sealing' = [sealing EXCEPT ![f] = row]

\* finishRun: the run's last event, its open gate is cancelled; ...
EndGates(f) ==
    /\ sealing[f].stage = "drive"
    /\ trail' = Append(trail, Other) /\ pending' = FALSE
    /\ Onto(f, Sealing("settle"))
    /\ UNCHANGED <<ended, answering, report, reading, revived>>

\* ... the sandbox is torn down, the status set.
Settle(f) ==
    /\ sealing[f].stage = "settle"
    /\ trail' = Append(trail, Other) /\ ended' = TRUE
    /\ Onto(f, Sealing("find"))
    /\ UNCHANGED <<pending, answering, report, reading, revived>>

\* A run that has a report keeps it.
FindReport(f) ==
    /\ sealing[f].stage = "find"
    /\ Onto(f, Sealing(IF report = {} THEN "row" ELSE "done"))
    /\ UNCHANGED <<ended, pending, answering, trail, report, reading, revived>>

ReadRun(f) ==
    /\ sealing[f].stage = "row"
    /\ Onto(f, Row("read", ended, FALSE, 0, {}))
    /\ UNCHANGED <<ended, pending, answering, trail, report, reading, revived>>

\* Promise.all: the tables are read in any order.
ReadTable(f, table) ==
    /\ sealing[f].stage = "read" /\ table \notin sealing[f].read
    /\ LET row == sealing[f]
       IN Onto(f, Row("read", row.ended,
                      IF table = "gates" THEN pending ELSE row.pending,
                      IF table = "integrity" THEN Len(trail) ELSE row.count,
                      row.read \cup {table}))
    /\ UNCHANGED <<ended, pending, answering, trail, report, reading, revived>>

Created(f) ==
    LET row == sealing[f]
    IN report' = {row} /\ Onto(f, Row("seal", row.ended, row.pending, row.count, row.read))

\* Faulty variant: the report is upserted.
ReplaceReport(f) ==
    /\ sealing[f].read = Tables /\ sealing[f].stage = "read"
    /\ Created(f)
    /\ UNCHANGED <<ended, pending, answering, trail, reading, revived>>

\* The run's unique key turns a second report away; its error is logged.
CreateReport(f) ==
    /\ sealing[f].read = Tables /\ sealing[f].stage = "read"
    /\ \/ report = {} /\ Created(f)
       \/ report # {} /\ Onto(f, Sealing("done")) /\ UNCHANGED report
    /\ UNCHANGED <<ended, pending, answering, trail, reading, revived>>

\* EVIDENCE_FINALIZED
RecordSeal(f) ==
    /\ sealing[f].stage = "seal"
    /\ trail' = Append(trail, sealing[f].count)
    /\ Onto(f, Sealing("done"))
    /\ UNCHANGED <<ended, pending, answering, report, reading, revived>>

StopFinisher(f) ==
    /\ sealing[f].stage # "done" /\ Onto(f, Sealing("done"))
    /\ UNCHANGED <<ended, pending, answering, trail, report, reading, revived>>

-----------------------------------------------------------------------------
(* GET /api/runs/[runId]/evidence *)

BuildAnswer(r) ==
    /\ reading[r].stage = "ask"
    /\ reading' = [reading EXCEPT ![r] =
           [stage |-> "built", seal |-> Seals # {}, given |-> {}]]
    /\ UNCHANGED <<ended, pending, answering, trail, report, sealing, revived>>

AnswerEvidence(r) ==
    /\ reading[r].stage = "built"
    /\ reading' = [reading EXCEPT ![r] =
           [stage |-> "answered", seal |-> reading[r].seal, given |-> report]]
    /\ UNCHANGED <<ended, pending, answering, trail, report, sealing, revived>>

EvidenceNext ==
    \/ OtherTrailEvent \/ AskApproval \/ ReadGate \/ AnswerApproval \/ OverwriteStatus
    \/ \E f \in Finishers :
           EndGates(f) \/ Settle(f) \/ FindReport(f) \/ ReadRun(f) \/ CreateReport(f)
               \/ RecordSeal(f) \/ StopFinisher(f) \/ \E table \in Tables : ReadTable(f, table)
    \/ \E r \in Readers : BuildAnswer(r) \/ AnswerEvidence(r)

EvidenceSpec == EvidenceInit /\ [][EvidenceNext]_evidenceVars

-----------------------------------------------------------------------------
\* The run has one report: EVIDENCE_FINALIZED is recorded once, after everything the
\* report counted, and names that.
SealedOnce ==
    /\ \A i, j \in Seals : i = j
    /\ \A i \in Seals : \E r \in report : trail[i] = r.count /\ r.count < i

\* "Sealed last, so the bundle captures the completed run" (mock-executor.ts:509).
CapturesEnd == ~revived => \A r \in report : Missing(r) = {}

\* Who is shown a trail with its seal is given the report.
AnswersShowTheSeal ==
    \A r \in Readers :
        reading[r].stage = "answered" /\ reading[r].seal => reading[r].given = report

\* A report is sealed once and last, and is what its event and every answer say it is,
\* however many drives finish the run and wherever one of them stops.
ReportStands == SealedOnce /\ CapturesEnd /\ AnswersShowTheSeal
=============================================================================
