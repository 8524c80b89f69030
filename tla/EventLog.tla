------------------------------ MODULE EventLog ------------------------------
(***************************************************************************)
(* What the rest of the control plane relies on when it records an event:  *)
(* each call either adds one event at the end of the run's log, once, or   *)
(* is refused and adds nothing.  GovernedRun records its events this way;  *)
(* AuditChain shows that the code behind the calls implements it.          *)
(***************************************************************************)
EXTENDS Sequences

CONSTANT Calls   \* the calls that record an event of one run

VARIABLES
  recorded,  \* the calls whose event is in the log, in log order
  answer     \* what each call has been told so far

logVars == <<recorded, answer>>

Init ==
  /\ recorded = <<>>
  /\ answer = [c \in Calls |-> "open"]

\* The event goes to the end of the log and its call succeeds.
Add(c) ==
  /\ answer[c] = "open"
  /\ recorded' = Append(recorded, c)
  /\ answer' = [answer EXCEPT ![c] = "recorded"]

\* The call throws and leaves no event behind.
Refuse(c) ==
  /\ answer[c] = "open"
  /\ answer' = [answer EXCEPT ![c] = "refused"]
  /\ UNCHANGED recorded

Next == \E c \in Calls : Add(c) \/ Refuse(c)

Spec == Init /\ [][Next]_logVars
=============================================================================
