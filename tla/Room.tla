-------------------------------- MODULE Room --------------------------------
(***************************************************************************)
(* A room's members and their roles, and the owner of one of its runs.     *)
(*                                                                         *)
(* A request is authorised by the role its author has at that moment; then *)
(* it reads what it needs and commits.  Its transaction runs under the     *)
(* database's default isolation, so each read sees what is committed when  *)
(* it is made, and another request may commit between any two of them.     *)
(***************************************************************************)
EXTENDS Naturals, Sequences, FiniteSets

CONSTANTS
    Users,
    Creator,       \* who made the room, and asked for the run
    Requests,      \* bound: requests in progress at one time
    MaxRequests,   \* bound: requests in all
    MaxEvents      \* bound: length of the run's log

ASSUME CreatorIsUser == Creator \in Users
ASSUME FinitelyManyUsers == IsFiniteSet(Users)
ASSUME BoundedRoom == MaxRequests \in Nat /\ MaxEvents \in Nat
ASSUME UsersAreNotEvents == "other" \notin Users

VARIABLES
    role,       \* RoomMembership: each user's role, "none" without a row
    owner,      \* AgentRun.ownerUserId
    log,        \* RunEvent: whom an event handed the run to, or "other"
    handling,   \* what each request is about and how far it is
    taken,      \* requests so far, for the bound
    raced       \* history: an owner left between another change's check and its commit

roomVars == <<role, owner, log, handling, taken, raced>>

Roles == {"OWNER", "ENGINEER", "REVIEWER", "VIEWER"}
Resting == [op |-> "none", by |-> Creator, who |-> Creator, as |-> "none", at |-> "none", read |-> 0]
RoomOps == {"add", "role", "remove", "handoff"}
Stages == {"authorised", "found", "checked", "ready"}

Owners == {u \in Users : role[u] = "OWNER"}

\* can(): who may manage members, and who may hand a run off.
May(op) == IF op = "handoff" THEN {"OWNER", "ENGINEER"} ELSE {"OWNER"}

RoomInit ==
    /\ role = [u \in Users |-> IF u = Creator THEN "OWNER" ELSE "none"]
    /\ owner = Creator
    /\ log = <<>>
    /\ handling = [q \in Requests |-> Resting]
    /\ taken = 0
    /\ raced = FALSE

Stage(q, at, read) ==
    handling' = [handling EXCEPT ![q] =
        [op |-> handling[q].op, by |-> handling[q].by, who |-> handling[q].who,
         as |-> handling[q].as, at |-> at, read |-> read]]

Ended(q) == handling' = [handling EXCEPT ![q] = Resting]

\* The request is answered; an error rolls its transaction back.
RefusedRequest(q) == Ended(q) /\ UNCHANGED <<role, owner, log, taken, raced>>

At(q, op, at) == handling[q].op = op /\ handling[q].at = at

-----------------------------------------------------------------------------
(* requireRoomPermission: the author's role is read once, before the body is. *)
Authorise(q, by, op, who, as) ==
    /\ handling[q] = Resting /\ taken < MaxRequests
    /\ role[by] \in May(op)
    /\ op = "add" => as \in Roles \ {"OWNER"}
    /\ op \in {"remove", "handoff"} => as = "none"
    /\ op = "role" => as \in Roles
    /\ handling' = [handling EXCEPT ![q] = [op |-> op, by |-> by, who |-> who, as |-> as,
                                            at |-> "authorised", read |-> 0]]
    /\ taken' = taken + 1
    /\ UNCHANGED <<role, owner, log, raced>>

\* addMemberByEmail: the row is looked for, then created under its unique key.
FindNoMember(q) ==
    /\ At(q, "add", "authorised")
    /\ IF role[handling[q].who] # "none" THEN RefusedRequest(q)
       ELSE Stage(q, "ready", 0) /\ UNCHANGED <<role, owner, log, taken, raced>>

AddMember(q) ==
    /\ At(q, "add", "ready")
    /\ IF role[handling[q].who] # "none" THEN RefusedRequest(q)
       ELSE /\ role' = [role EXCEPT ![handling[q].who] = handling[q].as]
            /\ Ended(q)
            /\ UNCHANGED <<owner, log, taken, raced>>

\* assertNotLastOwner, first read: the target's role.  Making someone an owner
\* reads nothing.
FindMember(q) ==
    /\ handling[q].op \in {"role", "remove"} /\ handling[q].at = "authorised"
    /\ IF handling[q].as = "OWNER"
         THEN Stage(q, "ready", 0) /\ UNCHANGED <<role, owner, log, taken, raced>>
         ELSE CASE role[handling[q].who] = "none" -> RefusedRequest(q)
                [] role[handling[q].who] = "OWNER" ->
                     Stage(q, "found", 0) /\ UNCHANGED <<role, owner, log, taken, raced>>
                [] OTHER -> Stage(q, "checked", 0) /\ UNCHANGED <<role, owner, log, taken, raced>>

\* Faulty variant: the last owner is counted as one that may go.
CountNoOwners(q) ==
    /\ handling[q].op \in {"role", "remove"} /\ handling[q].at = "found"
    /\ IF Cardinality(Owners) < 1 THEN RefusedRequest(q)
       ELSE Stage(q, "checked", 0) /\ UNCHANGED <<role, owner, log, taken, raced>>

\* assertNotLastOwner, second read: how many owners there are.
CountOwners(q) ==
    /\ handling[q].op \in {"role", "remove"} /\ handling[q].at = "found"
    /\ IF Cardinality(Owners) <= 1 THEN RefusedRequest(q)
       ELSE Stage(q, "checked", 0) /\ UNCHANGED <<role, owner, log, taken, raced>>

\* Another change of members has been found harmless and not yet committed.
Checked(q) == handling[q].op \in {"role", "remove"} /\ handling[q].at = "checked"
OtherCheckUnderWay(q) == \E p \in Requests \ {q} : Checked(p)

\* updateMemberRole and removeMember: the row is written, or has gone meanwhile.
SetMember(q) ==
    /\ handling[q].op \in {"role", "remove"} /\ handling[q].at \in {"checked", "ready"}
    /\ IF role[handling[q].who] = "none" THEN RefusedRequest(q)
       ELSE /\ role' = [role EXCEPT ![handling[q].who] = handling[q].as]
            /\ raced' = (raced \/ (role[handling[q].who] = "OWNER" /\ handling[q].as # "OWNER"
                                     /\ OtherCheckUnderWay(q)))
            /\ Ended(q)
            /\ UNCHANGED <<owner, log, taken>>

-----------------------------------------------------------------------------
(* handoffRun: the run, the recipient's row and the end of the log are read;
   the intervention, the event and the new owner commit together.  The event's
   number is unique in the run, which ends the transaction that comes second. *)
FindRun(q) ==
    /\ At(q, "handoff", "authorised")
    /\ IF owner = handling[q].who \/ role[handling[q].who] = "none" THEN RefusedRequest(q)
       ELSE Stage(q, "checked", 0) /\ UNCHANGED <<role, owner, log, taken, raced>>

FindLastEvent(q) ==
    /\ At(q, "handoff", "checked")
    /\ Stage(q, "ready", Len(log))
    /\ UNCHANGED <<role, owner, log, taken, raced>>

\* Faulty variant: the owner is set although the event could not be recorded.
HandOffRegardless(q) ==
    /\ At(q, "handoff", "ready") /\ Len(log) < MaxEvents
    /\ owner' = handling[q].who
    /\ log' = IF Len(log) # handling[q].read THEN log ELSE Append(log, handling[q].who)
    /\ Ended(q)
    /\ UNCHANGED <<role, taken, raced>>

HandOff(q) ==
    /\ At(q, "handoff", "ready")
    /\ IF Len(log) # handling[q].read THEN RefusedRequest(q)
       ELSE /\ Len(log) < MaxEvents
            /\ owner' = handling[q].who
            /\ log' = Append(log, handling[q].who)
            /\ Ended(q)
            /\ UNCHANGED <<role, taken, raced>>

\* Everything else that records an event of the run.
OtherEvent ==
    /\ Len(log) < MaxEvents
    /\ log' = Append(log, "other")
    /\ UNCHANGED <<role, owner, handling, taken, raced>>

RoomRequest(q) ==
    \/ \E by, who \in Users, op \in RoomOps, as \in Roles \cup {"none"} :
          Authorise(q, by, op, who, as)
    \/ FindNoMember(q) \/ AddMember(q)
    \/ FindMember(q) \/ CountOwners(q) \/ SetMember(q)
    \/ FindRun(q) \/ FindLastEvent(q) \/ HandOff(q)

RoomNext == (\E q \in Requests : RoomRequest(q)) \/ OtherEvent

RoomSpec == RoomInit /\ [][RoomNext]_roomVars

-----------------------------------------------------------------------------
RoomTypeOK ==
    /\ role \in [Users -> Roles \cup {"none"}]
    /\ owner \in Users
    /\ handling \in [Requests -> [op : RoomOps \cup {"none"}, by : Users, who : Users,
                        as : Roles \cup {"none"}, at : Stages \cup {"none"}, read : Nat]]
    /\ taken \in Nat
    /\ raced \in BOOLEAN

\* The room keeps an owner, whatever is asked by whomever, unless an owner left
\* while another such request stood between its count of the owners and its
\* commit (assertNotLastOwner).
OwnerRemains == Owners # {} \/ raced

\* What the comment on members.ts promises without that exception: "a concurrent
\* pair of requests cannot leave a room ownerless".
LastOwner == Owners # {}

\* The run belongs to whom the last transfer on its timeline names, however many
\* transfers ran at once (handoffRun).
Transfers == {i \in 1 .. Len(log) : log[i] # "other"}
OwnerIsLastHandedTo ==
    IF Transfers = {} THEN owner = Creator
    ELSE \E i \in Transfers : owner = log[i] /\ \A j \in Transfers : j <= i
=============================================================================
