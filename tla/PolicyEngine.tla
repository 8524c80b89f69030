---------------------------- MODULE PolicyEngine ----------------------------
(***************************************************************************)
(* The policy engine (src/lib/policy-engine) over the table of rules: who  *)
(* may edit a rule, which rules are in force for a run, and the verdict    *)
(* evaluatePolicies reaches about an action.                               *)
(*                                                                         *)
(* A condition is a function on the fields it constrains; a glob or a      *)
(* command pattern is the set of values it matches.  The row a verdict     *)
(* names is a set here, of all rows the ordering allows to come first.     *)
(***************************************************************************)
EXTENDS Integers, FiniteSets

CONSTANTS
  Rules,      \* ids of the Policy rows, which the query orders by
  Row,        \* what each row says when it is well formed
  BuiltIn,    \* the rows prisma/seed.ts writes
  Profiles,   \* the PolicyProfile rows
  ProfileRow, \* the room of each profile and whether it is a default
  Contexts,   \* the actions asked about
  Values,     \* what a context names: verbs, modes, branches, paths, commands
  Filename,   \* the last segment of each path
  Room,       \* the run's organization; other rooms have rows of their own
  OtherRoom,
  Null        \* no room, no profile, no branch, path or command

Fields == {"action", "mode", "branch", "path", "command"}
Effects == {"ALLOW", "REQUIRE_APPROVAL", "DENY"}
RunModes == {"PLAN_ONLY", "VERIFY_PULL_REQUEST", "PROPOSE_CODE_CHANGE"}
Rooms == {Room, OtherRoom, Null}

\* The value of profile before there is a run.
NotCreated == "not created"

ASSUME RulesAssumption == Rules \subseteq Int /\ IsFiniteSet(Rules) /\ BuiltIn \subseteq Rules
ASSUME RowAssumption ==
  \A r \in Rules :
    /\ Row[r].priority \in Int
    /\ Row[r].effect \in Effects
    /\ Row[r].room \in Rooms
    /\ Row[r].profile \in Profiles \cup {Null}
    /\ DOMAIN Row[r].condition \subseteq Fields
    /\ \A f \in DOMAIN Row[r].condition : Row[r].condition[f] \subseteq Values
ASSUME ProfileAssumption ==
  /\ ProfileRow \in [Profiles -> [room : Rooms, isDefault : BOOLEAN]]
  /\ {Null, NotCreated} \cap Profiles = {}
ASSUME RoomAssumption == OtherRoom \notin {Room, Null}
ASSUME ContextAssumption ==
  /\ Contexts \subseteq [Fields -> Values \cup {Null}]
  /\ \A context \in Contexts : context.mode \in RunModes
  /\ Filename \in [Values -> Values]
  /\ Null \notin Values

VARIABLES
  state,    \* whether each row is enabled, and if so whether its condition parses
  profile   \* policyProfileId of the run, once it is created

vars == <<state, profile>>

RowState == {"disabled", "enabled", "malformed"}

TypeOK ==
  /\ state \in [Rules -> RowState]
  /\ profile \in Profiles \cup {Null, NotCreated}

-----------------------------------------------------------------------------
(* Rules in force *)

\* loadActivePolicies: the global rules, the room's own, and the profile's.
InScope(r, p) ==
  \/ Row[r].room \in {Null, Room} /\ Row[r].profile = Null
  \/ p # Null /\ Row[r].profile = p

\* toEvaluable takes a row whose condition does not parse as disabled.
Active(p) == {r \in Rules : state[r] = "enabled" /\ InScope(r, p)}

\* A path pattern may match the file's bare name.
Hit(context, f, patterns) ==
  /\ context[f] # Null
  /\ \/ context[f] \in patterns
     \/ f = "path" /\ Filename[context[f]] \in patterns

\* policyMatches: every field the condition has must match.
PolicyMatches(r, context) ==
  \A f \in DOMAIN Row[r].condition : Hit(context, f, Row[r].condition[f])

Matches(context, p) == {r \in Active(p) : PolicyMatches(r, context)}
WithEffect(effect, matches) == {r \in matches : Row[r].effect = effect}

\* Faulty variant: rows of one priority come in any order.
BeforeByPriority(r, s) == Row[r].priority < Row[s].priority

\* orderBy priority, then id; the engine's own sort by priority is stable.
Before(r, s) ==
  \/ Row[r].priority < Row[s].priority
  \/ Row[r].priority = Row[s].priority /\ r < s

First(matches) == {r \in matches : \A s \in matches : ~Before(s, r)}

-----------------------------------------------------------------------------
(* The verdict *)

DEFAULT_ALLOWED_ACTIONS == {"READ_FILE", "RUN_TESTS", "INSPECT_DIFF"}

MODE_CAPABILITIES(mode) ==
  DEFAULT_ALLOWED_ACTIONS
    \cup (IF mode = "PLAN_ONLY" THEN {} ELSE {"RUN_COMMAND"})
    \cup (IF mode = "PROPOSE_CODE_CHANGE"
          THEN {"WRITE_FILE", "CREATE_BRANCH", "CREATE_PULL_REQUEST"} ELSE {})

\* Faulty variant: the first match decides, whatever its effect.
DeciderFirstMatch(matches) == First(matches)

\* The rule that decides: the first match of the strongest effect.
Decider(matches) ==
  LET Of(effect) == WithEffect(effect, matches)
  IN First(IF Of("DENY") # {} THEN Of("DENY")
           ELSE IF Of("REQUIRE_APPROVAL") # {} THEN Of("REQUIRE_APPROVAL")
           ELSE Of("ALLOW"))

Bounded(context) == context.action \notin MODE_CAPABILITIES(context.mode)

\* The rule a verdict is put down to: none for a mode bound or a default.
DecidedBy(context, p) == IF Bounded(context) THEN {} ELSE Decider(Matches(context, p))

OutcomeOf(effect) ==
  CASE effect = "DENY" -> "DENIED"
    [] effect = "REQUIRE_APPROVAL" -> "APPROVAL_REQUIRED"
    [] effect = "ALLOW" -> "ALLOWED"

\* When no rule matches, only what changes nothing is allowed.
DefaultOutcome(context) ==
  IF context.action \in DEFAULT_ALLOWED_ACTIONS THEN "ALLOWED" ELSE "DENIED"

\* evaluatePolicies without its wording and risk, one record for each row the ordering lets decide.
Evaluations(context, p) ==
  LET Unmatched(outcome) == {[outcome |-> outcome, decidedBy |-> Null]}
  IN IF Bounded(context) THEN Unmatched("DENIED")
     ELSE IF Matches(context, p) = {} THEN Unmatched(DefaultOutcome(context))
     ELSE {[outcome |-> OutcomeOf(Row[r].effect), decidedBy |-> r] : r \in DecidedBy(context, p)}

-----------------------------------------------------------------------------
(* The run's profile, and edits of the rules *)

Init ==
  /\ state = [r \in Rules |-> "disabled"]
  /\ profile = NotCreated

\* Faulty variant: the seed writes a state of its own.
SeedUnknown(r) ==
  /\ r \in BuiltIn
  /\ state' = [state EXCEPT ![r] = "active"]
  /\ UNCHANGED profile

\* seed.ts: a built-in rule is put back as it was shipped.
SeedPolicy(r) ==
  /\ r \in BuiltIn
  /\ state' = [state EXCEPT ![r] = "enabled"]
  /\ UNCHANGED profile

\* An operator edits a row in the database: there is no route for it.
EditPolicy(r, new) ==
  /\ state' = [state EXCEPT ![r] = new]
  /\ UNCHANGED profile

\* The default profile of the run: the first by room, descending, and a null
\* room comes first in a descending order.
DefaultProfile ==
  LET defaults(room) == {p \in Profiles : ProfileRow[p].isDefault /\ ProfileRow[p].room = room}
  IN IF defaults(Null) # {} THEN defaults(Null)
     ELSE IF defaults(Room) # {} THEN defaults(Room) ELSE {Null}

\* createGovernedRun with the requested profile, or without one.
CreateGovernedRun(requested) ==
  /\ profile = NotCreated
  /\ IF requested = Null THEN profile' \in DefaultProfile
     ELSE ProfileRow[requested].room \in {Null, Room} /\ profile' = requested
  /\ UNCHANGED state

Next ==
  \/ \E r \in Rules : SeedPolicy(r)
  \/ \E r \in Rules, new \in RowState : EditPolicy(r, new)
  \/ \E requested \in Profiles \cup {Null} : CreateGovernedRun(requested)

Spec == Init /\ [][Next]_vars

-----------------------------------------------------------------------------
(* Properties *)

Strictness(outcome) ==
  CASE outcome = "ALLOWED" -> 0 [] outcome = "APPROVAL_REQUIRED" -> 1 [] outcome = "DENIED" -> 2

\* README.md:310-312: whatever the global rules and the room's own decide, no
\* profile loosens it, whichever rules it adds and at whichever priority.
ProfileOnlyTightens ==
  \A context \in Contexts, p \in Profiles :
    DecidedBy(context, Null) # {} =>
      \A with \in Evaluations(context, p), without \in Evaluations(context, Null) :
        Strictness(with.outcome) >= Strictness(without.outcome)

\* The same question about the same rules is always put down to the same rule,
\* also when rules of one priority tie (policy-engine/index.ts:103-110).
SameVerdictEveryTime ==
  \A context \in Contexts, p \in Profiles \cup {Null} :
    Cardinality(Evaluations(context, p)) = 1

\* Default-deny: what changes state is let through only by a rule in force that
\* the mode admits, while no prohibition in force matches, and a matching rule
\* that asks for approval is never skipped.
NothingByDefault ==
  \A context \in Contexts, p \in Profiles \cup {Null} :
    \A verdict \in Evaluations(context, p) :
      verdict.outcome # "DENIED" /\ context.action \notin DEFAULT_ALLOWED_ACTIONS =>
        /\ context.action \in MODE_CAPABILITIES(context.mode)
        /\ verdict.decidedBy \in Matches(context, p)
        /\ \A r \in Matches(context, p) :
             /\ Row[r].effect # "DENY"
             /\ Row[r].effect = "REQUIRE_APPROVAL" => verdict.outcome = "APPROVAL_REQUIRED"

\* No run is governed by another organization's rules, nor let through by one
\* of their profiles.
OwnRulesOnly ==
  profile # NotCreated =>
    \A context \in Contexts : DecidedBy(context, profile) \subseteq
      {r \in Rules : /\ Row[r].profile = Null => Row[r].room # OtherRoom
                     /\ Row[r].profile # Null => ProfileRow[Row[r].profile].room # OtherRoom}
=============================================================================
