--------------------------- MODULE MCPolicyEngine ---------------------------
(***************************************************************************)
(* Instances of PolicyEngine for TLC: rules that ship, a copy of one with  *)
(* the same priority in the room, a broad ALLOW on top of the list, and a  *)
(* rule of another room's profile.                                         *)
(***************************************************************************)
EXTENDS PolicyEngine, BuiltInPolicies

MCRule(rule, room, prof) ==
  [priority |-> rule.priority, effect |-> rule.effect, room |-> room,
   profile |-> prof, condition |-> rule.condition]

Shipped(key) == MCRule(BUILT_IN_POLICIES[key], Null, Null)
ShippedWith(prof, key) == MCRule(BUILT_IN_PROFILES[prof].policies[key], Null, prof)

MCRow ==
  << Shipped("block_protected_branches"),
     Shipped("deny_secret_access"),
     MCRule(BUILT_IN_POLICIES["deny_secret_access"], Room, Null),
     Shipped("approve_dangerous_commands"),
     ShippedWith("standard", "standard_allow_working_branch_writes"),
     MCRule(BuiltInPolicy(1, "ALLOW", [mode |-> {"PLAN_ONLY", "PROPOSE_CODE_CHANGE"}]),
            Room, "lenient"),
     MCRule(BuiltInPolicy(1, "ALLOW", [branch |-> {"work", "main"}]), OtherRoom, "foreign") >>

MCProfileRow ==
  [standard |-> [room |-> Null, isDefault |-> BUILT_IN_PROFILES["standard"].isDefault],
   lenient |-> [room |-> Room, isDefault |-> TRUE],
   foreign |-> [room |-> OtherRoom, isDefault |-> FALSE]]

MCAsk(action, mode, branch, path, command) ==
  [action |-> action, mode |-> mode, branch |-> branch, path |-> path, command |-> command]

MCContexts ==
  {MCAsk("READ_FILE", "PLAN_ONLY", Null, "config/.env", Null),
   MCAsk("READ_FILE", "VERIFY_PULL_REQUEST", "work", "index.ts", Null),
   MCAsk("WRITE_FILE", "PROPOSE_CODE_CHANGE", "work", "index.ts", Null),
   MCAsk("WRITE_FILE", "PROPOSE_CODE_CHANGE", "work", ".env", Null),
   MCAsk("WRITE_FILE", "PROPOSE_CODE_CHANGE", "main", "index.ts", Null),
   MCAsk("RUN_COMMAND", "PROPOSE_CODE_CHANGE", "work", Null, "drop table runs")}

MCValues ==
  MODE_CAPABILITIES("PROPOSE_CODE_CHANGE")
    \cup {"PLAN_ONLY", "VERIFY_PULL_REQUEST", "PROPOSE_CODE_CHANGE", "work", "config/.env",
          "index.ts", "PUSH_PROTECTED_BRANCH", "READ_SECRET"}
    \cup ProtectedBranches \cup SecretPaths \cup DangerousCommands

MCFilename == [v \in MCValues |-> IF v = "config/.env" THEN ".env" ELSE v]

-----------------------------------------------------------------------------
(* Departures: what comments of the code say and the code does not do.  No
   run spends its time on them; README, section 7, says how to see each. *)

\* policy-engine/index.ts:40-45, "a malformed rule must never accidentally
\* widen what an agent may do": no verdict is looser than it would be if the
\* prohibitions that do not parse did.
MalformedNeverWidens ==
  profile # NotCreated =>
    \A context \in Contexts, r \in Rules :
      /\ state[r] # "disabled" /\ InScope(r, profile)
      /\ PolicyMatches(r, context) /\ Row[r].effect = "DENY"
      => \A verdict \in Evaluations(context, profile) : verdict.outcome = "DENIED"

\* create-run.ts:182-183, "falling back to the room's default, then the global
\* default".
RoomDefaultWins ==
  [][CreateGovernedRun(Null)
       /\ (\E p \in Profiles : ProfileRow[p].isDefault /\ ProfileRow[p].room = Room)
     => profile' # Null /\ ProfileRow[profile'].room = Room]_vars

\* README.md:332-335, "Test them yourself in Policies -> Policy simulator": the
\* simulator evaluates without a profile and agrees with the executor.
SimulatorAgrees ==
  profile # NotCreated =>
    \A context \in Contexts :
      {verdict.outcome : verdict \in Evaluations(context, Null)} =
      {verdict.outcome : verdict \in Evaluations(context, profile)}
=============================================================================
