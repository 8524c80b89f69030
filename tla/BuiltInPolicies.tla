--------------------------- MODULE BuiltInPolicies ---------------------------
(***************************************************************************)
(* The rules and profiles that ship (lib/policy-engine/built-in.ts), under *)
(* their keys: what each says that the engine decides by.  A pattern list  *)
(* is the set of values it matches among those MCPolicyEngine asks about.  *)
(* prisma/seed.ts writes the rules of a profile with its id, the others    *)
(* with none, and all of them for no room.                                 *)
(***************************************************************************)
EXTENDS Naturals

BuiltInPolicy(priority, effect, condition) ==
  [priority |-> priority, effect |-> effect, condition |-> condition]

ProtectedBranches == {"main", "release/2"}
SecretPaths == {".env", "token.pem"}
DangerousCommands == {"drop table runs"}
Authoring == {"WRITE_FILE", "CREATE_BRANCH", "CREATE_PULL_REQUEST"}

BUILT_IN_POLICIES ==
  [block_protected_branches |->
     BuiltInPolicy(10, "DENY",
       [action |-> {"PUSH_PROTECTED_BRANCH", "WRITE_FILE", "CREATE_BRANCH"},
        branch |-> ProtectedBranches]),
   deny_production_deploy |->
     BuiltInPolicy(20, "DENY", [action |-> {"DEPLOY_PRODUCTION"}]),
   deny_secret_access |->
     BuiltInPolicy(30, "DENY",
       [action |-> {"READ_FILE", "WRITE_FILE", "READ_SECRET"}, path |-> SecretPaths]),
   approve_dangerous_commands |->
     BuiltInPolicy(40, "REQUIRE_APPROVAL",
       [action |-> {"RUN_COMMAND"}, command |-> DangerousCommands]),
   approve_pull_request_creation |->
     BuiltInPolicy(50, "REQUIRE_APPROVAL", [action |-> {"CREATE_PULL_REQUEST"}])]

BuiltInProfile(isDefault, policies) == [isDefault |-> isDefault, policies |-> policies]

BUILT_IN_PROFILES ==
  [safe |-> BuiltInProfile(FALSE,
     [safe_no_writes |-> BuiltInPolicy(5, "DENY", [action |-> Authoring]),
      safe_no_commands |-> BuiltInPolicy(6, "DENY", [action |-> {"RUN_COMMAND"}])]),
   standard |-> BuiltInProfile(TRUE,
     [standard_allow_working_branch_writes |->
        BuiltInPolicy(60, "ALLOW", [action |-> {"WRITE_FILE", "CREATE_BRANCH"}]),
      standard_allow_commands |-> BuiltInPolicy(70, "ALLOW", [action |-> {"RUN_COMMAND"}])]),
   restricted |-> BuiltInProfile(FALSE,
     [restricted_no_authoring |-> BuiltInPolicy(5, "DENY", [action |-> Authoring]),
      restricted_allow_test_commands |->
        BuiltInPolicy(70, "ALLOW", [action |-> {"RUN_COMMAND"}])])]

\* "A profile only ever *adds* rules" (built-in.ts:152-154): what the global rules
\* gate or prohibit, a profile that ships allows behind them or not at all.
ASSUME ProfilesComeBehind ==
  \A p \in DOMAIN BUILT_IN_PROFILES :
    LET added == BUILT_IN_PROFILES[p].policies
    IN \A k \in DOMAIN added, g \in DOMAIN BUILT_IN_POLICIES :
         added[k].effect = "ALLOW" => added[k].priority > BUILT_IN_POLICIES[g].priority
=============================================================================
