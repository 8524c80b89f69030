------------------------- MODULE PolicyEngineProofs -------------------------
(***************************************************************************)
(* Theorems about PolicyEngine, for every set of rules, profiles and       *)
(* questions, however the rules are edited.                                *)
(***************************************************************************)
EXTENDS PolicyEngine, FiniteSetTheorems, TLAPS

\* Any rule in force without a profile is in force with it.
LEMMA MatchesGrow ==
  ASSUME NEW context, NEW p \in Profiles
  PROVE  Matches(context, Null) \subseteq Matches(context, p)
  BY DEF Matches, Active, InScope

\* The deciding rule is a match of the strongest effect among the matches.
LEMMA DeciderStrongest ==
  ASSUME NEW matches \in SUBSET Rules, NEW r \in Decider(matches)
  PROVE  /\ r \in matches
         /\ (\E s \in matches : Row[s].effect = "DENY") => Row[r].effect = "DENY"
         /\ (\E s \in matches : Row[s].effect = "REQUIRE_APPROVAL") => Row[r].effect # "ALLOW"
  BY RowAssumption DEF Decider, First, WithEffect, Effects

\* At most one rule is first: the order by priority and id leaves no ties.
LEMMA FirstIsUnique ==
  ASSUME NEW matches \in SUBSET Rules, NEW r \in First(matches), NEW s \in First(matches)
  PROVE  r = s
<1>1. r \in Int /\ s \in Int /\ Row[r].priority \in Int /\ Row[s].priority \in Int
  BY RulesAssumption, RowAssumption DEF First
<1>2. ~Before(r, s) /\ ~Before(s, r)
  BY DEF First
<1>3. QED BY <1>1, <1>2 DEF Before

\* What a verdict reached by rules is made of.
LEMMA VerdictOfRule ==
  ASSUME NEW context, NEW p, NEW verdict \in Evaluations(context, p),
         ~Bounded(context), Matches(context, p) # {}
  PROVE  /\ verdict.decidedBy \in Decider(Matches(context, p))
         /\ verdict.outcome = OutcomeOf(Row[verdict.decidedBy].effect)
<1>1. PICK r \in Decider(Matches(context, p)) :
        verdict = [outcome |-> OutcomeOf(Row[r].effect), decidedBy |-> r]
  BY DEF Evaluations, DecidedBy
<1>2. QED BY <1>1

-----------------------------------------------------------------------------
LEMMA TypeInit == Init => TypeOK
  BY DEF Init, TypeOK, RowState

LEMMA TypeStep == TypeOK /\ [Next]_vars => TypeOK'
<1> SUFFICES ASSUME TypeOK, [Next]_vars PROVE TypeOK'
  OBVIOUS
<1>1. ASSUME NEW r \in Rules, SeedPolicy(r) PROVE TypeOK'
  BY <1>1 DEF TypeOK, SeedPolicy, RowState
<1>2. ASSUME NEW r \in Rules, NEW new \in RowState, EditPolicy(r, new) PROVE TypeOK'
  BY <1>2 DEF TypeOK, EditPolicy
<1>3. ASSUME NEW requested \in Profiles \cup {Null}, CreateGovernedRun(requested) PROVE TypeOK'
  BY <1>3 DEF TypeOK, CreateGovernedRun, DefaultProfile
<1>4. CASE UNCHANGED vars
  BY <1>4 DEF TypeOK, vars
<1>5. QED BY <1>1, <1>2, <1>3, <1>4 DEF Next

\* The rows and the run's profile keep their types.
THEOREM TypeCorrect == Spec => []TypeOK
<1>1. QED BY TypeInit, TypeStep, PTL DEF Spec

\* A profile never loosens what the rules without it decide.
LEMMA Tightens ==
  ASSUME NEW context \in Contexts, NEW p \in Profiles, DecidedBy(context, Null) # {},
         NEW with \in Evaluations(context, p), NEW without \in Evaluations(context, Null)
  PROVE  Strictness(with.outcome) >= Strictness(without.outcome)
<1> DEFINE global == Matches(context, Null)
           all == Matches(context, p)
           g == without.decidedBy
           r == with.decidedBy
<1>1. ~Bounded(context) /\ global # {} /\ global \subseteq all
      /\ global \subseteq Rules /\ all \subseteq Rules
  BY MatchesGrow DEF DecidedBy, Decider, First, WithEffect, Matches, Active
<1>2. /\ g \in Decider(global) /\ without.outcome = OutcomeOf(Row[g].effect)
      /\ r \in Decider(all) /\ with.outcome = OutcomeOf(Row[r].effect)
  BY <1>1, VerdictOfRule
<1> HIDE DEF global, all, g, r
<1>3. g \in global /\ r \in all
  BY <1>1, <1>2, DeciderStrongest
<1>4. /\ Row[g].effect = "DENY" => Row[r].effect = "DENY"
      /\ Row[g].effect = "REQUIRE_APPROVAL" => Row[r].effect # "ALLOW"
  BY <1>1, <1>2, <1>3, DeciderStrongest
<1>5. Row[g].effect \in Effects /\ Row[r].effect \in Effects
  BY <1>1, <1>3, RowAssumption
<1>6. QED BY <1>2, <1>4, <1>5 DEF Strictness, OutcomeOf, Effects

\* README.md:310-312: however the rules are edited, a profile only tightens.
THEOREM ProfilesOnlyTighten == Spec => []ProfileOnlyTightens
<1>1. ProfileOnlyTightens
  BY Tightens DEF ProfileOnlyTightens
<1>2. QED BY <1>1, PTL

\* However the rules are edited, what changes state is let through only by a
\* rule in force that nothing stricter contradicts.
THEOREM NothingIsAllowedByDefault == Spec => []NothingByDefault
<1>1. ASSUME NEW context \in Contexts, NEW p \in Profiles \cup {Null},
             NEW verdict \in Evaluations(context, p),
             verdict.outcome # "DENIED", context.action \notin DEFAULT_ALLOWED_ACTIONS
      PROVE  /\ context.action \in MODE_CAPABILITIES(context.mode)
             /\ verdict.decidedBy \in Matches(context, p)
             /\ \A r \in Matches(context, p) :
                  /\ Row[r].effect # "DENY"
                  /\ Row[r].effect = "REQUIRE_APPROVAL"
                       => verdict.outcome = "APPROVAL_REQUIRED"
  <2>1. ~Bounded(context)
    BY <1>1 DEF Evaluations
  <2>2. Matches(context, p) # {} /\ Matches(context, p) \subseteq Rules
    BY <1>1, <2>1 DEF Evaluations, DefaultOutcome, Matches, Active
  <2>3. /\ verdict.decidedBy \in Decider(Matches(context, p))
        /\ verdict.outcome = OutcomeOf(Row[verdict.decidedBy].effect)
    BY <2>1, <2>2, VerdictOfRule
  <2>4. /\ verdict.decidedBy \in Matches(context, p)
        /\ Row[verdict.decidedBy].effect \in Effects
    BY <2>2, <2>3, DeciderStrongest, RowAssumption
  <2>5. Row[verdict.decidedBy].effect # "DENY"
    BY <1>1, <2>3 DEF OutcomeOf
  <2>6. ASSUME NEW r \in Matches(context, p)
        PROVE  /\ Row[r].effect # "DENY"
               /\ Row[r].effect = "REQUIRE_APPROVAL" => verdict.outcome = "APPROVAL_REQUIRED"
    BY <2>2, <2>3, <2>4, <2>5, DeciderStrongest DEF OutcomeOf, Effects
  <2>7. QED BY <2>1, <2>4, <2>6 DEF Bounded
<1>2. NothingByDefault
  BY <1>1 DEF NothingByDefault
<1>3. QED BY <1>2, PTL

\* The run's profile is the room's own or a global one.
ProfileOfRoom ==
  profile \in Profiles => ProfileRow[profile].room # OtherRoom

LEMMA ProfileStep == ProfileOfRoom /\ [Next]_vars => ProfileOfRoom'
<1> SUFFICES ASSUME ProfileOfRoom, [Next]_vars PROVE ProfileOfRoom'
  OBVIOUS
<1>1. ASSUME NEW requested \in Profiles \cup {Null}, CreateGovernedRun(requested)
      PROVE  ProfileOfRoom'
  BY <1>1, RoomAssumption, ProfileAssumption DEF ProfileOfRoom, CreateGovernedRun, DefaultProfile
<1>2. CASE UNCHANGED profile
  BY <1>2 DEF ProfileOfRoom
<1>3. QED BY <1>1, <1>2 DEF Next, SeedPolicy, EditPolicy, vars

\* However the rules are edited, no rule of another room decides about the run.
THEOREM OwnRulesDecide == Spec => []OwnRulesOnly
<1>1. Init => ProfileOfRoom
  BY ProfileAssumption DEF Init, ProfileOfRoom
<1>2. TypeOK /\ ProfileOfRoom => OwnRulesOnly
  <2>1. SUFFICES ASSUME TypeOK, ProfileOfRoom, profile # NotCreated,
                        NEW context \in Contexts, NEW r \in DecidedBy(context, profile)
                 PROVE  /\ r \in Rules
                        /\ Row[r].profile = Null => Row[r].room # OtherRoom
                        /\ Row[r].profile # Null => ProfileRow[Row[r].profile].room # OtherRoom
    BY DEF OwnRulesOnly
  <2>2. r \in Rules /\ InScope(r, profile)
    BY DEF DecidedBy, Decider, First, WithEffect, Matches, Active
  <2>3. QED BY <2>1, <2>2, RoomAssumption DEF InScope, ProfileOfRoom, TypeOK
<1>3. QED BY <1>1, <1>2, ProfileStep, TypeCorrect, PTL DEF Spec
-----------------------------------------------------------------------------
(* One verdict for one question *)

\* Among finitely many rules one is first: the one with the fewest before it.
LEMMA FirstExists ==
  ASSUME NEW matches \in SUBSET Rules, matches # {}
  PROVE  First(matches) # {}
<1> DEFINE Ahead(r) == {s \in matches : Before(s, r)}
           fronts == {Ahead(r) : r \in matches}
<1>1. IsFiniteSet(matches)
  BY RulesAssumption, FS_Subset
<1>2. fronts \subseteq FiniteSubsetsOf(matches) /\ fronts # {}
  <2>1. \A r \in matches : Ahead(r) \in SUBSET matches /\ IsFiniteSet(Ahead(r))
    BY <1>1, FS_Subset
  <2>2. QED BY <2>1 DEF FiniteSubsetsOf
<1>3. PICK least \in fronts : \A front \in fronts :
         <<front, least>> \notin StrictSubsetOrdering(matches)
  BY <1>2, FS_StrictSubsetOrderingWellFounded, WFMin
<1>4. PICK r \in matches : least = Ahead(r)
  OBVIOUS
<1>5. ASSUME NEW s \in Ahead(r) PROVE FALSE
  <2>1. s \in matches /\ Before(s, r)
    OBVIOUS
  <2>2. \A t \in matches : /\ t \in Int /\ Row[t].priority \in Int
    BY RulesAssumption, RowAssumption
  <2>3. Ahead(s) \subseteq Ahead(r)
    BY <2>1, <2>2 DEF Before
  <2>4. s \notin Ahead(s)
    BY <2>1, <2>2 DEF Before
  <2>5. <<Ahead(s), Ahead(r)>> \in StrictSubsetOrdering(matches)
    BY <1>5, <2>3, <2>4 DEF StrictSubsetOrdering
  <2>6. Ahead(s) \in fronts
    BY <2>1
  <2>7. QED BY <1>3, <1>4, <2>5, <2>6
<1>6. r \in First(matches)
  BY <1>5 DEF First
<1>7. QED BY <1>6

\* A set of matching rules has exactly one that decides.
LEMMA OneDecider ==
  ASSUME NEW matches \in SUBSET Rules, matches # {}
  PROVE  \E r \in Rules : Decider(matches) = {r}
<1>1. PICK effect \in Effects : /\ Decider(matches) = First(WithEffect(effect, matches))
                                /\ WithEffect(effect, matches) # {}
  <2>1. CASE WithEffect("DENY", matches) # {}
    BY <2>1 DEF Decider, Effects
  <2>2. CASE WithEffect("DENY", matches) = {} /\ WithEffect("REQUIRE_APPROVAL", matches) # {}
    BY <2>2 DEF Decider, Effects
  <2>3. CASE WithEffect("DENY", matches) = {} /\ WithEffect("REQUIRE_APPROVAL", matches) = {}
    <3>1. WithEffect("ALLOW", matches) # {}
      BY <2>3, RowAssumption DEF WithEffect, Effects
    <3>2. QED BY <2>3, <3>1 DEF Decider, Effects
  <2>4. QED BY <2>1, <2>2, <2>3
<1> DEFINE strongest == WithEffect(effect, matches)
<1>2. strongest \in SUBSET Rules /\ strongest # {}
  BY <1>1 DEF WithEffect
<1> HIDE DEF strongest
<1>3. PICK r : r \in First(strongest)
  BY <1>2, FirstExists
<1>4. First(strongest) = {r}
  BY <1>2, <1>3, FirstIsUnique
<1>5. r \in Rules
  BY <1>2, <1>3 DEF First
<1>6. QED BY <1>1, <1>4, <1>5 DEF strongest

\* The same question about the same rules is put down to the same rule each time,
\* however many rules match and tie in priority: the order by priority and id is
\* total, so the first of the strongest effect exists and is one.
THEOREM VerdictIsUnique == Spec => []SameVerdictEveryTime
<1>1. ASSUME NEW context \in Contexts, NEW p \in Profiles \cup {Null}
      PROVE  \E verdict : Evaluations(context, p) = {verdict}
  <2>1. CASE Bounded(context) \/ Matches(context, p) = {}
    BY <2>1 DEF Evaluations
  <2>2. CASE ~Bounded(context) /\ Matches(context, p) # {}
    <3>1. Matches(context, p) \subseteq Rules
      BY DEF Matches, Active
    <3>2. PICK r \in Rules : Decider(Matches(context, p)) = {r}
      BY <2>2, <3>1, OneDecider
    <3>3. Evaluations(context, p) = {[outcome |-> OutcomeOf(Row[r].effect), decidedBy |-> r]}
      BY <2>2, <3>2 DEF Evaluations, DecidedBy
    <3>4. QED BY <3>3
  <2>3. QED BY <2>1, <2>2
<1>2. \A verdict : Cardinality({verdict}) = 1
  BY FS_Singleton
<1>3. SameVerdictEveryTime
  BY <1>1, <1>2 DEF SameVerdictEveryTime
<1>4. QED BY <1>3, PTL
=============================================================================
