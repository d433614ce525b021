------------------------------ MODULE AgeAssurance ------------------------------
(***************************************************************************)
(* Age assurance (sdk/src/utils/age-assurance.ts): which region's rules    *)
(* apply to a user, and the access the first rule that holds grants.       *)
(* Dates are numbers; a value that is not known is None.                   *)
(***************************************************************************)
EXTENDS SdkValues, SequencesExt, Integers

CONSTANTS Regions,       \* the configuration: sequence of [countryCode, regionCode, platforms, rules]
          People,        \* what may be known of a user: [accountCreatedAt, declaredAge, assuredAge]
          Places         \* [countryCode, regionCode, platform] a client may be at

VARIABLES person, place,
          computed,      \* the access was asked for
          access         \* what was granted, None when no region or no rule applies

ageVars == <<person, place, computed, access>>

RegionMatches(region, filters) ==
    /\ filters.platform # None /\ region.platforms # <<>> => filters.platform \in ToSet(region.platforms)
    /\ region.countryCode = filters.countryCode
    /\ region.regionCode # None => region.regionCode = filters.regionCode

\* The first region that matches.
GetAgeAssuranceRegionConfig(regions, filters) ==
    LET found == {i \in DOMAIN regions : RegionMatches(regions[i], filters)}
    IN IF found = {} THEN None ELSE regions[Min(found)]

Known(n) == n # None
\* An assured age of 0 counts as none.
Assured(data) == Known(data.assuredAge) /\ data.assuredAge # 0

\* Mutant: an assured age does not set the account rules aside.
CreationKnown(data) == Known(data.accountCreatedAt)

\* The date of the account counts only without an assured age.
CreationCounts(data) == Known(data.accountCreatedAt) /\ ~Assured(data)

RuleHolds(rule, data) ==
    CASE rule.type \in {"IfAccountNewerThan", "IfAccountOlderThan"} ->
            /\ CreationCounts(data)
            /\ (rule.type = "IfAccountNewerThan") <=> (data.accountCreatedAt >= rule.date)
      [] rule.type \in {"IfDeclaredOverAge", "IfDeclaredUnderAge"} ->
            /\ Known(data.declaredAge)
            /\ (rule.type = "IfDeclaredOverAge") <=> (data.declaredAge >= rule.age)
      [] rule.type \in {"IfAssuredOverAge", "IfAssuredUnderAge"} ->
            /\ Assured(data)
            /\ (rule.type = "IfAssuredOverAge") <=> (data.assuredAge >= rule.age)
      [] rule.type = "Default" -> TRUE
      [] OTHER -> FALSE

\* First match wins; None when no rule holds.
ComputeAgeAssuranceRegionAccess(region, data) ==
    LET holding == {i \in DOMAIN region.rules : RuleHolds(region.rules[i], data)}
        first == region.rules[Min(holding)]
    IN IF holding = {} THEN None ELSE [access |-> first.access, reason |-> first.type]

AccessOf(data, filters) ==
    LET region == GetAgeAssuranceRegionConfig(Regions, filters)
    IN IF region = None THEN None
       ELSE ComputeAgeAssuranceRegionAccess(region, data)

AgeInit == person \in People /\ place \in Places /\ computed = FALSE /\ access = None

ComputeAccess ==
    /\ ~computed
    /\ computed' = TRUE
    /\ access' = AccessOf(person, place)
    /\ UNCHANGED <<person, place>>

AgeNext == ComputeAccess

\* Once a third party has assured an age, the date the account was created decides
\* nothing: the access is the one the same person has with any other date, or none.
AssuredAgeDecides ==
    (computed /\ Assured(person)) =>
        \A data \in People :
            (data.declaredAge = person.declaredAge /\ data.assuredAge = person.assuredAge)
                => AccessOf(data, place) = access

\* The inductive invariant.
AgeInv == person \in People /\ (computed => access = AccessOf(person, place))
===============================================================================
