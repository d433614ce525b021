---------------------------------- MODULE Sdk ----------------------------------
(***************************************************************************)
(* @bsky/sdk.  Its parts share no state: they are the preference calls of  *)
(* PrefsWrite, the profile updates of ProfileUpsert, the TIDs of Tid, the  *)
(* texts of RichText, the decisions of Moderation (which read stored       *)
(* preferences through Preferences) and the accesses of AgeAssurance.  In  *)
(* each behavior one of them, `part`, is at work and the others rest.      *)
(***************************************************************************)
EXTENDS PrefsWrite, ProfileUpsert, Tid, RichText, Moderation, AgeAssurance

VARIABLE part

sdkVars == <<part, prefsVars, profileVars, tidVars, textVars, moderationVars, ageVars>>

PrefsRest ==
    /\ scenario = 1 /\ stored = <<>>
    /\ issued = [c \in Clients |-> 0] /\ jobs = [c \in Clients |-> <<>>]
    /\ tail = [c \in Clients |-> 0] /\ gets = [c \in Clients |-> <<>>]
    /\ writes = 0 /\ tids = 0 /\ faults = 0
ProfileRest ==
    /\ profile = None
    /\ upserts = [c \in Callers |-> [phase |-> "failed", attempt |-> 0, existing |-> None, updated |-> None]]
    /\ others = 0 /\ losses = 0
TidRest ==
    /\ clock = 1 /\ tidLastTime = 0 /\ tidTimestampCount = 0
    /\ tidClockid = None /\ lastTid = None
TextRest ==
    /\ richText = [text |-> <<>>, facets |-> None] /\ detects = <<>> /\ edits = 0 /\ mixed = FALSE
ModerationRest ==
    /\ shown = [subject |-> 1, list |-> 1, viewer |-> None] /\ verdict = None
AgeRest ==
    /\ person = [accountCreatedAt |-> None, declaredAge |-> None, assuredAge |-> None]
    /\ place = [countryCode |-> None, regionCode |-> None, platform |-> None]
    /\ computed = FALSE /\ access = None

SdkInit ==
    /\ part \in {"preferences", "profile", "tid", "text", "moderation", "age"}
    /\ IF part = "preferences" THEN PrefsInit ELSE PrefsRest
    /\ IF part = "profile" THEN ProfileInit ELSE ProfileRest
    /\ IF part = "tid" THEN TidInit ELSE TidRest
    /\ IF part = "text" THEN TextInit ELSE TextRest
    /\ IF part = "moderation" THEN ModerationInit ELSE ModerationRest
    /\ IF part = "age" THEN AgeInit ELSE AgeRest

SdkNext ==
    \/ /\ part = "preferences" /\ PrefsNext
       /\ UNCHANGED <<part, profileVars, tidVars, textVars, moderationVars, ageVars>>
    \/ /\ part = "profile" /\ ProfileNext
       /\ UNCHANGED <<part, prefsVars, tidVars, textVars, moderationVars, ageVars>>
    \/ /\ part = "tid" /\ TidNext
       /\ UNCHANGED <<part, prefsVars, profileVars, textVars, moderationVars, ageVars>>
    \/ /\ part = "text" /\ TextNext
       /\ UNCHANGED <<part, prefsVars, profileVars, tidVars, moderationVars, ageVars>>
    \/ /\ part = "moderation" /\ ModerationNext
       /\ UNCHANGED <<part, prefsVars, profileVars, tidVars, textVars, ageVars>>
    \/ /\ part = "age" /\ AgeNext
       /\ UNCHANGED <<part, prefsVars, profileVars, tidVars, textVars, moderationVars>>

SdkSpec == SdkInit /\ [][SdkNext]_sdkVars /\ PrefsFairness

\* The inductive invariant of the parts that hold state between steps, of the verdict
\* and of the access that were computed.
SdkInv ==
    /\ PrefsInv /\ ListsAreTyped /\ ProfileInv /\ TidInv /\ TextInv
    /\ part = "preferences" => scenario \in DOMAIN Scenarios
    /\ part = "moderation" => ModerationInv
    /\ part # "moderation" => verdict = None
    /\ part = "age" => AgeInv
    /\ part # "age" => ~computed
================================================================================
