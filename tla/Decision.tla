-------------------------------- MODULE Decision --------------------------------
(***************************************************************************)
(* Moderation decisions and what they do to the interface                  *)
(* (sdk/src/moderation/decision.ts, types.ts, ui.ts, util.ts).  A decision *)
(* is a list of causes about one account; `opts` holds the signed-in DID   *)
(* (None when there is none), the user's moderation preferences as         *)
(* getPreferences returns them, and the labelers' own label definitions.   *)
(***************************************************************************)
EXTENDS SdkValues, Labels, SequencesExt

BLOCK_BEHAVIOR ==
    [Does("blur", {"profileList", "avatar", "banner", "contentList", "contentView"})
        EXCEPT !.profileView = "alert"]
MUTE_BEHAVIOR ==
    [Does("inform", {"profileList", "contentView"}) EXCEPT !.profileView = "alert", !.contentList = "blur"]
MUTEWORD_BEHAVIOR == Does("blur", {"contentList", "contentView"})
HIDE_BEHAVIOR == Does("blur", {"contentList", "contentView"})

\* CUSTOM_LABEL_VALUE_RE: the values that may be a labeler's own; the system labels
\* start with "!", which it refuses.
CustomLabelValue(val) == val \notin {"!hide", "!warn", "!no-unauthenticated"}

\* A label definition a labeler publishes: [identifier, severity, blurs, adultOnly, defaultSetting].
InterpretLabelValueDefinition(def) ==
    LET note == IF def.severity \in {"alert", "inform"} THEN def.severity ELSE ""
        view == IF def.adultOnly THEN "blur" ELSE note
        none == NOOP_BEHAVIOR
        profile == Does(note, {"profileList", "profileView"})
        media == [profile EXCEPT !.avatar = "blur", !.banner = "blur"]
        behaviors ==
            CASE def.blurs = "content" ->
                    [account |-> [profile EXCEPT !.contentList = "blur", !.contentView = view],
                     profile |-> profile,
                     content |-> [none EXCEPT !.contentList = "blur", !.contentView = view]]
              [] def.blurs = "media" ->
                    [account |-> media, profile |-> media, content |-> Does("blur", {"contentMedia"})]
              [] def.blurs = "none" ->
                    [account |-> [profile EXCEPT !.contentList = note, !.contentView = note],
                     profile |-> profile,
                     content |-> Does(note, {"contentList", "contentView"})]
              [] OTHER -> [t \in Targets |-> none]
    IN Def(def.identifier, TRUE,
           IF def.defaultSetting \in {"hide", "ignore"} THEN def.defaultSetting ELSE "warn",
           {"no-self"} \cup (IF def.adultOnly THEN {"adult"} ELSE {}), behaviors)

-----------------------------------------------------------------------------
(* Causes *)

\* `behavior` and the fields after it say something of labels only.
Cause(type, source, priority, behavior) ==
    [type |-> type, source |-> source, priority |-> priority, behavior |-> behavior,
     downgraded |-> FALSE, label |-> "", target |-> "", setting |-> "", noOverride |-> FALSE]

NewDecision(did, opts) == [did |-> did, isMe |-> did = opts.userDid, causes |-> <<>>]
AddCause(decision, cause) == [decision EXCEPT !.causes = Append(@, cause)]
AddIf(decision, condition, cause) == IF condition THEN AddCause(decision, cause) ELSE decision

AddHidden(d, hidden)     == AddIf(d, hidden, Cause("hidden", "user", 6, HIDE_BEHAVIOR))
AddMatches(d, matches)   == AddIf(d, matches # <<>>, Cause("mute-word", "user", 6, MUTEWORD_BEHAVIOR))
AddBlocking(d, source)   == AddCause(d, Cause("blocking", source, 3, BLOCK_BEHAVIOR))
AddBlockedBy(d, blocked) == AddIf(d, blocked, Cause("blocked-by", "user", 4, BLOCK_BEHAVIOR))
AddMuted(d, source)      == AddCause(d, Cause("muted", source, 6, MUTE_BEHAVIOR))

\* merge(): the first decision says whom it is about, the causes of both are kept.
Merge(decision, other) == [decision EXCEPT !.causes = @ \o other.causes]

Downgrade(decision) ==
    [decision EXCEPT !.causes = [i \in DOMAIN @ |-> [@[i] EXCEPT !.downgraded = TRUE]]]

-----------------------------------------------------------------------------
(* Labels *)

\* The labeler's own definition, else the one every client knows, else None.
LabelDef(label, opts) ==
    LET published == IF label.src \in DOMAIN opts.labelDefs /\ CustomLabelValue(label.val)
                     THEN opts.labelDefs[label.src] ELSE <<>>
        own == { i \in DOMAIN published : published[i].identifier = label.val }
    IN IF own # {} THEN published[Min(own)]
       ELSE IF label.val \in KnownValues THEN LABELS[label.val] ELSE None

\* The labeler as the preferences have it, None when the user does not subscribe to it.
SubscribesTo(src, opts) == \E i \in DOMAIN opts.prefs.labelers : opts.prefs.labelers[i].did = src
Labeler(src, opts) ==
    LET labelers == opts.prefs.labelers
    IN IF SubscribesTo(src, opts) THEN labelers[Min({ i \in DOMAIN labelers : labelers[i].did = src })]
       ELSE None

AdultOff(def, opts) == "adult" \in def.flags /\ ~opts.prefs.adultContentEnabled

\* Mutant: the user's setting for the labeler goes before the adult switch.
LabelerFirst(def, labeler, opts) ==
    LET id == def.identifier
    IN CASE ~def.configurable                                     -> def.defaultSetting
         [] labeler # None /\ id \in DOMAIN labeler.labels        -> labeler.labels[id]
         [] AdultOff(def, opts)                                   -> "hide"
         [] id \in DOMAIN opts.prefs.labels                       -> opts.prefs.labels[id]
         [] OTHER                                                 -> def.defaultSetting

\* The setting that applies: first what the user may not change, then the adult
\* switch, then the user's setting for the labeler, then the global one.
LabelSetting(def, labeler, opts) ==
    LET id == def.identifier
    IN CASE ~def.configurable                                     -> def.defaultSetting
         [] AdultOff(def, opts)                                   -> "hide"
         [] labeler # None /\ id \in DOMAIN labeler.labels        -> labeler.labels[id]
         [] id \in DOMAIN opts.prefs.labels                       -> opts.prefs.labels[id]
         [] OTHER                                                 -> def.defaultSetting

Severity(behavior) ==
    CASE "blur" \in {behavior.profileView, behavior.contentView}  -> "High"
      [] "blur" \in {behavior.contentList, behavior.contentMedia} -> "Medium"
      [] OTHER                                                    -> "Low"

NoOverride(def, opts) == "no-override" \in def.flags \/ AdultOff(def, opts)

LabelPriority(def, target, setting, opts) ==
    LET severity == Severity(def.behaviors[target])
    IN CASE NoOverride(def, opts) -> 1
         [] setting = "hide"      -> 2
         [] severity = "High"     -> 5
         [] severity = "Medium"   -> 7
         [] OTHER                 -> 8

\* The setting of a label on something of the account `did`: a self-label has no labeler.
SettingOf(label, did, opts) ==
    LabelSetting(LabelDef(label, opts), IF label.src = did THEN None ELSE Labeler(label.src, opts), opts)

\* The early returns of addLabel(): for a label nothing defines, that may not be put on
\* one's own things or is for visitors only, that is not subscribed to, or set to ignore.
Refuses(def, own, opts) ==
    \/ def = None
    \/ own /\ "no-self" \in def.flags
    \/ "unauthed" \in def.flags /\ opts.userDid # None
Ignored(label, did, opts) ==
    \/ Refuses(LabelDef(label, opts), label.src = did, opts)
    \/ label.src # did /\ ~SubscribesTo(label.src, opts)
    \/ SettingOf(label, did, opts) = "ignore"

CauseOf(label, target, source, def, setting, opts) ==
    [Cause("label", source, LabelPriority(def, target, setting, opts), def.behaviors[target])
       EXCEPT !.label = label.val, !.target = target, !.setting = setting,
              !.noOverride = NoOverride(def, opts)]
LabelCause(label, target, did, opts) ==
    CauseOf(label, target, IF label.src = did THEN "user" ELSE label.src,
            LabelDef(label, opts), SettingOf(label, did, opts), opts)

AddLabels(decision, target, labels, opts) ==
    LET heeded == Keep(labels, { i \in DOMAIN labels : ~Ignored(labels[i], decision.did, opts) })
    IN [decision EXCEPT !.causes =
          @ \o [i \in DOMAIN heeded |-> LabelCause(heeded[i], target, decision.did, opts)]]

-----------------------------------------------------------------------------
(* ui(context): what filters, blurs, alerts and informs, the weightiest first. *)

Blocks == {"blocking", "blocked-by", "block-other"}

Filters(cause, context, isMe) ==
    CASE cause.type \in Blocks \cup {"muted"} -> ~isMe /\ context \in {"profileList", "contentList"}
      [] cause.type = "mute-word"             -> ~isMe /\ context = "contentList"
      [] cause.type = "hidden"                -> context \in {"profileList", "contentList"}
      [] cause.type = "label" -> /\ cause.setting = "hide" /\ ~isMe
                                 /\ \/ context = "profileList" /\ cause.target = "account"
                                    \/ context = "contentList" /\ cause.target \in {"account", "content"}

\* A cause about the user's own account does nothing, unless it is a label or hidden by hand.
Acts(cause, isMe) == ~cause.downgraded /\ (cause.type \in {"label", "hidden"} \/ ~isMe)

\* What blurs because of it may not be looked at.
Final(cause, isMe) == cause.type \in Blocks \/ (cause.type = "label" /\ cause.noOverride /\ ~isMe)

UI(decision, context) ==
    LET causes == decision.causes
        priority == [i \in DOMAIN causes |-> causes[i].priority]
        filtering == { i \in DOMAIN causes : Filters(causes[i], context, decision.isMe) }
        Doing(what) == { i \in DOMAIN causes :
                           Acts(causes[i], decision.isMe) /\ causes[i].behavior[context] = what }
    IN [ filters |-> Ranked(causes, filtering, priority),
         blurs |-> Ranked(causes, Doing("blur"), priority),
         alerts |-> Keep(causes, Doing("alert")),
         informs |-> Keep(causes, Doing("inform")),
         noOverride |-> \E i \in Doing("blur") : Final(causes[i], decision.isMe) ]

\* mergeModUIResults, for an element under several decisions or contexts.
MergeUIs(uis) ==
    LET All(field) == FlattenSeq([i \in DOMAIN uis |-> uis[i][field]])
    IN [ filters |-> All("filters"), blurs |-> All("blurs"),
         alerts |-> All("alerts"), informs |-> All("informs"),
         noOverride |-> \E i \in DOMAIN uis : uis[i].noOverride ]
================================================================================
