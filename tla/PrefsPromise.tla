----------------------------- MODULE PrefsPromise -----------------------------
(***************************************************************************)
(* What the preference actions promise about the object getPreferences     *)
(* returns, whatever the list behind it looks like: each action changes    *)
(* its own part of the object, by what its name says, and nothing else.    *)
(***************************************************************************)
EXTENDS Preferences

\* The fields of the object an action may change.
Part(op) ==
    CASE op.call \in {"addSavedFeeds", "removeSavedFeeds", "updateSavedFeeds", "overwriteSavedFeeds"}
              -> {"savedFeeds", "feeds"}
      [] op.call \in {"addPinnedFeed", "removePinnedFeed"} -> {"feeds"}
      [] op.call = "setAdultContentEnabled"      -> {"adultContentEnabled"}
      [] op.call = "setContentLabelPref"         -> IF op.did = None THEN {"labels"} ELSE {"labelers"}
      [] op.call = "setFeedViewPrefs"            -> {"feedViewPrefs"}
      [] op.call = "setThreadViewPrefs"          -> {"threadViewPrefs"}
      [] op.call = "setPersonalDetails"          -> {"birthDate"}
      [] op.call = "setInterestsPref"            -> {"interests"}
      [] op.call \in {"addMutedWord", "updateMutedWord", "removeMutedWord"} -> {"mutedWords"}
      [] op.call \in {"hidePost", "unhidePost"}  -> {"hiddenPosts"}
      [] op.call \in {"addLabeler", "removeLabeler"} -> {"labelers"}
      [] op.call \in {"queueNudges", "dismissNudges"} -> {"queuedNudges"}
      [] op.call = "setIsBetaUser"               -> {"isBetaUser"}
      [] op.call = "setActiveProgressGuide"      -> {"activeProgressGuide"}
      [] op.call \in {"upsertNux", "removeNuxs"} -> {"nuxs"}
      [] op.call = "setVerificationPrefs"        -> {"hideBadges"}
      [] op.call = "setPostInteractionSettings"  -> {"threadgateAllowRules", "postgateEmbeddingRules"}
      [] op.call = "updateLiveEventPreferences"  -> {"hiddenFeedIds", "hideAllFeeds"}

Ids(items) == {items[i].id : i \in DOMAIN items}
ById(items, id) == items[SelectLastInSeq(items, LAMBDA x : x.id = id)]
UniqueIds(items) == Cardinality(Ids(items)) = Len(items)

\* Saved feeds: pinned before the others, no id twice, and an old client that
\* reads the v1 arrays still finds what it had and everything in v2.
FeedsWellFormed(before, after) ==
    LET uris == {f.value : f \in {g \in ToSet(after.savedFeeds) : g.type # "timeline"}}
    IN /\ UniqueIds(after.savedFeeds)
       /\ IsSorted(after.savedFeeds, LAMBDA f, g : g.pinned => f.pinned)
       /\ IF before.feeds.saved = None THEN after.feeds = before.feeds
          ELSE /\ ToSet(after.feeds.saved) = ToSet(before.feeds.saved) \cup uris
               /\ ToSet(before.feeds.pinned) \subseteq ToSet(after.feeds.pinned)

FeedsPromise(op, before, after) ==
    LET old == before.savedFeeds
        new == after.savedFeeds
    IN /\ FeedsWellFormed(before, after)
       /\ CASE op.call = "addSavedFeeds"    -> ToSet(new) = ToSet(old) \cup ToSet(op.feeds)
            [] op.call = "removeSavedFeeds" -> ToSet(new) = {f \in ToSet(old) : f.id \notin ToSet(op.ids)}
            [] op.call = "overwriteSavedFeeds" ->
                   ToSet(new) = {ById(op.feeds, id) : id \in Ids(op.feeds)}
            [] op.call = "updateSavedFeeds" ->
                   /\ Ids(new) = Ids(old)
                   /\ \A id \in Ids(old) :
                        ById(new, id) = IF id \in Ids(op.feeds)
                                        THEN [ById(old, id) EXCEPT !.pinned = ById(op.feeds, id).pinned]
                                        ELSE ById(old, id)

\* A name and the names it stands for, in both directions.
Aliases(label) ==
    {label} \cup {LABEL_REMAP[l] : l \in {label} \cap DOMAIN LABEL_REMAP}
            \cup {l \in DOMAIN LABEL_REMAP : LABEL_REMAP[l] = label}

LabelsPromise(op, before, after) ==
    LET v == NormalizeVisibility(op.value)
    IN IF op.did = None
       THEN after.labels = [l \in Aliases(op.key) |-> v] @@ before.labels
       ELSE /\ DOMAIN after.labelers = DOMAIN before.labelers
            /\ \A i \in DOMAIN after.labelers :
                 /\ after.labelers[i].did = before.labelers[i].did
                 /\ after.labelers[i].labels =
                      IF after.labelers[i].did = op.did THEN (op.key :> v) @@ before.labelers[i].labels
                      ELSE before.labelers[i].labels

\* A word as it was, but for the id a legacy word receives.
SameWord(w, old) == w = [old EXCEPT !.id = w.id] /\ (old.id # None => w.id = old.id)

WordsPromise(op, before, after) ==
    LET old == before.mutedWords
        new == after.mutedWords
        hit == SelectInSeq(old, LAMBDA w : MatchMutedWord(w, op.word))
    IN /\ UniqueIds(new)
       /\ (new # old => None \notin Ids(new))
       /\ CASE op.call = "addMutedWord" ->
                 /\ Len(new) = Len(old) + 1
                 /\ \A i \in DOMAIN old : SameWord(new[i], old[i])
                 /\ Last(new).value = SanitizeMutedWordValue(op.word.value)
            [] op.call = "removeMutedWord" ->
                 LET rest == IF hit = 0 THEN old ELSE RemoveAt(old, hit)
                 IN Len(new) = Len(rest) /\ \A i \in DOMAIN rest : SameWord(new[i], rest[i])
            [] op.call = "updateMutedWord" ->
                 /\ Len(new) = Len(old)
                 /\ \A i \in DOMAIN old :
                      IF MatchMutedWord(old[i], op.word)
                      THEN /\ new[i].value \in {SanitizeMutedWordValue(op.word.value), old[i].value}
                           /\ (old[i].id # None => new[i].id = old[i].id)
                      ELSE SameWord(new[i], old[i])

ListPromise(op, before, after) ==
    LET Dids(o) == {l.did : l \in ToSet(o.labelers)}
    IN CASE op.call = "hidePost"   -> ToSet(after.hiddenPosts) = ToSet(before.hiddenPosts) \cup {op.uri}
         [] op.call = "unhidePost" -> ToSet(after.hiddenPosts) = ToSet(before.hiddenPosts) \ {op.uri}
         [] op.call = "addLabeler"    -> Dids(after) = Dids(before) \cup {op.did}
         [] op.call = "removeLabeler" -> Dids(after) = Dids(before) \ ({op.did} \ ToSet(AppLabelers))
         [] op.call = "queueNudges" ->
                ToSet(after.queuedNudges) = ToSet(before.queuedNudges) \cup ToSet(op.nudges)
         [] op.call = "dismissNudges" ->
                ToSet(after.queuedNudges) = ToSet(before.queuedNudges) \ ToSet(op.nudges)
         [] op.call = "upsertNux" ->
                /\ UniqueIds(after.nuxs)
                /\ ToSet(after.nuxs) = {n \in ToSet(before.nuxs) : n.id # op.nux.id} \cup {op.nux}
         [] op.call = "removeNuxs" ->
                ToSet(after.nuxs) = {n \in ToSet(before.nuxs) : n.id \notin ToSet(op.ids)}
         [] op.call = "addPinnedFeed" ->
                /\ Last(after.feeds.saved) = op.uri /\ Last(after.feeds.pinned) = op.uri
                /\ before.feeds.saved # None =>
                     ToSet(after.feeds.saved) = ToSet(before.feeds.saved) \cup {op.uri}
         [] op.call = "removePinnedFeed" ->
                before.feeds.pinned # None =>
                  /\ op.uri \notin ToSet(after.feeds.pinned)
                  /\ after.feeds.saved = before.feeds.saved

ValuePromise(op, before, after) ==
    CASE op.call = "setAdultContentEnabled" -> after.adultContentEnabled = op.enabled
      [] op.call = "setFeedViewPrefs" ->
             after.feedViewPrefs = (op.feed :> (op.updates @@
                 (IF op.feed \in DOMAIN before.feedViewPrefs THEN before.feedViewPrefs[op.feed]
                  ELSE FeedViewDefaults))) @@ before.feedViewPrefs
      [] op.call = "setThreadViewPrefs" -> after.threadViewPrefs = op.updates @@ before.threadViewPrefs
      [] op.call = "setPersonalDetails" -> after.birthDate = op.birthDate
      [] op.call = "setInterestsPref" ->
             after.interests.tags = op.tags /\ after.interests.updatedAt # None
      [] op.call = "setIsBetaUser" -> after.isBetaUser = op.isBetaUser
      [] op.call = "setActiveProgressGuide" -> after.activeProgressGuide = op.guide
      [] op.call = "setVerificationPrefs" -> after.hideBadges = op.updates.hideBadges
      [] op.call = "setPostInteractionSettings" ->
             /\ after.threadgateAllowRules = op.threadgate
             /\ after.postgateEmbeddingRules = op.postgate
      [] op.call = "updateLiveEventPreferences" ->
             /\ after.hideAllFeeds = (before.hideAllFeeds # (op.kind = "toggleHideAllFeeds"))
             /\ ToSet(after.hiddenFeedIds) =
                  CASE op.kind = "hideFeed"   -> ToSet(before.hiddenFeedIds) \cup {op.id}
                    [] op.kind = "unhideFeed" -> ToSet(before.hiddenFeedIds) \ {op.id}
                    [] OTHER                  -> ToSet(before.hiddenFeedIds)

\* Every other part stays as it was.
Untouched(op, before, after) == \A f \in DOMAIN before \ Part(op) : after[f] = before[f]

\* The whole promise: the action's part as it says, and every other part as it was.
Promise(op, before, after) ==
    /\ Untouched(op, before, after)
    /\ CASE op.call \in {"addSavedFeeds", "removeSavedFeeds", "updateSavedFeeds", "overwriteSavedFeeds"}
                -> FeedsPromise(op, before, after)
         [] op.call = "setContentLabelPref" -> LabelsPromise(op, before, after)
         [] op.call \in {"addMutedWord", "updateMutedWord", "removeMutedWord"}
                -> WordsPromise(op, before, after)
         [] op.call \in {"hidePost", "unhidePost", "addLabeler", "removeLabeler", "queueNudges",
                         "dismissNudges", "upsertNux", "removeNuxs", "addPinnedFeed", "removePinnedFeed"}
                -> ListPromise(op, before, after)
         [] OTHER -> ValuePromise(op, before, after)
===============================================================================
