------------------------------ MODULE Preferences ------------------------------
(***************************************************************************)
(* The preference actions of @bsky/sdk (sdk/src/actions/preferences.ts):   *)
(* the account's preferences are one list of typed objects, and an action  *)
(* is a function from the list the server returned to the list to put      *)
(* back.  A preference is a record whose field "type" stands for its       *)
(* $type.  A field set to undefined holds None, which reads back like a    *)
(* missing field; an update that answers `false` is None too.  The items   *)
(* of the hidden posts are called "posts" here.                            *)
(***************************************************************************)
EXTENDS SdkValues, Labels, SequencesExt

CONSTANTS FeedUris,     \* at:// URIs of feed generators
          ListUris,     \* at:// URIs of lists
          AppLabelers,  \* Client.appLabelers, a sequence of DIDs
          BadDid        \* a string that is not a DID

Following == "following"

-----------------------------------------------------------------------------
(* Lists of typed objects *)

\* Every object of a list names its type.
AllTyped(prefs) == prefs \in Seq(ToSet(prefs)) /\ \A i \in DOMAIN prefs : "type" \in DOMAIN prefs[i]

IsType(p, t) == p.type = t

\* The elements of s at the positions in `at`, in order.
Chosen(s, at) ==
    LET Upto[n \in 0 .. Len(s)] ==
            IF n = 0 THEN <<>>
            ELSE IF n \in at THEN Append(Upto[n - 1], s[n]) ELSE Upto[n - 1]
    IN Upto[Len(s)]

OfType(prefs, t) == Chosen(prefs, { i \in DOMAIN prefs : IsType(prefs[i], t) })
Without(prefs, types) == Chosen(prefs, { i \in DOMAIN prefs : prefs[i].type \notin types })
Has(prefs, t) == \E i \in DOMAIN prefs : IsType(prefs[i], t)

\* prefs.find(...): the first object of a type, None without one.
First(prefs, t) ==
    IF Has(prefs, t) THEN prefs[Min({ i \in DOMAIN prefs : IsType(prefs[i], t) })] ELSE None

\* obj.field ?? default, and the same of the first object of a type if there is one.
Field(p, f, default) ==
    IF f \notin DOMAIN p THEN default
    ELSE IF p[f] = None THEN default ELSE p[f]
Setting(prefs, t, f, default) ==
    IF Has(prefs, t) THEN Field(First(prefs, t), f, default) ELSE default

\* { ...g, ...f }
Over(f, g) == [x \in DOMAIN f \cup DOMAIN g |-> IF x \in DOMAIN f THEN f[x] ELSE g[x]]

MapSeq(Op(_), s) == [i \in DOMAIN s |-> Op(s[i])]

\* { ...p, ...fields } for every object of the type; appended when there is none.
Assign(prefs, t, fields) ==
    IF Has(prefs, t)
    THEN [i \in DOMAIN prefs |-> IF IsType(prefs[i], t) THEN Over(fields, prefs[i]) ELSE prefs[i]]
    ELSE Append(prefs, Over(fields, [type |-> t]))

\* prefs.find(...) ?? a new object
Existing(prefs, t, new) == IF Has(prefs, t) THEN First(prefs, t) ELSE new

\* The objects of the type go, and one is put at the end.
MoveToEnd(prefs, t, object) == Append(Without(prefs, {t}), object)

\* new Set([...]) spread back: first occurrences in order.
Distinct(s) == Chosen(s, { i \in DOMAIN s : \A j \in 1 .. i - 1 : s[j] # s[i] })

-----------------------------------------------------------------------------
(* Saved feeds *)

GetSavedFeedType(uri) ==
    IF uri = Following THEN "timeline"
    ELSE IF uri \in FeedUris THEN "feed"
    ELSE IF uri \in ListUris THEN "list" ELSE None

ValidateSavedFeed(feed) ==
    /\ feed.id # None
    /\ feed.type = "feed" => feed.value \in FeedUris
    /\ feed.type = "list" => feed.value \in ListUris

SavedFeedsToUriArrays(feeds) ==
    [ pinned |-> MapSeq(LAMBDA f : f.value, SelectSeq(feeds, LAMBDA f : f.pinned)),
      saved  |-> MapSeq(LAMBDA f : f.value, feeds) ]

\* A stable sort on `pinned`.
PinnedFirst(feeds) ==
    SelectSeq(feeds, LAMBDA f : f.pinned) \o SelectSeq(feeds, LAMBDA f : ~f.pinned)

\* The v2 list is replaced and moved to the end; with a v1 preference present
\* its URI arrays only ever grow by those of the new v2 list.
WriteSavedFeeds(prefs, items) ==
    LET sorted == PinnedFirst(items)
        compat == SavedFeedsToUriArrays(SelectSeq(sorted, LAMBDA f : f.type \in {"feed", "list"}))
        v2 == [Existing(prefs, "savedFeedsV2", [type |-> "savedFeedsV2", items |-> <<>>]) EXCEPT !.items = sorted]
        v1 == [First(prefs, "savedFeeds") EXCEPT !.saved = Distinct(@ \o compat.saved),
                                                 !.pinned = Distinct(@ \o compat.pinned)]
    IN IF Has(prefs, "savedFeeds") THEN Without(prefs, {"savedFeedsV2", "savedFeeds"}) \o <<v2, v1>>
       ELSE MoveToEnd(prefs, "savedFeedsV2", v2)

V2Items(prefs) == Setting(prefs, "savedFeedsV2", "items", <<>>)

AddSavedFeeds(prefs, feeds) == WriteSavedFeeds(prefs, V2Items(prefs) \o feeds)

RemoveSavedFeeds(prefs, ids) ==
    WriteSavedFeeds(prefs, SelectSeq(V2Items(prefs), LAMBDA f : ~Contains(ids, f.id)))

\* Only `pinned` is taken from the update.
UpdateSavedFeeds(prefs, updates) ==
    LET UpdateOf(f) == SelectInSeq(updates, LAMBDA u : u.id = f.id)
        Updated(f) == IF UpdateOf(f) = 0 THEN f ELSE [f EXCEPT !.pinned = updates[UpdateOf(f)].pinned]
    IN WriteSavedFeeds(prefs, MapSeq(Updated, V2Items(prefs)))

\* Deduplicated by id; the last occurrence keeps its place.
LastById(feeds) ==
    Chosen(feeds, { i \in DOMAIN feeds : \A j \in i + 1 .. Len(feeds) : feeds[j].id # feeds[i].id })

OverwriteSavedFeeds(prefs, feeds) == WriteSavedFeeds(prefs, LastById(feeds))

AddPinnedFeed(prefs, uri) ==
    LET MovedLast(s) == Append(Remove(s, uri), uri)
    IN Assign(prefs, "savedFeeds", [saved  |-> MovedLast(Setting(prefs, "savedFeeds", "saved", <<>>)),
                                    pinned |-> MovedLast(Setting(prefs, "savedFeeds", "pinned", <<>>))])

RemovePinnedFeed(prefs, uri) ==
    LET v1 == First(prefs, "savedFeeds")
    IN IF v1 = None THEN None
       ELSE Assign(prefs, "savedFeeds", [pinned |-> Remove(v1.pinned, uri)])

\* getPreferences: the list a first read without v2 writes.  The timeline comes
\* first, then v1's pinned feeds, then those it only saved; ids are fresh.
NeedsMigration(prefs) == ~Has(prefs, "savedFeedsV2")

MigratedFeeds(prefs, fresh) ==
    LET Known(s) == SelectSeq(s, LAMBDA u : GetSavedFeedType(u) \in {"feed", "list"})
        pinned == Distinct(Known(Setting(prefs, "savedFeeds", "pinned", <<>>)))
        saved == SelectSeq(Distinct(Known(Setting(prefs, "savedFeeds", "saved", <<>>))), LAMBDA u : ~Contains(pinned, u))
        uris == <<Following>> \o pinned \o saved
    IN [i \in DOMAIN uris |-> [id |-> fresh + i, type |-> GetSavedFeedType(uris[i]), value |-> uris[i],
                               pinned |-> i <= 1 + Len(pinned)]]

-----------------------------------------------------------------------------
(* Content labels *)

LABEL_REMAP == [nsfw |-> "porn", gore |-> "graphic-media", suggestive |-> "sexual"]
LABEL_REMAP_REVERSE ==
    [l \in {"porn", "graphic-media", "sexual"} |-> CHOOSE old \in DOMAIN LABEL_REMAP : LABEL_REMAP[old] = l]

NormalizeVisibility(v) == IF v = "show" THEN "ignore" ELSE v

\* Mutant: the setting replaces every labeler's.
PutLabelForAll(prefs, keys, value, did) ==
    SelectSeq(prefs, LAMBDA p : ~(IsType(p, "contentLabel") /\ Contains(keys, p.label)))
        \o [k \in DOMAIN keys |->
               [type |-> "contentLabel", label |-> keys[k], labelerDid |-> did, visibility |-> value]]

\* The preferences for these labels and this labeler are removed, and put at the end.
PutLabel(prefs, keys, value, did) ==
    Chosen(prefs, { i \in DOMAIN prefs : ~(/\ IsType(prefs[i], "contentLabel")
                                           /\ Contains(keys, prefs[i].label) /\ prefs[i].labelerDid = did) })
        \o [k \in DOMAIN keys |->
               [type |-> "contentLabel", label |-> keys[k], labelerDid |-> did, visibility |-> value]]

SetContentLabelPref(prefs, key, value, did) ==
    PutLabel(prefs, IF did = None /\ key \in DOMAIN LABEL_REMAP_REVERSE
                    THEN <<key, LABEL_REMAP_REVERSE[key]>> ELSE <<key>>, value, did)

-----------------------------------------------------------------------------
(* Muted words *)

\* A muted word's text is a sequence of pieces: "sp" a blank, "nl" a line break,
\* "zw" a zero-width character, "vs" the variation selector, "#", or a word.
SanitizeMutedWordValue(v) ==
    LET ink == {i \in DOMAIN v : v[i] \notin {"sp", "nl"}}
        trimmed == IF ink = {} THEN <<>> ELSE SubSeq(v, Min(ink), Max(ink))
        bare == IF /\ trimmed # <<>> /\ trimmed[1] = "#"
                   /\ ~(Len(trimmed) > 1 /\ trimmed[2] = "vs")
                THEN Tail(trimmed) ELSE trimmed
        hidden == {i \in DOMAIN bare : bare[i] \in {"nl", "zw"}}
        from == Min(hidden)
        past == Min({i \in from..Len(bare) + 1 : i \notin hidden})
    IN IF hidden = {} THEN bare        \* the last replace is not global: one run only
       ELSE SubSeq(bare, 1, from - 1) \o SubSeq(bare, past, Len(bare))

MigrateLegacyMutedWordsItems(items, fresh) ==
    [i \in DOMAIN items |-> IF items[i].id = None THEN [items[i] EXCEPT !.id = fresh + i] ELSE items[i]]

MatchMutedWord(existing, new) ==
    IF existing.id # None THEN existing.id = new.id ELSE existing.value = new.value

\* The list of words, with ids for those that had none, moved to the end.
WriteMutedWords(prefs, items, fresh) ==
    MoveToEnd(prefs, "mutedWords",
        [Existing(prefs, "mutedWords", [type |-> "mutedWords", items |-> <<>>])
            EXCEPT !.items = MigrateLegacyMutedWordsItems(items, fresh)])

MutedWordItems(prefs) == Setting(prefs, "mutedWords", "items", <<>>)

AddMutedWord(prefs, word, fresh) ==
    LET new == [id |-> fresh, value |-> SanitizeMutedWordValue(word.value),
                targets |-> Field(word, "targets", {}), actorTarget |-> Field(word, "actorTarget", "all"),
                expiresAt |-> Field(word, "expiresAt", None)]
    IN WriteMutedWords(prefs, Append(MutedWordItems(prefs), new), fresh)

\* Every match takes the update's fields but keeps (or receives) its own id.
UpdateMutedWord(prefs, word, fresh) ==
    LET Clean(v) == SanitizeMutedWordValue(v)
        Merged(old) == word @@ old
        Changed(old) ==
            [id |-> old.id,
             value |-> IF Clean(Merged(old).value) = <<>> THEN old.value ELSE Clean(Merged(old).value),
             targets |-> Field(Merged(old), "targets", {}),
             actorTarget |-> Field(Merged(old), "actorTarget", "all"),
             expiresAt |-> Field(Merged(old), "expiresAt", None)]
    IN IF ~Has(prefs, "mutedWords") THEN prefs
       ELSE WriteMutedWords(prefs,
                MapSeq(LAMBDA old : IF MatchMutedWord(old, word) THEN Changed(old) ELSE old,
                       MutedWordItems(prefs)), fresh)

\* Only the first match goes.
RemoveMutedWord(prefs, word, fresh) ==
    IF ~Has(prefs, "mutedWords") THEN prefs
    ELSE WriteMutedWords(prefs,
            RemoveFirstMatch(MutedWordItems(prefs), LAMBDA old : MatchMutedWord(old, word)), fresh)

-----------------------------------------------------------------------------
(* Views, details and lists of things hidden, followed or dismissed *)

SetAdultContentEnabled(prefs, enabled) == Assign(prefs, "adultContent", [enabled |-> enabled])

SetFeedViewPrefs(prefs, feed, updates) ==
    LET mine == { i \in DOMAIN prefs : IsType(prefs[i], "feedView") /\ prefs[i].feed = feed }
        updated == Over(updates, IF mine = {} THEN [type |-> "feedView", feed |-> feed] ELSE prefs[Min(mine)])
    IN IF mine = {} THEN Append(prefs, updated)
       ELSE [i \in DOMAIN prefs |-> IF i \in mine THEN updated ELSE prefs[i]]

SetThreadViewPrefs(prefs, updates) ==
    Assign(prefs, "threadView",
           IF Has(prefs, "threadView") THEN Over(updates, First(prefs, "threadView")) ELSE updates)

SetPersonalDetails(prefs, birthDate) == Assign(prefs, "personalDetails", [birthDate |-> birthDate])

\* `now` is the time the update runs at.
SetInterestsPref(prefs, tags, now) == Assign(prefs, "interests", [tags |-> tags, updatedAt |-> now])

HidePost(prefs, uri) ==
    LET hidden == Setting(prefs, "hiddenPosts", "posts", <<>>)
    IN IF Contains(hidden, uri) THEN None
       ELSE Assign(prefs, "hiddenPosts", [posts |-> Append(hidden, uri)])

UnhidePost(prefs, uri) ==
    IF ~Has(prefs, "hiddenPosts") THEN None
    ELSE Assign(prefs, "hiddenPosts", [posts |-> Remove(First(prefs, "hiddenPosts").posts, uri)])

AddLabeler(prefs, did) ==
    LET labelers == Setting(prefs, "labelers", "labelers", <<>>)
    IN IF Contains(labelers, did) THEN None
       ELSE Assign(prefs, "labelers", [labelers |-> Append(labelers, did)])

RemoveLabeler(prefs, did) ==
    IF ~Has(prefs, "labelers") THEN None
    ELSE Assign(prefs, "labelers", [labelers |-> Remove(First(prefs, "labelers").labelers, did)])

AppState(prefs, f, default) == Setting(prefs, "bskyAppState", f, default)

QueueNudges(prefs, nudges) ==
    LET queued == AppState(prefs, "queuedNudges", <<>>)
    IN Assign(prefs, "bskyAppState",
              [queuedNudges |-> queued \o SelectSeq(nudges, LAMBDA n : ~Contains(queued, n))])

DismissNudges(prefs, nudges) ==
    IF ~Has(prefs, "bskyAppState") THEN None
    ELSE Assign(prefs, "bskyAppState",
                [queuedNudges |-> SelectSeq(AppState(prefs, "queuedNudges", <<>>),
                                            LAMBDA n : ~Contains(nudges, n))])

SetIsBetaUser(prefs, isBetaUser) == Assign(prefs, "bskyAppState", [isBetaUser |-> isBetaUser])

SetActiveProgressGuide(prefs, guide) == Assign(prefs, "bskyAppState", [activeProgressGuide |-> guide])

\* The schema of a nux, and no other key.
ValidateNux(nux) ==
    /\ {"id", "completed"} \subseteq DOMAIN nux
    /\ DOMAIN nux \subseteq {"id", "completed", "data", "expiresAt"}

UpsertNux(prefs, nux) ==
    LET nuxs == AppState(prefs, "nuxs", <<>>)
        at == SelectInSeq(nuxs, LAMBDA n : n.id = nux.id)
    IN Assign(prefs, "bskyAppState",
              [nuxs |-> IF at = 0 THEN Append(nuxs, nux) ELSE ReplaceAt(nuxs, at, nux)])

RemoveNuxs(prefs, ids) ==
    IF ~Has(prefs, "bskyAppState") THEN None
    ELSE Assign(prefs, "bskyAppState",
                [nuxs |-> SelectSeq(AppState(prefs, "nuxs", <<>>), LAMBDA n : ~Contains(ids, n.id))])

SetVerificationPrefs(prefs, updates) == Assign(prefs, "verification", updates)

\* undefined means "everyone": both fields are replaced, never merged.
SetPostInteractionSettings(prefs, threadgate, postgate) ==
    MoveToEnd(prefs, "postInteractionSettings",
        Over([threadgateAllowRules |-> threadgate, postgateEmbeddingRules |-> postgate],
             Existing(prefs, "postInteractionSettings", [type |-> "postInteractionSettings"])))

UpdateLiveEventPreferences(prefs, kind, id) ==
    LET hidden == Distinct(Setting(prefs, "liveEvent", "hiddenFeedIds", <<>>))
        hideAll == Setting(prefs, "liveEvent", "hideAllFeeds", FALSE)
        settings ==
            [hiddenFeedIds |-> CASE kind = "hideFeed"           -> Distinct(Append(hidden, id))
                                 [] kind = "unhideFeed"         -> Remove(hidden, id)
                                 [] kind = "toggleHideAllFeeds" -> hidden,
             hideAllFeeds |-> IF kind = "toggleHideAllFeeds" THEN ~hideAll ELSE hideAll]
    IN MoveToEnd(prefs, "liveEvent", Over(settings, Existing(prefs, "liveEvent", [type |-> "liveEvent"])))

-----------------------------------------------------------------------------
(* The action a call names, as a callback on the list.  `fresh` is the      *)
(* first of the TIDs the callback may draw, `now` the time.                  *)

Apply(op, prefs, fresh, now) ==
    CASE op.call = "addSavedFeeds"          -> AddSavedFeeds(prefs, op.feeds)
      [] op.call = "removeSavedFeeds"       -> RemoveSavedFeeds(prefs, op.ids)
      [] op.call = "updateSavedFeeds"       -> UpdateSavedFeeds(prefs, op.feeds)
      [] op.call = "overwriteSavedFeeds"    -> OverwriteSavedFeeds(prefs, op.feeds)
      [] op.call = "addPinnedFeed"          -> AddPinnedFeed(prefs, op.uri)
      [] op.call = "removePinnedFeed"       -> RemovePinnedFeed(prefs, op.uri)
      [] op.call = "setAdultContentEnabled" -> SetAdultContentEnabled(prefs, op.enabled)
      [] op.call = "setContentLabelPref"    -> SetContentLabelPref(prefs, op.key, op.value, op.did)
      [] op.call = "setFeedViewPrefs"       -> SetFeedViewPrefs(prefs, op.feed, op.updates)
      [] op.call = "setThreadViewPrefs"     -> SetThreadViewPrefs(prefs, op.updates)
      [] op.call = "setPersonalDetails"     -> SetPersonalDetails(prefs, op.birthDate)
      [] op.call = "setInterestsPref"       -> SetInterestsPref(prefs, op.tags, now)
      [] op.call = "addMutedWord"           -> AddMutedWord(prefs, op.word, fresh)
      [] op.call = "updateMutedWord"        -> UpdateMutedWord(prefs, op.word, fresh)
      [] op.call = "removeMutedWord"        -> RemoveMutedWord(prefs, op.word, fresh)
      [] op.call = "hidePost"               -> HidePost(prefs, op.uri)
      [] op.call = "unhidePost"             -> UnhidePost(prefs, op.uri)
      [] op.call = "addLabeler"             -> AddLabeler(prefs, op.did)
      [] op.call = "removeLabeler"          -> RemoveLabeler(prefs, op.did)
      [] op.call = "queueNudges"            -> QueueNudges(prefs, op.nudges)
      [] op.call = "dismissNudges"          -> DismissNudges(prefs, op.nudges)
      [] op.call = "setIsBetaUser"          -> SetIsBetaUser(prefs, op.isBetaUser)
      [] op.call = "setActiveProgressGuide" -> SetActiveProgressGuide(prefs, op.guide)
      [] op.call = "upsertNux"              -> UpsertNux(prefs, op.nux)
      [] op.call = "removeNuxs"             -> RemoveNuxs(prefs, op.ids)
      [] op.call = "setVerificationPrefs"   -> SetVerificationPrefs(prefs, op.updates)
      [] op.call = "setPostInteractionSettings" ->
             SetPostInteractionSettings(prefs, op.threadgate, op.postgate)
      [] op.call = "updateLiveEventPreferences" -> UpdateLiveEventPreferences(prefs, op.kind, op.id)

\* A call of an action, as its parameters' types allow it: updates never name a type.
PrefsCall(op) ==
    /\ op.call \in {"addSavedFeeds", "removeSavedFeeds", "updateSavedFeeds", "overwriteSavedFeeds",
                    "addPinnedFeed", "removePinnedFeed", "setAdultContentEnabled", "setContentLabelPref",
                    "setFeedViewPrefs", "setThreadViewPrefs", "setPersonalDetails", "setInterestsPref",
                    "addMutedWord", "updateMutedWord", "removeMutedWord", "hidePost", "unhidePost",
                    "addLabeler", "removeLabeler", "queueNudges", "dismissNudges", "setIsBetaUser",
                    "setActiveProgressGuide", "upsertNux", "removeNuxs", "setVerificationPrefs",
                    "setPostInteractionSettings", "updateLiveEventPreferences"}
    /\ op.call \in {"setFeedViewPrefs", "setThreadViewPrefs", "setVerificationPrefs"} =>
          "type" \notin DOMAIN op.updates

\* What an action checks before it joins the chain; a failure rejects the call.
Valid(op) ==
    CASE op.call = "setContentLabelPref" -> op.did # BadDid
      [] op.call = "addLabeler"          -> op.did # BadDid
      [] op.call = "upsertNux"           -> ValidateNux(op.nux)
      [] op.call \in {"addSavedFeeds", "updateSavedFeeds", "overwriteSavedFeeds"} ->
             \A i \in DOMAIN op.feeds : ValidateSavedFeed(op.feeds[i])
      [] OTHER -> TRUE

-----------------------------------------------------------------------------
(* getPreferences: the list read into one object, with `saved` as its saved  *)
(* feeds (the v2 items, or the list a migration just wrote).                 *)

\* The content labels set for one labeler, or (None) for all.
LabelPrefs(prefs, did) ==
    Chosen(prefs, { i \in DOMAIN prefs : IsType(prefs[i], "contentLabel") /\ prefs[i].labelerDid = did })

GlobalLabels(labelPrefs) ==
    LET Step(labels, p) ==
            LET v == NormalizeVisibility(p.visibility)
                new == IF p.label \in DOMAIN LABEL_REMAP THEN LABEL_REMAP[p.label] ELSE p.label
            IN (p.label :> v) @@ (new :> v) @@ labels
    IN FoldLeft(Step, DEFAULT_LABEL_SETTINGS, labelPrefs)
LabelsOf(prefs) == GlobalLabels(LabelPrefs(prefs, None))

LabelerLabels(labelPrefs) ==
    FoldLeft(LAMBDA acc, p : (p.label :> NormalizeVisibility(p.visibility)) @@ acc, <<>>, labelPrefs)
LabelersOf(prefs) ==
    LET dids == Distinct(AppLabelers \o Setting(prefs, "labelers", "labelers", <<>>))
        Own(did) == IF did = None THEN <<>> ELSE LabelPrefs(prefs, did)
    IN [i \in DOMAIN dids |-> [did |-> dids[i], labels |-> LabelerLabels(Own(dids[i]))]]

FeedViewDefaults ==
    [hideReplies |-> FALSE, hideRepliesByUnfollowed |-> TRUE, hideRepliesByLikeCount |-> 0,
     hideReposts |-> FALSE, hideQuotePosts |-> FALSE]

\* lab_ fields are read only when they are booleans.
FeedViewOf(p) ==
    [f \in DOMAIN FeedViewDefaults \cup (DOMAIN p \cap {"lab_mergeFeedEnabled"}) |->
        IF f \in DOMAIN FeedViewDefaults THEN Field(p, f, FeedViewDefaults[f]) ELSE p[f]]

FeedViews(views) ==
    LET Step(acc, p) == (p.feed :> FeedViewOf(p)) @@ acc
    IN FoldLeft(Step, <<>>, views) @@ ("home" :> FeedViewDefaults)
FeedViewsOf(prefs) == FeedViews(OfType(prefs, "feedView"))

ThreadViewOf(prefs) ==
    LET p == First(prefs, "threadView")
    IN [f \in {"sort"} \cup (IF p = None THEN {} ELSE DOMAIN p \cap {"lab_treeViewEnabled"}) |->
        IF f = "sort" THEN Setting(prefs, "threadView", "sort", "hotness") ELSE p[f]]

MutedWordsOf(prefs) ==
    MapSeq(LAMBDA w : [w EXCEPT !.actorTarget = IF @ = None THEN "all" ELSE @], MutedWordItems(prefs))

Interpret(prefs, saved) ==
    LET F(t, f, default) == Setting(prefs, t, f, default)
    IN [ feeds |-> [saved |-> F("savedFeeds", "saved", None), pinned |-> F("savedFeeds", "pinned", None)],
         savedFeeds |-> saved,
         feedViewPrefs |-> FeedViewsOf(prefs),
         threadViewPrefs |-> ThreadViewOf(prefs),
         adultContentEnabled |-> F("adultContent", "enabled", FALSE),
         labels |-> LabelsOf(prefs),
         labelers |-> LabelersOf(prefs),
         mutedWords |-> MutedWordsOf(prefs),
         hiddenPosts |-> F("hiddenPosts", "posts", <<>>),
         birthDate |-> F("personalDetails", "birthDate", None),
         declaredAge |-> First(prefs, "declaredAge"),
         interests |-> [tags |-> F("interests", "tags", <<>>), updatedAt |-> F("interests", "updatedAt", None)],
         queuedNudges |-> F("bskyAppState", "queuedNudges", <<>>),
         activeProgressGuide |-> F("bskyAppState", "activeProgressGuide", None),
         nuxs |-> F("bskyAppState", "nuxs", <<>>),
         isBetaUser |-> F("bskyAppState", "isBetaUser", None),
         threadgateAllowRules |-> F("postInteractionSettings", "threadgateAllowRules", None),
         postgateEmbeddingRules |-> F("postInteractionSettings", "postgateEmbeddingRules", None),
         hideBadges |-> F("verification", "hideBadges", FALSE),
         hiddenFeedIds |-> F("liveEvent", "hiddenFeedIds", <<>>),
         hideAllFeeds |-> F("liveEvent", "hideAllFeeds", FALSE) ]
================================================================================
