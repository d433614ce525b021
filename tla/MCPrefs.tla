-------------------------------- MODULE MCPrefs --------------------------------
(***************************************************************************)
(* Values for the preference calls: an account that never stored anything, *)
(* one an old client left behind, one with every preference set; each call *)
(* alone on each of them, and the calls worth racing together.             *)
(***************************************************************************)
EXTENDS SdkValues, Sequences, Integers, SequencesExt, TLC

MCFeedUris == {"feedA", "feedB"}
MCListUris == {"listA"}
MCAppLabelers == <<"appLabeler">>

Feed(id, type, value, pinned) == [id |-> id, type |-> type, value |-> value, pinned |-> pinned]
Word(id, value, actor) ==
    [id |-> id, value |-> value, targets |-> {"content"}, actorTarget |-> actor, expiresAt |-> None]
LabelPref(label, did, v) == [type |-> "contentLabel", label |-> label, labelerDid |-> did, visibility |-> v]

NewAccount == <<>>

OldAccount ==
    << [type |-> "adultContent", enabled |-> TRUE],
       LabelPref("nsfw", None, "show"), LabelPref("gore", None, "hide"),
       LabelPref("gore", "labelerA", "show"),
       [type |-> "savedFeeds", saved |-> <<"feedA", "listA", "lost">>, pinned |-> <<"feedA", "lost">>],
       [type |-> "labelers", labelers |-> <<"labelerA">>],
       [type |-> "mutedWords", items |-> << Word(None, <<"cat">>, None), Word(None, <<"dog">>, None),
                                            Word(None, <<"cat">>, None) >>],
       [type |-> "feedView", feed |-> "list", hideReposts |-> TRUE],
       [type |-> "bskyAppState", queuedNudges |-> <<"n1">>] >>

FullAccount ==
    << [type |-> "savedFeedsV2", items |-> << Feed(1, "timeline", "following", TRUE),
            Feed(2, "feed", "feedA", TRUE), Feed(3, "list", "listA", FALSE) >>],
       [type |-> "savedFeeds", saved |-> <<"feedA", "listA">>, pinned |-> <<"feedA">>],
       LabelPref("porn", None, "warn"), LabelPref("nsfw", None, "warn"),
       LabelPref("spoiler", "labelerA", "hide"), LabelPref("spoiler", "appLabeler", "warn"),
       [type |-> "labelers", labelers |-> <<"labelerA", "labelerB">>],
       [type |-> "feedView", feed |-> "home", hideReplies |-> TRUE, lab_mergeFeedEnabled |-> TRUE],
       [type |-> "threadView", sort |-> "newest", lab_treeViewEnabled |-> TRUE],
       [type |-> "hiddenPosts", posts |-> <<"p1">>],
       [type |-> "mutedWords", items |-> << Word(4, <<"cat">>, "all"), Word(None, <<"dog">>, None) >>],
       [type |-> "bskyAppState", queuedNudges |-> <<"n1", "n2">>, isBetaUser |-> TRUE,
            nuxs |-> << [id |-> "x1", completed |-> FALSE], [id |-> "x2", completed |-> TRUE] >>],
       [type |-> "interests", tags |-> <<"birds">>, updatedAt |-> 0],
       [type |-> "personalDetails", birthDate |-> "1990"],
       [type |-> "declaredAge", isOverAge13 |-> TRUE],
       [type |-> "postInteractionSettings", threadgateAllowRules |-> <<"mention">>],
       [type |-> "verification", hideBadges |-> TRUE],
       [type |-> "liveEvent", hiddenFeedIds |-> <<"e1">>, hideAllFeeds |-> FALSE] >>

-----------------------------------------------------------------------------
SavedFeedCalls ==
    << [call |-> "addSavedFeeds", feeds |-> << Feed(None, "list", "listA", FALSE), Feed(None, "feed", "feedB", TRUE) >>],
       [call |-> "addSavedFeeds", feeds |-> << Feed(None, "feed", "listA", TRUE) >>],
       [call |-> "removeSavedFeeds", ids |-> <<1, 3>>],
       [call |-> "updateSavedFeeds", feeds |-> << Feed(3, "list", "listA", TRUE), Feed(2, "feed", "feedB", FALSE) >>],
       [call |-> "overwriteSavedFeeds", feeds |-> << Feed(3, "list", "listA", FALSE), Feed(2, "feed", "feedA", TRUE),
                                                     Feed(3, "list", "listA", TRUE) >>],
       [call |-> "addPinnedFeed", uri |-> "feedA"], [call |-> "addPinnedFeed", uri |-> "feedB"],
       [call |-> "removePinnedFeed", uri |-> "feedA"],
       [call |-> "getPreferences"] >>

LabelCall(key, v, did) == [call |-> "setContentLabelPref", key |-> key, value |-> v, did |-> did]
LabelCalls ==
    << LabelCall("porn", "hide", None), LabelCall("nsfw", "ignore", None), LabelCall("graphic-media", "show", None),
       LabelCall("nudity", "warn", None), LabelCall("spoiler", "ignore", "labelerA"),
       LabelCall("gore", "warn", "labelerB"), LabelCall("porn", "hide", "labelerA"),
       LabelCall("porn", "hide", "bad"),
       [call |-> "addLabeler", did |-> "labelerA"], [call |-> "addLabeler", did |-> "bad"],
       [call |-> "removeLabeler", did |-> "labelerA"], [call |-> "removeLabeler", did |-> "appLabeler"],
       [call |-> "setAdultContentEnabled", enabled |-> FALSE] >>

Muted(v) == [value |-> v, targets |-> {"tag"}, actorTarget |-> "exclude-following"]
WordCalls ==
    << [call |-> "addMutedWord", word |-> Muted(<<"sp", "#", "zw", "bird", "zw", "nl">>)],
       [call |-> "addMutedWords", words |-> << Muted(<<"#", "vs">>), Muted(<<"sp", "nl">>), Muted(<<"cat">>) >>],
       [call |-> "updateMutedWord", word |-> Word(4, <<"#", "cow">>, None)],
       [call |-> "updateMutedWord", word |-> [id |-> 9, value |-> <<"cat">>]],
       [call |-> "removeMutedWord", word |-> Word(None, <<"dog">>, None)],
       [call |-> "removeMutedWords", words |-> << Word(4, <<"cat">>, None), Word(None, <<"cat">>, None) >>] >>

OtherCalls ==
    << [call |-> "setFeedViewPrefs", feed |-> "home", updates |-> [hideReplies |-> FALSE, hideQuotePosts |-> TRUE]],
       [call |-> "setFeedViewPrefs", feed |-> "list", updates |-> [lab_mergeFeedEnabled |-> FALSE]],
       [call |-> "setThreadViewPrefs", updates |-> [sort |-> "oldest"]],
       [call |-> "setThreadViewPrefs", updates |-> [lab_treeViewEnabled |-> FALSE]],
       [call |-> "setPersonalDetails", birthDate |-> "2000"], [call |-> "setPersonalDetails", birthDate |-> None],
       [call |-> "setInterestsPref", tags |-> <<"art">>],
       [call |-> "hidePost", uri |-> "p1"], [call |-> "unhidePost", uri |-> "p1"],
       [call |-> "queueNudges", nudges |-> <<"n1", "n3">>], [call |-> "dismissNudges", nudges |-> <<"n1">>],
       [call |-> "setIsBetaUser", isBetaUser |-> FALSE],
       [call |-> "setActiveProgressGuide", guide |-> "follow"], [call |-> "setActiveProgressGuide", guide |-> None],
       [call |-> "upsertNux", nux |-> [id |-> "x1", completed |-> TRUE, data |-> "d"]],
       [call |-> "upsertNux", nux |-> [id |-> "x9", completed |-> TRUE, extra |-> "d"]],
       [call |-> "removeNuxs", ids |-> <<"x1">>],
       [call |-> "setVerificationPrefs", updates |-> [hideBadges |-> FALSE]],
       [call |-> "setPostInteractionSettings", threadgate |-> None, postgate |-> <<"disable">>],
       [call |-> "updateLiveEventPreferences", kind |-> "hideFeed", id |-> "e2"],
       [call |-> "updateLiveEventPreferences", kind |-> "unhideFeed", id |-> "e1"],
       [call |-> "updateLiveEventPreferences", kind |-> "toggleHideAllFeeds", id |-> None] >>

\* Every call alone.
MapCalls(calls, Op(_)) == [i \in DOMAIN calls |-> Op(calls[i])]

Alone(start) ==
    MapCalls(SavedFeedCalls \o LabelCalls \o WordCalls \o OtherCalls,
             LAMBDA op : [start |-> start, script |-> ("c1" :> <<op>>) @@ ("c2" :> <<>>)])

\* Calls of one client, and of two, in flight together.
Race(start, one, two) == [start |-> start, script |-> ("c1" :> one) @@ ("c2" :> two)]
AddFeed(uri, pinned) == [call |-> "addSavedFeeds", feeds |-> << Feed(None, "feed", uri, pinned) >>]
GetCall == [call |-> "getPreferences"]
Hide(p) == [call |-> "hidePost", uri |-> p]

Races ==
    << Race(NewAccount, << AddFeed("feedA", FALSE), Hide("p1"), AddFeed("feedB", TRUE) >>, <<>>),
       Race(NewAccount, << GetCall, AddFeed("feedA", FALSE), GetCall >>, <<>>),
       Race(OldAccount, << WordCalls[2], Hide("p2") >>, <<>>),
       Race(NewAccount, << Hide("p1"), Hide("p2") >>, << Hide("p3") >>),
       Race(OldAccount, << LabelCall("porn", "hide", None), LabelCall("porn", "warn", None) >>,
                        << LabelCall("nsfw", "ignore", None) >>),
       Race(NewAccount, << GetCall, Hide("p1") >>, << AddFeed("feedB", TRUE) >>) >>

MCScenarios == Alone(NewAccount) \o Alone(OldAccount) \o Alone(FullAccount) \o Races
================================================================================
