------------------------------ MODULE MCModeration ------------------------------
(***************************************************************************)
(* Views, preferences and ages for Moderation and AgeAssurance.            *)
(***************************************************************************)
EXTENDS MCPrefs

Label(src, val) == [src |-> src, val |-> val, onProfile |-> FALSE]
OnRecord(label) == [label EXCEPT !.onProfile = TRUE]

Stranger == [did |-> "alice", muted |-> FALSE, mutedByList |-> FALSE, blocking |-> FALSE,
             blockingByList |-> FALSE, blockedBy |-> FALSE, following |-> FALSE,
             labels |-> <<>>, statusLabels |-> <<>>]

Accounts ==
    << Stranger,
       [Stranger EXCEPT !.did = "me", !.muted = TRUE, !.labels = << Label("me", "porn"), Label("appLabeler", "!hide") >>],
       [Stranger EXCEPT !.muted = TRUE, !.mutedByList = TRUE, !.blockedBy = TRUE, !.following = TRUE,
                        !.labels = << OnRecord(Label("appLabeler", "porn")) >>],
       [Stranger EXCEPT !.muted = TRUE, !.blocking = TRUE,
                        !.labels = << Label("labelerA", "gore"), Label("labelerA", "spoiler"),
                                      OnRecord(Label("alice", "!no-unauthenticated")) >>],
       [Stranger EXCEPT !.blocking = TRUE, !.blockingByList = TRUE,
                        !.labels = << OnRecord(Label("labelerA", "rude")), Label("labelerB", "spoiler"),
                                      Label("alice", "spoiler"), Label("labelerA", "unheard-of") >>,
                        !.statusLabels = << Label("appLabeler", "nudity"), Label("labelerA", "naked") >>],
       [Stranger EXCEPT !.following = TRUE, !.labels = << Label("appLabeler", "!warn") >>,
                        !.statusLabels = << Label("alice", "graphic-media") >>] >>

ContentLabels == << <<>>, << Label("appLabeler", "!hide"), Label("labelerA", "spoiler"), Label("alice", "porn") >>,
                    << Label("labelerA", "naked"), Label("appLabeler", "sexual"), Label("labelerA", "rude") >> >>

Post(author, labels, record, embed) ==
    [kind |-> "post", uri |-> "p1", author |-> author, labels |-> labels, record |-> record, embed |-> embed]
PostRecord(text, media) == [text |-> text, tags |-> << <<"t", "a">> >>, langs |-> <<"en">>, media |-> media]
Media(kind, texts) == [kind |-> kind, texts |-> texts]

Texts == << <<"c", "a", "t">>,
            <<"c", "/", "a", "sp", "c", "a", "t">>,
            <<"#", "c", ".", "a", ".", "t", ".", "sp", "sp", "d", "o", "/", "x">>,
            <<"c", "a", "sp", "c", ".", "a", "t">> >>

Quote(kind, author, labels, value) ==
    [kind |-> kind, uri |-> "p9", author |-> author, labels |-> labels, value |-> value]
Record_(quoted) == [kind |-> "record", record |-> quoted, media |-> None]
WithMedia(quoted, media) == [kind |-> "withMedia", record |-> quoted, media |-> media]
Embeds ==
    << [kind |-> "none"],
       [kind |-> "external", media |-> Media("external", << Texts[1] >>)],
       Record_(Quote("viewRecord", Accounts[4], ContentLabels[2], PostRecord(Texts[2], Media("images", << Texts[4] >>)))),
       Record_(Quote("viewRecord", Accounts[3], ContentLabels[3],
                     [PostRecord(<<"x">>, Media("withGallery", << Texts[1] >>)) EXCEPT !.langs = <<"ja">>])),
       Record_(Quote("viewRecord", Accounts[1], <<>>, None)),
       Record_(Quote("blocked", Accounts[5], <<>>, None)),
       WithMedia(Quote("viewRecord", Accounts[6], ContentLabels[2], PostRecord(<<"x">>, None)),
                 Media("gallery", << <<"x">>, Texts[3] >>)),
       WithMedia(Quote("viewRecord", Accounts[3], <<>>, None), Media("external", << Texts[4] >>)) >>

AccountViews(kind) == [i \in DOMAIN Accounts |-> [kind |-> kind] @@ Accounts[i]]
Owned(kind) ==
    [i \in 1 .. Len(Accounts) * Len(ContentLabels) |->
        [kind |-> kind, owner |-> Accounts[1 + (i - 1) \div Len(ContentLabels)], did |-> "alice",
         labels |-> ContentLabels[1 + ((i - 1) % Len(ContentLabels))]]]
Unowned(kind) ==
    [i \in 1 .. 3 * Len(ContentLabels) |->
        [kind |-> kind, owner |-> None, did |-> <<"alice", "me", "">>[1 + (i - 1) \div Len(ContentLabels)],
         labels |-> ContentLabels[1 + ((i - 1) % Len(ContentLabels))]]]
Posts ==
    [i \in 1 .. Len(Accounts) * Len(Embeds) |->
        Post(Accounts[1 + (i - 1) \div Len(Embeds)], ContentLabels[1 + (i % 3)],
             IF i % 5 = 0 THEN None
             ELSE [PostRecord(Texts[1 + (i % 4)], IF i % 2 = 0 THEN Media("gallery", << Texts[4], Texts[3] >>) ELSE None)
                     EXCEPT !.langs = <<<<"en">>, <<"ja">>, <<>>>>[1 + (i % 3)]],
             Embeds[1 + ((i - 1) % Len(Embeds))])]

MCSubjects == AccountViews("profile") \o AccountViews("status") \o Posts \o Owned("feed") \o Owned("list")
              \o Owned("notification") \o Unowned("list") \o Unowned("external") \o Unowned("profileLink")

Adult(on) == [type |-> "adultContent", enabled |-> on]
Muting(value, targets, actor, expires) ==
    [Word(1, value, actor) EXCEPT !.targets = targets, !.expiresAt = expires]
MutedList(words) == [type |-> "mutedWords", items |-> words]
Subscribed == [type |-> "labelers", labelers |-> <<"labelerA">>]

MCStoredLists ==
    << NewAccount, OldAccount, FullAccount,
       << Adult(FALSE), Subscribed, LabelPref("porn", None, "ignore"), LabelPref("spoiler", "labelerA", "hide"),
          LabelPref("naked", "labelerA", "ignore"), LabelPref("rude", None, "hide"),
          [type |-> "hiddenPosts", posts |-> <<"p9">>],
          MutedList(<< Muting(<<"c", "a", "t">>, {"content"}, "exclude-following", None),
                       Muting(<<"c", "a">>, {"content"}, None, "future"), Muting(<<"o">>, {"tag"}, None, None) >>) >>,
       << Adult(TRUE), Subscribed, LabelPref("porn", None, "show"), LabelPref("gore", "labelerA", "hide"),
          LabelPref("spoiler", None, "ignore"), LabelPref("sexual", None, "hide"),
          [type |-> "hiddenPosts", posts |-> <<"p1">>],
          MutedList(<< Muting(<<"t", "a">>, {"tag"}, None, "past"), Muting(<<"a", "t">>, {"content"}, None, None),
                       Muting(<<"c", "sp", "a", "sp", "t">>, {"content"}, None, None),
                       Muting(<<"d", "o", "x">>, {"content"}, None, None), Muting(<<"a", "sp">>, {"content"}, None, None) >>) >>,
       << Adult(TRUE), Subscribed,
          MutedList(<< Muting(<<"c", "a">>, {"content"}, None, None), Muting(<<"d", "o">>, {"content"}, None, None),
                       Muting(<<"a">>, {"content"}, None, "past"), Muting(<<"d", "o", "/", "x">>, {"content"}, None, None) >>) >>,
       << Subscribed, MutedList(<< Muting(<<"t", "a">>, {"tag"}, "exclude-following", None) >>) >> >>

MCViewers == {"me", None}

LabelValue(id, severity, blurs, adultOnly, setting) ==
    [identifier |-> id, severity |-> severity, blurs |-> blurs, adultOnly |-> adultOnly, defaultSetting |-> setting]
MCLabelDefs ==
    ("labelerA" :> << LabelValue("spoiler", "inform", "content", FALSE, "warn"),
                      LabelValue("rude", "alert", "none", FALSE, "ignore"),
                      LabelValue("naked", "none", "content", TRUE, "hide"),
                      LabelValue("gore", "inform", "media", FALSE, "odd"),
                      LabelValue("!hide", "none", "odd", FALSE, "ignore") >>)
    @@ ("labelerB" :> << LabelValue("spoiler", "none", "media", FALSE, "hide") >>)

-----------------------------------------------------------------------------
Rule(type, age, date, access) == [type |-> type, age |-> age, date |-> date, access |-> access]
Region(country, region, platforms, rules) ==
    [countryCode |-> country, regionCode |-> region, platforms |-> platforms, rules |-> rules]
MCRegions ==
    << Region("AA", "01", <<"ios">>, << Rule("IfAccountNewerThan", 0, 5, "none"), Rule("IfAssuredUnderAge", 16, 0, "none"),
                                        Rule("IfDeclaredUnderAge", 18, 0, "safe"), Rule("Default", 0, 0, "full") >>),
       Region("AA", None, <<>>, << Rule("IfAssuredOverAge", 18, 0, "full"), Rule("IfAccountOlderThan", 0, 5, "full"),
                                   Rule("IfDeclaredOverAge", 13, 0, "safe") >>),
       Region("BB", None, <<"web">>, << Rule("Unheard", 0, 0, "full"), Rule("IfDeclaredOverAge", 18, 0, "full"),
                                        Rule("IfAccountOlderThan", 0, 4, "safe"), Rule("Default", 0, 0, "none") >>) >>
MCPeople == [accountCreatedAt : {None, 4, 5}, declaredAge : {None, 12, 18}, assuredAge : {None, 0, 15, 16, 18}]
MCPlaces == [countryCode : {"AA", "BB", "CC"}, regionCode : {None, "01"}, platform : {None, "ios", "web"}]
================================================================================
