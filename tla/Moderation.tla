------------------------------- MODULE Moderation -------------------------------
(***************************************************************************)
(* What the client decides about each thing it shows                       *)
(* (sdk/src/moderation/index.ts and subjects/): an account, its status, a  *)
(* post with what it quotes, a feed, a list, a notification, a link, under *)
(* the preferences that getPreferences reads from a stored list.           *)
(*                                                                         *)
(* An account's view is [did, muted, mutedByList, blocking,                *)
(* blockingByList, blockedBy, following, labels, statusLabels]; a label is *)
(* [src, val, onProfile], onProfile for one put on the profile record.     *)
(***************************************************************************)
EXTENDS Preferences, Decision, MuteWords

CONSTANTS Subjects,      \* sequence of [kind, ...] views
          StoredLists,   \* sequence of stored preference lists
          Viewers,       \* DIDs of the signed-in user; None: signed out
          LabelDefs      \* labeler DID -> definitions it publishes

\* A view has the fields the lexicon requires, and its labels are a list.
HasFields(r, fields) == fields \subseteq DOMAIN r /\ r = [f \in DOMAIN r |-> r[f]]
IsAccount(a) ==
    /\ HasFields(a, {"did", "muted", "mutedByList", "blocking", "blockingByList", "blockedBy",
                     "following", "labels", "statusLabels"})
    /\ IsList(a.labels) /\ IsList(a.statusLabels)
IsMedia(m) == m # None => IsList(m.texts) /\ \A i \in DOMAIN m.texts : IsList(m.texts[i])
IsRecord(r) == r # None => IsList(r.text) /\ IsMedia(r.media)
IsEmbed(e) ==
    /\ HasFields(e, {"kind"})
    /\ e.kind \in {"external", "withMedia"} => "media" \in DOMAIN e /\ IsMedia(e.media)
    /\ e.kind \in {"record", "withMedia"} =>
          /\ "record" \in DOMAIN e
          /\ HasFields(e.record, {"kind"})
          /\ e.record.kind \in {"viewRecord", "blocked"} =>
                "author" \in DOMAIN e.record /\ IsAccount(e.record.author)
          /\ e.record.kind = "viewRecord" =>
                /\ {"uri", "labels", "value"} \subseteq DOMAIN e.record
                /\ IsList(e.record.labels) /\ IsRecord(e.record.value)
IsView(v) ==
    /\ v.kind \in {"profile", "status", "post", "feed", "list", "notification", "external", "profileLink"}
    /\ v.kind \in {"profile", "status"} => IsAccount(v)
    /\ v.kind \notin {"profile", "status"} => IsList(v.labels)
    /\ v.kind \in {"feed", "notification"} => IsAccount(v.owner)
    /\ v.kind = "list" => (v.owner = None \/ IsAccount(v.owner))
    /\ v.kind = "post" => /\ HasFields(v, {"kind", "uri", "author", "labels", "record", "embed"})
                          /\ IsAccount(v.author) /\ IsRecord(v.record) /\ IsEmbed(v.embed)

\* A stored list is one, and the muted words in it have their fields.
IsMutedWord(w) == HasFields(w, {"value", "targets", "actorTarget", "expiresAt"}) /\ IsList(w.value)
IsStored(prefs) ==
    /\ IsList(prefs)
    /\ \A i \in DOMAIN prefs : prefs[i].type = "mutedWords" =>
          /\ IsList(prefs[i].items)
          /\ \A k \in DOMAIN prefs[i].items : IsMutedWord(prefs[i].items[k])

ASSUME ViewsAssumption == \A i \in DOMAIN Subjects : IsView(Subjects[i])
ASSUME StoredAssumption == \A i \in DOMAIN StoredLists : IsStored(StoredLists[i])
ASSUME LabelDefsAssumption == \A did \in DOMAIN LabelDefs : IsList(LabelDefs[did])

VARIABLES
    shown,      \* [subject, list, viewer]: indices of what is shown, and for whom
    verdict     \* the decision, None before it is made

moderationVars == <<shown, verdict>>

Opts(stored, userDid) ==
    LET p == Interpret(stored, <<>>)
    IN [ userDid |-> userDid,
         prefs |-> [f \in {"adultContentEnabled", "labels", "labelers", "mutedWords", "hiddenPosts"} |-> p[f]],
         labelDefs |-> [did \in DOMAIN LabelDefs |->
                          [i \in DOMAIN LabelDefs[did] |-> InterpretLabelValueDefinition(LabelDefs[did][i])]] ]

-----------------------------------------------------------------------------
(* Accounts, and what belongs to one *)

OnProfile(labels) == Keep(labels, { i \in DOMAIN labels : labels[i].onProfile })
OnAccount(labels) ==
    Keep(labels, { i \in DOMAIN labels : ~labels[i].onProfile \/ labels[i].val = "!no-unauthenticated" })

\* How the user stands to the author: muted or blocked, by hand or by a list, blocked by.
Relations(decision, account) ==
    LET By(list) == IF list THEN "list" ELSE "user"
        muted == IF account.muted THEN AddMuted(decision, By(account.mutedByList)) ELSE decision
        blocking == IF account.blocking THEN AddBlocking(muted, By(account.blockingByList)) ELSE muted
    IN AddBlockedBy(blocking, account.blockedBy)

DecideAccount(account, opts) ==
    AddLabels(Relations(NewDecision(account.did, opts), account), "account",
              OnAccount(account.labels), opts)

DecideProfile(account, opts) ==
    AddLabels(NewDecision(account.did, opts), "profile", OnProfile(account.labels), opts)

ModerateProfile(account, opts) == Merge(DecideAccount(account, opts), DecideProfile(account, opts))

DecideContent(did, labels, opts) == AddLabels(NewDecision(did, opts), "content", labels, opts)

\* A labelled thing of an account: its status, a feed, a notification, a quoted post.
DecideOwned(owner, labels, opts) ==
    Merge(DecideContent(owner.did, labels, opts), ModerateProfile(owner, opts))

DecideStatus(account, opts) == DecideOwned(account, account.statusLabels, opts)
DecideFeedGenerator(feed, opts) == DecideOwned(feed.owner, feed.labels, opts)
DecideNotification(notification, opts) == DecideOwned(notification.owner, notification.labels, opts)

\* A list without its creator is about the DID of its URI.
DecideUserList(list, opts) ==
    IF list.owner # None THEN DecideOwned(list.owner, list.labels, opts)
    ELSE DecideContent(list.did, list.labels, opts)

\* The owner is the repository the link or the backing record is in; "" when that is
\* a handle, or there is no record.
DecideViewExternal(view, opts) == DecideContent(view.did, view.labels, opts)
DecideProfileLink(link, opts) == DecideContent(link.did, link.labels, opts)

-----------------------------------------------------------------------------
(* Posts.  A post is [uri, author, labels, record, embed].  A record is       *)
(* [text, tags, langs, media], media what it attached: [kind, texts].  An     *)
(* embed is what it shows: kind "none", or "record" or "withMedia" which have *)
(* a record [kind: "viewRecord" | "blocked" | ..., ...], or "external";       *)
(* "external" and "withMedia" have media.                                     *)

Quotes(embed, kind) == embed.kind \in {"record", "withMedia"} /\ embed.record.kind = kind

\* Of a post that quotes, or shows that a block hides what it quotes.
DecideEmbed(embed, opts) ==
    LET quoted == embed.record
    IN IF Quotes(embed, "viewRecord") THEN DecideOwned(quoted.author, quoted.labels, opts)
       ELSE Relations(NewDecision(quoted.author.did, opts), quoted.author)

CheckHiddenPost(post, hiddenPosts) ==
    \/ post.uri \in ToSet(hiddenPosts)
    \/ Quotes(post.embed, "viewRecord") /\ post.embed.record.uri \in ToSet(hiddenPosts)

\* The texts muted words are looked for in, in order; of its actor a word only asks
\* whether the user follows it.
Source(text, tags, langs, actor) ==
    [text |-> text, tags |-> tags, langs |-> langs, following |-> actor.following]
Alts(media, kinds, langs, actor) ==
    IF media = None \/ (media # None => media.kind \notin kinds) THEN <<>>
    ELSE [i \in DOMAIN media.texts |-> Source(media.texts[i], <<>>, langs, actor)]

Pictures == {"images", "gallery"}

OwnSources(record, actor) ==
    IF record = None THEN <<>>
    ELSE <<Source(record.text, record.tags, record.langs, actor)>>
         \o Alts(record.media, Pictures, record.langs, actor)

\* A quoted post's attachments: link cards, and what it attached to a quote of its own,
\* are read as being in no language.
QuotedSources(quoted) ==
    IF quoted.value = None THEN <<>>
    ELSE OwnSources(quoted.value, quoted.author)
         \o Alts(quoted.value.media,
                 {"external", "withExternal", "withImages", "withGallery"}, <<>>, quoted.author)

\* In a quote with media, the quoted author stands for the author of the media.
EmbedSources(post) ==
    LET embed == post.embed
        quoted == embed.record
        langs == IF post.record = None THEN <<>> ELSE post.record.langs
    IN IF embed.kind = "external" THEN Alts(embed.media, {"external"}, <<>>, post.author)
       ELSE IF ~Quotes(embed, "viewRecord") THEN <<>>
       ELSE IF embed.kind = "record" THEN QuotedSources(quoted)
       ELSE (IF quoted.value = None THEN <<>>
             ELSE <<Source(quoted.value.text, quoted.value.tags, quoted.value.langs, quoted.author)>>)
            \o Alts(embed.media, Pictures, langs, quoted.author)
            \o Alts(embed.media, {"external"}, <<>>, quoted.author)

MuteSources(post) == OwnSources(post.record, post.author) \o EmbedSources(post)

\* The matches of the first text that has any.
MatchAllMuteWords(post, mutedWords) ==
    LET sources == MuteSources(post)
        hits == { i \in DOMAIN sources : MatchMuteWords(mutedWords, sources[i]) # <<>> }
    IN IF hits = {} THEN <<>> ELSE MatchMuteWords(mutedWords, sources[Min(hits)])

DecideSubject(post, opts) ==
    LET labelled == DecideContent(post.author.did, post.labels, opts)
        hidden == AddHidden(labelled, CheckHiddenPost(post, opts.prefs.hiddenPosts))
    IN IF hidden.isMe THEN hidden
       ELSE AddMatches(hidden, MatchAllMuteWords(post, opts.prefs.mutedWords))

DecidePost(post, opts) ==
    LET subject == DecideSubject(post, opts)
        embed == post.embed
        mine == IF Quotes(embed, "viewRecord") \/ Quotes(embed, "blocked")
                THEN Merge(subject, Downgrade(DecideEmbed(embed, opts))) ELSE subject
    IN Merge(mine, ModerateProfile(post.author, opts))

-----------------------------------------------------------------------------
Decide(subject, opts) ==
    CASE subject.kind = "profile"      -> ModerateProfile(subject, opts)
      [] subject.kind = "status"       -> DecideStatus(subject, opts)
      [] subject.kind = "post"         -> DecidePost(subject, opts)
      [] subject.kind = "feed"         -> DecideFeedGenerator(subject, opts)
      [] subject.kind = "list"         -> DecideUserList(subject, opts)
      [] subject.kind = "notification" -> DecideNotification(subject, opts)
      [] subject.kind = "external"     -> DecideViewExternal(subject, opts)
      [] subject.kind = "profileLink"  -> DecideProfileLink(subject, opts)

ModerationInit ==
    /\ shown \in [subject : DOMAIN Subjects, list : DOMAIN StoredLists, viewer : Viewers]
    /\ verdict = None

Subject == Subjects[shown.subject]
ShownOpts == Opts(StoredLists[shown.list], shown.viewer)

Moderate ==
    /\ verdict = None
    /\ verdict' = Decide(Subject, ShownOpts)
    /\ UNCHANGED shown

ModerationNext == Moderate

\* The inductive invariant: a verdict is what Decide says of what is shown.
ModerationInv ==
    /\ shown \in [subject : DOMAIN Subjects, list : DOMAIN StoredLists, viewer : Viewers]
    /\ verdict # None => verdict = Decide(Subject, ShownOpts)

-----------------------------------------------------------------------------
\* The user's own content is never filtered, but by hand, nor locked.
OwnContentStays ==
    verdict.isMe => \A c \in Contexts :
        /\ \A f \in ToSet(UI(verdict, c).filters) : f.type = "hidden"
        /\ ~UI(verdict, c).noOverride

\* The same things are locked as if every label were set to "ignore", or none set.
WithSettings(opts, Set(_)) ==
    LET labelers == opts.prefs.labelers
    IN [opts EXCEPT !.prefs.labels = Set(@),
                    !.prefs.labelers = [i \in DOMAIN labelers |->
                        [did |-> labelers[i].did, labels |-> Set(labelers[i].labels)]]]
AllIgnored(labels) == [l \in DOMAIN labels |-> "ignore"]
Unset(labels) == <<>>
LocksStand ==
    LET Locks(decision) == { c \in Contexts : UI(decision, c).noOverride }
    IN /\ Locks(verdict) = Locks(Decide(Subject, WithSettings(ShownOpts, AllIgnored)))
       /\ Locks(verdict) = Locks(Decide(Subject, WithSettings(ShownOpts, Unset)))

\* What a quoted post and its author are labelled, muted or blocked as may drop the
\* quoting post from a list but never blurs it or adds a note to it.
Plain(account) ==
    [account EXCEPT !.muted = FALSE, !.blocking = FALSE, !.blockedBy = FALSE, !.labels = <<>>]
PlainQuote(post) ==
    LET quoted == [post.embed.record EXCEPT !.labels = <<>>, !.author = Plain(@)]
        embed == [post.embed EXCEPT !.record = quoted]
    IN [post EXCEPT !.embed = embed]
QuotesOnlyFilter ==
    (Subject.kind = "post" /\ (Subject.kind = "post" => Quotes(Subject.embed, "viewRecord"))) =>
        LET plain == Decide(PlainQuote(Subject), ShownOpts)
        IN \A c \in Contexts : \A part \in {"blurs", "alerts", "informs", "noOverride"} :
              UI(verdict, c)[part] = UI(plain, c)[part]

\* An element under several contexts is as locked as the strictest one, and the first
\* cause shown for a blur is of the greatest weight.
StrictestFirst ==
    LET avatar == UI(verdict, "avatar")
        list == UI(verdict, "contentList")
    IN /\ MergeUIs(<<avatar, list>>).noOverride = (avatar.noOverride \/ list.noOverride)
       /\ \A c \in Contexts : \A b \in ToSet(UI(verdict, c).blurs) :
             UI(verdict, c).blurs[1].priority <= b.priority

\* The rules of decision.ts, for every subject and all preferences.
DecisionsHonourSettings ==
    verdict # None => OwnContentStays /\ LocksStand /\ QuotesOnlyFilter /\ StrictestFirst

\* Another account's post is muted by words when, and only when, some muted word by
\* itself mutes one of its texts; the words it is shown with are all those of that text.
MutedWordsMute ==
    (verdict # None /\ Subject.kind = "post") =>
        LET words == ToSet(ShownOpts.prefs.mutedWords)
            sources == ToSet(MuteSources(Subject))
            muted == \E m \in words, s \in sources : Mutes(m, s)
        IN /\ (\E i \in DOMAIN verdict.causes : verdict.causes[i].type = "mute-word")
                 <=> (muted /\ ~verdict.isMe)
           /\ \A s \in sources :
                 ToSet(MatchMuteWords(ShownOpts.prefs.mutedWords, s)) = { m \in words : Mutes(m, s) }
===============================================================================
