------------------------------- MODULE MuteWords -------------------------------
(***************************************************************************)
(* Muted words against a text (sdk/src/moderation/mutewords.ts).  Texts    *)
(* and muted words are sequences of symbols without case: letters, the     *)
(* punctuation "." "/" "#" and the space "sp".  The punctuation variants   *)
(* of each word of the text are computed once and kept for the muted words *)
(* that follow.                                                            *)
(***************************************************************************)
EXTENDS SdkValues, SequencesExt, Integers

Punctuation == {".", "/", "#"}
IsPunct(c) == c \in Punctuation

Includes(text, part) ==
    \E i \in 0 .. Len(text) - Len(part) : SubSeq(text, i + 1, i + Len(part)) = part

\* split(), which keeps the empty parts, at every symbol of a set.
Split(text, separators) ==
    LET cuts == { i \in DOMAIN text : text[i] \in separators } \cup {Len(text) + 1}
        ends == Keep([i \in cuts |-> i], cuts)
    IN [n \in DOMAIN ends |-> SubSeq(text, IF n = 1 THEN 1 ELSE ends[n - 1] + 1, ends[n] - 1)]

Words(text) == Split(text, {"sp"})

Bare(word) == \A i \in DOMAIN word : ~IsPunct(word[i])

Trimmed(word) ==
    LET core == { i \in DOMAIN word : ~IsPunct(word[i]) }
    IN IF core = {} THEN <<>> ELSE SubSeq(word, Min(core), Max(core))

\* Without inner punctuation: a space for each run of it, joined, and each part by
\* itself.  A word that has none has no variants.
Spaced(word) ==
    Keep([i \in DOMAIN word |-> IF IsPunct(word[i]) THEN "sp" ELSE word[i]],
         { i \in DOMAIN word : (IsPunct(word[i]) /\ i > 1) => ~IsPunct(word[i - 1]) })
Joined(word) == Keep(word, { i \in DOMAIN word : ~IsPunct(word[i]) })
Parts(word) == ToSet(Split(word, Punctuation)) \ {<<>>}
Variants(word) == IF Bare(word) THEN {} ELSE {Spaced(word), Joined(word)} \cup Parts(word)

LANGUAGE_EXCEPTIONS == {"ja", "zh", "ko", "th", "vi"}

\* Mutant: a word with a slash is read like any other.
SlashIsPunctuation(cached, trimmed) == FALSE

\* A slash inside a word ends the search for this muted word, in later words too.
SlashEndsSearch(cached, trimmed) == cached = None /\ "/" \in ToSet(trimmed)

\* What a word of the text is for a muted word: it "is" the word, is too "short" for it,
\* ends the search by a "slash", "reads" as it, or is "passed".  `variants` are kept from
\* a muted word before, or None.
Look(muted, word, trimmed, variants) ==
    IF muted \in {word, trimmed} THEN "is"
    ELSE IF Len(muted) > Len(trimmed) THEN "short"
    ELSE IF SlashEndsSearch(variants, trimmed) THEN "slash"
    ELSE IF muted \in (IF variants = None THEN Variants(trimmed) ELSE variants) THEN "reads" ELSE "passed"

\* How far the search gets: to the first word that ends it.
Reach(looks) ==
    LET stops == { i \in DOMAIN looks : looks[i] \in {"is", "slash", "reads"} }
    IN IF stops = {} THEN Len(looks) ELSE Min(stops)

\* One muted word is looked for in word after word; the variants of the words the search
\* has got to are kept.
Looks(muted, words, cache) ==
    [i \in DOMAIN words |-> Look(muted, words[i], Trimmed(words[i]), cache[i])]
Hit(looks) == \E i \in DOMAIN looks : i = Reach(looks) /\ looks[i] \in {"is", "reads"}
CacheAfter(looks, words, cache) ==
    [i \in DOMAIN words |->
        IF i <= Reach(looks) /\ looks[i] \in {"reads", "passed"} /\ cache[i] = None
        THEN Variants(Trimmed(words[i])) ELSE cache[i]]

Expired(muted) == muted.expiresAt = "past"
Skipped(m, source) ==
    Expired(m) \/ (m.actorTarget = "exclude-following" /\ source.following)

\* A match found before the text is read word by word.
MatchesAtOnce(m, source) ==
    LET text == source.text
        exception == source.langs # <<>> /\ source.langs[1] \in LANGUAGE_EXCEPTIONS
    IN /\ ~Skipped(m, source)
       /\ \/ m.value \in ToSet(source.tags)
          \/ /\ "content" \in m.targets
             /\ \/ (Len(m.value) = 1 \/ exception) /\ Includes(text, m.value)
                \/ /\ Len(m.value) <= Len(text)
                   /\ \/ m.value = text
                      \/ /\ ToSet(m.value) \cap (Punctuation \cup {"sp"}) # {}
                         /\ Includes(text, m.value)

IsSearched(m, source) ==
    /\ ~Skipped(m, source) /\ "content" \in m.targets
    /\ Len(m.value) <= Len(source.text) /\ ~MatchesAtOnce(m, source)

\* The variants kept after each of the muted words.
Cached(mutedWords, source) ==
    LET words == Words(source.text)
        after[n \in 0 .. Len(mutedWords)] ==
            IF n = 0 THEN [i \in DOMAIN words |-> None]
            ELSE IF IsSearched(mutedWords[n], source)
                 THEN CacheAfter(Looks(mutedWords[n].value, words, after[n - 1]), words, after[n - 1])
                 ELSE after[n - 1]
    IN after

\* matchMuteWords({ mutedWords, text, tags, languages, actor }): the muted words that match.
IsMatch(m, source, cache) ==
    \/ MatchesAtOnce(m, source)
    \/ IsSearched(m, source) /\ Hit(Looks(m.value, Words(source.text), cache))
MatchMuteWords(mutedWords, source) ==
    Keep(mutedWords, { n \in DOMAIN mutedWords :
                         IsMatch(mutedWords[n], source, Cached(mutedWords, source)[n - 1]) })

-----------------------------------------------------------------------------
\* What a muted word means, each by itself: it mutes a text that has it as a tag,
\* or, aimed at content, as a phrase, as a letter, anywhere in a language without
\* spaces, or as a word of the text, whole, trimmed or read without its inner
\* punctuation; except after a word with a slash inside that is at least as long.
Mutes(m, source) ==
    LET words == Words(source.text)
        Is(word) == m.value \in {word, Trimmed(word)}
        Slash(word) == "/" \in ToSet(Trimmed(word))
        Reads(word) == Is(word) \/ (~Slash(word) /\ m.value \in Variants(Trimmed(word)))
        Phrase == \/ Len(m.value) = 1
                  \/ source.langs # <<>> /\ source.langs[1] \in LANGUAGE_EXCEPTIONS
                  \/ ToSet(m.value) \cap (Punctuation \cup {"sp"}) # {}
    IN /\ m.expiresAt # "past"
       /\ ~(m.actorTarget = "exclude-following" /\ source.following)
       /\ \/ m.value \in ToSet(source.tags)
          \/ /\ "content" \in m.targets
             /\ \/ m.value = source.text
                \/ Phrase /\ Includes(source.text, m.value)
                \/ \E i \in DOMAIN words :
                      /\ Reads(words[i])
                      /\ \A k \in 1 .. i - 1 : Slash(words[k]) /\ ~Is(words[k])
                                                  => Len(m.value) > Len(Trimmed(words[k]))
===============================================================================
