-------------------------------- MODULE RichText --------------------------------
(***************************************************************************)
(* Rich text under edit (sdk/src/rich-text/).  Facets name slices of the   *)
(* text by UTF-8 offsets; insert() and delete() move them along, the       *)
(* constructor may collapse runs of newlines, and detectFacets() replaces  *)
(* the facets and waits for the mentions to resolve while edits go on.     *)
(*                                                                         *)
(* The text is a sequence of symbols with an identity and a kind.  A facet *)
(* carries, beside its indices, the symbols it is about ("about"), which   *)
(* no code reads: what its author marked, and what was typed inside it.    *)
(***************************************************************************)
EXTENDS SdkValues, SequencesExt, Integers, FiniteSets

CONSTANTS Sources,     \* arguments of the constructor: [text, facets, entities, cleanNewlines]
          Inserts,     \* texts to insert, sequences of kinds
          MaxEdits,    \* bound on insert and delete calls
          MaxDetects   \* bound on detectFacets calls

VARIABLES
    richText,   \* [text, facets]; facets is None when undefined
    detects,    \* one entry for each detectFacets call: "resolving", "resolved", "threw"
    edits,
    mixed       \* text that is not ASCII was inserted

textVars == <<richText, detects, edits, mixed>>

\* Bytes in UTF-8 and units in UTF-16 of each kind of symbol.
Utf8  == [letter |-> 1, space |-> 1, newline |-> 1, zeroWidth |-> 3, emoji |-> 4, mention |-> 6]
Utf16 == [letter |-> 1, space |-> 1, newline |-> 1, zeroWidth |-> 1, emoji |-> 2, mention |-> 6]
Kinds == DOMAIN Utf8

\* What the first symbols of a text take up, for each number of them.
Offsets(text, width) ==
    LET at[k \in 0 .. Len(text)] == IF k = 0 THEN 0 ELSE at[k - 1] + width[text[k].kind]
    IN at
Size(text, width) == Offsets(text, width)[Len(text)]
Length(text) == Size(text, Utf8)

\* slice(start, end) of whole symbols: those that end after `start` and not after `end`.
Held(text, n, width) == Max({ k \in 0 .. Len(text) : Offsets(text, width)[k] <= n })
Slice(text, a, b) == SubSeq(text, Held(text, a, Utf8) + 1, Held(text, b, Utf8))
Prefix(text, n) == SubSeq(text, 1, Held(text, n, Utf8))
From(text, n) == SubSeq(text, Held(text, n, Utf8) + 1, Len(text))

Utf16IndexToUtf8Index(text, i) == Offsets(text, Utf8)[Held(text, i, Utf16)]

\* Where a symbol may begin or end.
Boundaries(text) == { Offsets(text, Utf8)[k] : k \in 0 .. Len(text) }

NewText(kinds) == [i \in DOMAIN kinds |-> [id |-> i, kind |-> kinds[i]]]
IdsOf(text) == { s.id : s \in ToSet(text) }
NewIds(text) == 1 + Max(IdsOf(text) \cup {0})
Typed(kinds, text) == [i \in DOMAIN kinds |-> [id |-> NewIds(text) + i, kind |-> kinds[i]]]

Facet(text, start, end) == [start |-> start, end |-> end, about |-> IdsOf(Slice(text, start, end))]

\* Texts are made of the kinds above.  The facets a caller gives end where a symbol
\* of the text does, unless they are to be filtered out.
InsertsAssumption == Inserts \subseteq Seq(Kinds)
SourcesAssumption ==
    \A s \in Sources :
        /\ s.text \in Seq(Kinds)
        /\ s.facets # None =>
              /\ s.facets \in Seq(Nat \X Nat)
              /\ \A i \in DOMAIN s.facets :
                    s.facets[i][1] <= s.facets[i][2] => s.facets[i][2] \in Boundaries(NewText(s.text))
        /\ IsList(s.entities)
        /\ \A i \in DOMAIN s.entities : s.entities[i].start \in Nat /\ s.entities[i].end \in Nat
ASSUME TextAssumption == InsertsAssumption /\ SourcesAssumption

FacetSort(facets) == Ranked(facets, DOMAIN facets, [i \in DOMAIN facets |-> facets[i].start])
FacetFilter(facets) == Keep(facets, { i \in DOMAIN facets : facets[i].start <= facets[i].end })

-----------------------------------------------------------------------------
(* insert and delete *)

\* Symbols typed between two symbols of a facet belong to it.
Inside(text, at, about) ==
    /\ IdsOf(Prefix(text, at)) \cap about # {}
    /\ IdsOf(From(text, at)) \cap about # {}

\* Mutant: text typed right before a facet goes into it.
InsertFacetStrict(f, at, added) ==
    CASE at < f.start               -> [f EXCEPT !.start = @ + added, !.end = @ + added]
      [] at >= f.start /\ at < f.end -> [f EXCEPT !.end = @ + added]
      [] OTHER                      -> f

InsertFacet(f, at, added) ==
    CASE at <= f.start               -> [f EXCEPT !.start = @ + added, !.end = @ + added]
      [] at > f.start /\ at < f.end  -> [f EXCEPT !.end = @ + added]
      [] OTHER                       -> f

\* numCharsAdded counts UTF-16 units, the indices count bytes.
MovedByInsert(f, text, at, typed) ==
    [InsertFacet(f, at, Size(typed, Utf16)) EXCEPT
        !.about = IF Inside(text, at, @) THEN @ \cup IdsOf(typed) ELSE @]

Insert(rt, at, typed) ==
    [text |-> (Prefix(rt.text, at) \o typed) \o From(rt.text, at),
     facets |-> IF rt.facets = None THEN None
                ELSE [i \in DOMAIN rt.facets |-> MovedByInsert(rt.facets[i], rt.text, at, typed)]]

DeleteFacet(f, from, to) ==
    LET n == to - from
    IN IF from <= f.start /\ to >= f.end THEN [f EXCEPT !.start = 0, !.end = 0]
       ELSE IF from > f.end THEN f
       ELSE IF from > f.start /\ to > f.end THEN [f EXCEPT !.end = from]
       ELSE IF from >= f.start /\ to <= f.end THEN [f EXCEPT !.end = @ - n]
       ELSE IF to >= f.start /\ to <= f.end THEN [f EXCEPT !.start = from, !.end = @ - n]
       ELSE IF to < f.start THEN [f EXCEPT !.start = @ - n, !.end = @ - n]
       ELSE f

MovedByDelete(f, text, from, to) ==
    [DeleteFacet(f, from, to) EXCEPT !.about = @ \ IdsOf(Slice(text, from, to))]

Delete(rt, from, to) ==
    LET moved == [i \in DOMAIN rt.facets |-> MovedByDelete(rt.facets[i], rt.text, from, to)]
    IN [text |-> Prefix(rt.text, from) \o From(rt.text, to),
        facets |-> IF rt.facets = None THEN None
                   ELSE Keep(moved, { i \in DOMAIN moved : moved[i].start < moved[i].end })]

-----------------------------------------------------------------------------
(* The constructor *)

\* EXCESS_SPACE_RE: a newline and what follows it, through spaces and zero-width
\* symbols, up to the last newline of at least two more.
Blank(text, i, j) == \A k \in i .. j : text[k].kind \in {"space", "newline", "zeroWidth"}
Excess(text) ==
    { e \in (DOMAIN text) \X (DOMAIN text) :
        /\ text[e[1]].kind = "newline" /\ text[e[2]].kind = "newline"
        /\ Blank(text, e[1], e[2])
        /\ \E k \in e[1] + 1 .. e[2] - 1 : text[k].kind = "newline" }
\* The first of them, as far as it goes.
Match(text) ==
    LET first == Min({ e[1] : e \in Excess(text) })
    IN <<first, Max({ k \in DOMAIN text : <<first, k>> \in Excess(text) })>>

\* One match becomes two newlines.  A match has three or more, so a text is clean
\* after as many rounds as it has symbols.
CleanOnce(rt) ==
    LET m == Match(rt.text)
        at == Offsets(rt.text, Utf8)[m[1] - 1]
        cut == Delete(rt, at, Offsets(rt.text, Utf8)[m[2]])
    IN IF Excess(rt.text) = {} THEN rt ELSE Insert(cut, at, Typed(<<"newline", "newline">>, rt.text))

Clean(rt) ==
    LET after[n \in 0 .. Len(rt.text)] == IF n = 0 THEN rt ELSE CleanOnce(after[n - 1])
    IN after[Len(rt.text)]

EntitiesToFacets(text, entities) ==
    LET known == Keep(entities, { i \in DOMAIN entities : entities[i].type \in {"link", "mention"} })
    IN [i \in DOMAIN known |-> Facet(text, Utf16IndexToUtf8Index(text, known[i].start),
                                           Utf16IndexToUtf8Index(text, known[i].end))]

Construct(source) ==
    LET text == NewText(source.text)
        given == IF source.facets = None THEN None
                 ELSE [i \in DOMAIN source.facets |->
                         Facet(text, source.facets[i][1], source.facets[i][2])]
        facets == IF given \in {None, <<>>} /\ source.entities # <<>>
                  THEN EntitiesToFacets(text, source.entities) ELSE given
        rt == [text |-> text,
               facets |-> IF facets = None THEN None ELSE FacetSort(FacetFilter(facets))]
    IN IF source.cleanNewlines THEN Clean(rt) ELSE rt

-----------------------------------------------------------------------------
(* detectFacets.  Only mentions are found: an @handle after a space, or first. *)

DetectedFacets(text) ==
    LET Found(i) == text[i].kind = "mention" /\ (i = 1 \/ text[i - 1].kind \in {"space", "newline"})
        places == Keep([i \in DOMAIN text |-> i], { i \in DOMAIN text : Found(i) })
        at == Offsets(text, Utf8)
        found == [n \in DOMAIN places |-> Facet(text, at[places[n] - 1], at[places[n]])]
    IN IF found = <<>> THEN None ELSE found

\* A facet names the slice it is about once a detection has looked at all the text.
StartDetect ==
    /\ Len(detects) < MaxDetects
    /\ LET found == DetectedFacets(richText.text)
       IN /\ richText' = [richText EXCEPT !.facets = found]
          /\ detects' = Append(detects, IF found = None THEN "resolved" ELSE "resolving")
    /\ mixed' = FALSE
    /\ UNCHANGED edits

\* Every mention resolved, to a DID or to ''; this.facets is whatever it is by now.
Resolved(i) ==
    /\ detects[i] = "resolving"
    /\ detects' = [detects EXCEPT ![i] = IF richText.facets = None THEN "threw" ELSE "resolved"]
    /\ richText' = IF richText.facets = None THEN richText
                   ELSE [richText EXCEPT !.facets = FacetSort(@)]
    /\ UNCHANGED <<edits, mixed>>

-----------------------------------------------------------------------------
TextInit ==
    /\ \E source \in Sources : richText = Construct(source)
    /\ detects = <<>>
    /\ edits = 0
    /\ mixed = FALSE

InsertText ==
    /\ edits < MaxEdits
    /\ \E at \in Boundaries(richText.text), kinds \in Inserts :
         LET typed == Typed(kinds, richText.text)
         IN /\ richText' = Insert(richText, at, typed)
            /\ mixed' = (mixed \/ Size(typed, Utf16) # Length(typed))
    /\ edits' = edits + 1
    /\ UNCHANGED detects

DeleteText ==
    /\ edits < MaxEdits
    /\ \E from, to \in Boundaries(richText.text) :
         /\ from < to
         /\ richText' = Delete(richText, from, to)
    /\ edits' = edits + 1
    /\ UNCHANGED <<detects, mixed>>

TextNext == InsertText \/ DeleteText \/ StartDetect \/ \E i \in DOMAIN detects : Resolved(i)
TextSpec == TextInit /\ [][TextNext]_textVars

-----------------------------------------------------------------------------
\* segments(): the slices in order, each with its facet or None.
Segment(from, to, facet) == [from |-> from, to |-> to, facet |-> facet]

Shown(text, f) == \E s \in ToSet(Slice(text, f.start, f.end)) : s.kind \in {"letter", "emoji", "mention", "zeroWidth"}

\* A facet that begins before the cursor is passed over.
Walked(acc, f, text) ==
    IF acc.cursor > f.start THEN acc
    ELSE [cursor |-> f.end,
          out |-> (acc.out
                   \o (IF acc.cursor < f.start THEN <<Segment(acc.cursor, f.start, None)>> ELSE <<>>))
                   \o (IF f.start < f.end
                       THEN <<Segment(f.start, f.end, IF Shown(text, f) THEN f ELSE None)>>
                       ELSE <<>>)]

Segments(rt) ==
    LET facets == rt.facets
        walked[n \in 0 .. Len(facets)] ==
            IF n = 0 THEN [cursor |-> 0, out |-> <<>>] ELSE Walked(walked[n - 1], facets[n], rt.text)
        last == walked[Len(facets)]
        end == Length(rt.text)
    IN IF facets \in {None, <<>>} THEN <<Segment(0, end, None)>>
       ELSE last.out \o (IF last.cursor < end THEN <<Segment(last.cursor, end, None)>> ELSE <<>>)

\* Each facet covers its symbols, all of them and no others.
Aligned(rt) ==
    \A f \in (IF rt.facets = None THEN {} ELSE ToSet(rt.facets)) :
        /\ f.start <= f.end /\ f.end <= Length(rt.text)
        /\ IdsOf(Slice(rt.text, f.start, f.end)) = f.about

Reassembled(rt) ==
    LET segments == Segments(rt)
    IN /\ Length(rt.text) > 0 => segments[1].from = 0 /\ Last(segments).to = Length(rt.text)
       /\ \A i \in 1 .. Len(segments) - 1 : segments[i].to = segments[i + 1].from

\* The inductive invariant: each symbol of the text has an identity of its own, and a
\* facet ends where a symbol does and is about the symbols of its slice.
IsText(text) ==
    /\ text \in Seq([id : Nat, kind : Kinds])
    /\ \A i, j \in DOMAIN text : text[i].id = text[j].id => i = j
Covers(text, f) ==
    /\ f = [start |-> f.start, end |-> f.end, about |-> f.about]
    /\ f.start \in Nat /\ f.end \in Boundaries(text) /\ f.start <= f.end
    /\ f.about = IdsOf(Slice(text, f.start, f.end))
IsRichText(rt) == rt = [text |-> rt.text, facets |-> rt.facets] /\ IsText(rt.text)
AllCover(rt) ==
    rt.facets # None => IsList(rt.facets) /\ \A i \in DOMAIN rt.facets : Covers(rt.text, rt.facets[i])
TextInv == IsRichText(richText) /\ (~mixed => AllCover(richText))

\* As long as only ASCII text is inserted, edits, newline cleaning and detection
\* leave every facet on exactly the symbols it was put on and those typed inside
\* it, and the segments put together are the text.
FacetsFollowText == ~mixed => Aligned(richText) /\ Reassembled(richText)

\* "richtext facets need to use utf8 indices": facets follow the text whatever is inserted.
FacetsAreUtf8 == Aligned(richText)
===============================================================================
