----------------------------- MODULE ArchiveSweep -----------------------------
(****************************************************************************)
(* snapshot(): snapshotRawBatches (jetstream.ts) reads the sealed archive   *)
(* page by page (engine/planner.ts) and block by block (engine/             *)
(* backfill-pipeline.ts), keeping the rows its filters let through          *)
(* (engine/selector.ts).  A failed download re-plans the rest.  The sweep   *)
(* of cutoverReplay (live/cutover.ts) is the same code; CutoverReplay       *)
(* instantiates this module for it.                                         *)
(*                                                                          *)
(* The archive is modelled from what the code relies on: blocks of          *)
(* consecutive seqs, sealed in order while the sweep reads, a plan that     *)
(* covers a prefix of what is asked and ends at a block's end or at the     *)
(* ceiling, and a sealedTipSeq capped by the request's beforeSeq.           *)
(****************************************************************************)
EXTENDS Integers, FiniteSetsExt, Functions, Sequences

CONSTANTS
    MaxSeq,         \* the archive may come to hold the seqs 1..MaxSeq
    Ends,           \* of these, the last seqs of the archive's blocks
    Selected,       \* seqs of the rows the collection and DID filters keep
    Wanted,         \* those of them the kinds filter keeps
    Afters,         \* the values of opts.afterSeq, or of the loaded cursor
    Befores,        \* the values of opts.beforeSeq
    MaxReplans      \* opts.maxReplans

None == -1          \* the code's undefined

ASSUME FiltersAssumption == Wanted \subseteq Selected /\ Selected \subseteq 1..MaxSeq
ASSUME ArchiveAssumption == MaxSeq \in Nat /\ Ends \subseteq 1..MaxSeq /\ MaxReplans \in Nat
ASSUME RequestAssumption == Afters \subseteq 0..MaxSeq /\ Befores \subseteq {None} \union 1..MaxSeq

VARIABLES
    after, before,  \* opts.afterSeq, opts.beforeSeq
    tip,            \* the archive's last sealed seq
    phase,          \* "plan", "page", "swept", "returned" (abort) or "threw"
    resume,         \* where the sweep was last (re-)planned: window.afterSeq
    lastEmitted,    \* the highest lastCursor yielded
    sealedTip,      \* page.sealedTipSeq of the last page
    pin,            \* planPages: the tip pinned by the first page, or None
    planCursor,     \* planPages: its cursor
    through,        \* plannedThroughSeq of the page being read
    blocks,         \* blocks of the page still to be read
    replans,
    out             \* ghost: the seqs yielded, in order

askedVars == <<after, before>>
planVars  == <<sealedTip, pin, planCursor, through>>
vars == <<askedVars, tip, phase, resume, lastEmitted, planVars, blocks, replans, out>>

(* A block is named by its last seq, and holds those since the one before. *)
Blocks  == Ends
Rows(b) == {s \in 1..b : \A e \in Ends : s <= e => b <= e}
Tips    == {0} \union Ends

TypeOK ==
    /\ after \in Afters /\ before \in Befores
    /\ tip \in Tips
    /\ phase \in {"plan", "page", "swept", "returned", "threw"}
    /\ {resume, lastEmitted, planCursor, through} \subseteq 0..MaxSeq
    /\ {sealedTip, pin} \subseteq {None} \union 0..MaxSeq
    /\ blocks \subseteq Blocks
    /\ replans \in 0..(MaxReplans + 1)
    /\ out \in Seq(Wanted)

Init ==
    /\ after \in Afters /\ before \in Befores /\ tip \in Tips
    /\ phase = "plan"
    /\ resume = after /\ lastEmitted = after
    /\ sealedTip = None /\ pin = None /\ planCursor = after /\ through = 0
    /\ blocks = {} /\ replans = 0 /\ out = <<>>

-------------------------------------------------------------------------------
(* The server *)

(* The next block is sealed. *)
Seal ==
    LET unsealed == {b \in Blocks : tip < b} IN
    /\ unsealed # {}
    /\ tip' = Min(unsealed)
    /\ UNCHANGED <<askedVars, phase, resume, lastEmitted, planVars, blocks, replans, out>>

(* min(x, ceiling), where the ceiling may be absent. *)
Capped(x, ceiling) == IF ceiling = None THEN x ELSE Min({x, ceiling})

(* planSnapshot for (c, ceiling]: how far a page may plan.  A stale server  *)
(* plans nothing new.                                                       *)
PlannedThrough(c, ceiling) ==
    LET t == Capped(tip, ceiling) IN
    {t, c} \union {b \in Blocks : c < b /\ b < t}

PlannedBlocks(c, t) == {b \in Blocks : \E s \in Rows(b) : c < s /\ s <= t}

-------------------------------------------------------------------------------
(* planPages' next page: the first one pins the tip. *)
Plan ==
    /\ phase = "plan"
    /\ LET ceiling == IF pin = None THEN before ELSE pin IN
       /\ sealedTip' = Capped(tip, ceiling)
       /\ pin' = IF pin = None THEN Capped(sealedTip', before) ELSE pin
       /\ through' \in PlannedThrough(planCursor, ceiling)
    /\ blocks' = PlannedBlocks(planCursor, through')
    /\ phase' = "page"
    /\ UNCHANGED <<askedVars, tip, resume, lastEmitted, planCursor, replans, out>>

(* The rows of a block the selector keeps, the seq window included. *)
Kept(b) == {s \in Rows(b) \intersect Selected :
                s > resume /\ (before = None \/ s <= before)}

(* What a block yields: its wanted rows, in their order. *)
Lists(batch, S) ==
    /\ Range(batch) = S
    /\ \A i, j \in DOMAIN batch : i < j => batch[i] < batch[j]

Batches(S) == {batch \in [1..Cardinality(S) -> S] : Lists(batch, S)}

(* Mutant: the first batch of a page moves lastEmitted to the page's end.   *)
NextBlockOfPage ==
    /\ phase = "page" /\ blocks # {}
    /\ LET b == Min(blocks) IN
       /\ blocks' = blocks \ {b}
       /\ lastEmitted' = Max({through, lastEmitted})
       /\ \E batch \in Batches(Kept(b) \intersect Wanted) : out' = out \o batch
    /\ UNCHANGED <<askedVars, tip, phase, resume, planVars, replans>>

(* backfillBatches: one batch per block, in order; a block with no row left *)
(* is skipped.  A batch the kinds filter empties still moves lastEmitted.   *)
NextBlock ==
    /\ phase = "page" /\ blocks # {}
    /\ LET b == Min(blocks) IN
       /\ blocks' = blocks \ {b}
       /\ lastEmitted' = Max(Kept(b) \union {lastEmitted})
       /\ \E batch \in Batches(Kept(b) \intersect Wanted) : out' = out \o batch
    /\ UNCHANGED <<askedVars, tip, phase, resume, planVars, replans>>

(* Mutant: a page that plans nothing new counts as progress. *)
PageDoneAgain ==
    /\ phase = "page" /\ blocks = {}
    /\ planCursor' = through
    /\ phase' = IF through >= pin THEN "swept"
                ELSE IF through < planCursor THEN "threw" ELSE "plan"
    /\ UNCHANGED <<askedVars, tip, resume, lastEmitted, sealedTip, pin, through,
                   blocks, replans, out>>

(* A page is read to its end: the archive is swept, or the next page is     *)
(* planned from where this one ended, or the plan has made no progress.     *)
PageDone ==
    /\ phase = "page" /\ blocks = {}
    /\ planCursor' = through
    /\ phase' = IF through >= pin THEN "swept"
                ELSE IF through <= planCursor THEN "threw" ELSE "plan"
    /\ UNCHANGED <<askedVars, tip, resume, lastEmitted, sealedTip, pin, through,
                   blocks, replans, out>>

(* Mutant: the window's floor is not advanced. *)
PlanFromOldWindow(s) ==
    /\ phase' = "plan"
    /\ resume' = resume /\ planCursor' = s
    /\ pin' = None /\ through' = 0 /\ blocks' = {}

(* A new planPages, from s, with nothing pinned; s is the window's floor.   *)
PlanFrom(s) ==
    /\ phase' = "plan"
    /\ resume' = s /\ planCursor' = s
    /\ pin' = None /\ through' = 0 /\ blocks' = {}

(* Mutant: one re-plan too many. *)
DownloadFailsOnceMore ==
    /\ phase = "page" /\ blocks # {}
    /\ replans' = replans + 1
    /\ IF replans > MaxReplans
       THEN phase' = "threw" /\ UNCHANGED <<resume, planVars, blocks>>
       ELSE PlanFrom(Max({lastEmitted, resume})) /\ UNCHANGED sealedTip
    /\ UNCHANGED <<askedVars, tip, lastEmitted, out>>

(* A download fails for good (DownloadError): plan again from what was      *)
(* yielded, at most MaxReplans times.                                       *)
DownloadFails ==
    /\ phase = "page" /\ blocks # {}
    /\ replans' = replans + 1
    /\ IF replans' > MaxReplans
       THEN phase' = "threw" /\ UNCHANGED <<resume, planVars, blocks>>
       ELSE PlanFrom(Max({lastEmitted, resume})) /\ UNCHANGED sealedTip
    /\ UNCHANGED <<askedVars, tip, lastEmitted, out>>

(* planSnapshot fails, a block does not decode, or the caller aborts. *)
SweepEnds ==
    /\ phase \in {"plan", "page"}
    /\ phase' \in {"threw", "returned"}
    /\ UNCHANGED <<askedVars, tip, resume, lastEmitted, planVars, blocks, replans, out>>

Sweep == Plan \/ NextBlock \/ PageDone \/ DownloadFails \/ SweepEnds

Next == Seal \/ Sweep

Spec == Init /\ [][Next]_vars

(* Every request is answered, by a page, a block or a failure; how often    *)
(* downloads fail, and what the server plans, is not assumed.               *)
Answered == Plan \/ NextBlock \/ PageDone
FairSpec == Spec /\ WF_vars(Answered)

-------------------------------------------------------------------------------
(* Every wanted event of (after, f], below the ceiling, was yielded. *)
YieldedUpTo(f) ==
    \A w \in Wanted : after < w /\ w <= Capped(f, before) => w \in Range(out)

(* "recovery has no gap": whatever re-plans came before, with the filters   *)
(* pruning whole blocks, what was yielded is a prefix of what is wanted,    *)
(* and a sweep that ended has yielded everything up to the tip it pinned.   *)
NoGap ==
    /\ YieldedUpTo(Max({0} \union Range(out)))
    /\ YieldedUpTo(lastEmitted)
    /\ phase = "swept" => YieldedUpTo(pin)

(* "... and no duplicate": over overlapping plans and blocks that straddle  *)
(* a boundary, seqs are yielded in strictly increasing order, inside the    *)
(* bounds the caller gave.                                                  *)
Ascending ==
    /\ \A i, j \in DOMAIN out : i < j => out[i] < out[j]
    /\ \A s \in Range(out) : after < s /\ (before # None => s <= before)

(* Liveness: a sweep ends, though blocks are sealed while it reads, the     *)
(* server may plan nothing new, and downloads may fail every time.          *)
SweepSettles == <>(phase \in {"swept", "returned", "threw"})
-------------------------------------------------------------------------------
(* The inductive invariant (ArchiveSweep_proofs): why both hold, in two     *)
(* parts.  WindowInv speaks of what was read since the sweep was last       *)
(* planned, from `resume` on.                                               *)
OutAscends == \A i, j \in DOMAIN out : i < j => out[i] < out[j]

EmittedIsHighest ==
    /\ resume <= lastEmitted
    /\ lastEmitted = resume \/ before = None \/ lastEmitted <= before
    /\ lastEmitted = resume \/ pin = None \/ lastEmitted <= pin
    /\ \A s \in Range(out) : s <= lastEmitted

(* Every wanted event of (resume, f], below the ceiling, was yielded. *)
ReadUpTo(f) ==
    \A w \in Wanted : resume < w /\ w <= Capped(f, before) => w \in Range(out)

(* The pinned tip is the end of a block, or the ceiling. *)
PinIsSealed ==
    pin # None => /\ pin = sealedTip /\ pin <= tip /\ (before # None => pin <= before)
                  /\ pin \in Tips \/ pin = before

(* A page but the first is planned from the end of a block, so that no      *)
(* block is in two pages.                                                   *)
PlanIsDue ==
    phase = "plan" =>
        IF pin = None
        THEN planCursor = resume /\ lastEmitted = resume
        ELSE /\ planCursor \in Ends /\ planCursor < pin
             /\ lastEmitted = resume \/ lastEmitted <= planCursor
             /\ ReadUpTo(planCursor)

(* What the page promised is yielded or in the blocks still to be read, and *)
(* these lie above everything yielded.                                      *)
PageIsRead ==
    phase = "page" =>
        /\ pin # None
        /\ through \in Ends \/ through >= pin \/ through <= planCursor
        /\ lastEmitted = resume \/ lastEmitted <= through
        /\ blocks # {} => through <= pin
        /\ \A b \in blocks : \A s \in Kept(b) : lastEmitted < s /\ s <= through
        /\ \A w \in Wanted : resume < w /\ w <= Capped(through, before) =>
             w \in Range(out) \/ \E b \in blocks : w \in Rows(b)

SweptIsRead == phase = "swept" => pin # None /\ ReadUpTo(pin)

WithinReplans == phase \in {"plan", "page", "swept"} => replans <= MaxReplans

WindowInv ==
    /\ TypeOK /\ WithinReplans
    /\ OutAscends /\ EmittedIsHighest /\ ReadUpTo(lastEmitted)
    /\ PinIsSealed /\ PlanIsDue /\ PageIsRead /\ SweptIsRead

(* The rest is what came before `resume`. *)
IInv ==
    /\ WindowInv
    /\ after <= resume /\ YieldedUpTo(resume)
    /\ \A s \in Range(out) : after < s /\ (before # None => s <= before)
==============================================================================
