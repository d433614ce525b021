---------------------------- MODULE CutoverReplay ----------------------------
(****************************************************************************)
(* replay(): cutoverReplay (live/cutover.ts) sweeps the sealed archive,     *)
(* then tails the live stream once, from the sealed tip.  A live cursor     *)
(* below the server's retention starts another sweep from what was          *)
(* delivered.  Composes ArchiveSweep and LiveTail; they share the seqs      *)
(* yielded and run one after the other.  The server expires from its live   *)
(* log only what the archive holds.                                         *)
(****************************************************************************)
EXTENDS Integers, FiniteSetsExt, Functions, SequencesExt

CONSTANTS
    MaxSeq, Wanted,                                             \* both
    Ends, Selected, Afters, Befores, MaxReplans,                \* ArchiveSweep
    Threshold, HeadAtStart, Strict, MaxDrops, MaxBad            \* LiveTail

ASSUME FiltersAssumption == Wanted \subseteq Selected /\ Selected \subseteq 1..MaxSeq
ASSUME ArchiveAssumption == MaxSeq \in Nat /\ Ends \subseteq 1..MaxSeq /\ MaxReplans \in Nat
ASSUME RequestAssumption == Afters \subseteq 0..MaxSeq /\ Befores \subseteq {-1} \union 1..MaxSeq
ASSUME StreamAssumption ==
    /\ Threshold \in Nat /\ Threshold > MaxSeq /\ HeadAtStart \in 0..MaxSeq
    /\ Strict \in BOOLEAN /\ MaxDrops \in Nat /\ MaxBad \in Nat

VARIABLES
    after, before, tip, phase, lastEmitted, sealedTip, pin, planCursor, through,
    blocks, replans, out,                                       \* ArchiveSweep
    head, low, conn, send, cursor, lastSeq, drops, bad, owed,   \* LiveTail
    snapshotResume, \* ArchiveSweep's resume
    resume,         \* where the next sweep starts
    lastDelivered   \* the last seq of this live phase, or None

sweepVars == <<after, before, snapshotResume, lastEmitted, sealedTip, pin, planCursor,
               through, blocks>>
liveVars  == <<conn, send, cursor, lastSeq, drops, bad, owed>>
vars == <<sweepVars, liveVars, tip, head, low, phase, replans, out, resume, lastDelivered>>

AS == INSTANCE ArchiveSweep WITH resume <- snapshotResume
LT == INSTANCE LiveTail WITH Starts <- 0..MaxSeq

None == -1          \* the code's undefined

TypeOK ==
    /\ phase = "live" \/ AS!TypeOK
    /\ LT!TypeOK
    /\ resume \in 0..MaxSeq /\ lastDelivered \in {None} \union 0..MaxSeq

Init ==
    /\ AS!Init /\ tip <= HeadAtStart
    /\ head = HeadAtStart /\ low = 1
    /\ conn = "down" /\ send = 0 /\ cursor = 0 /\ lastSeq = None
    /\ drops = 0 /\ bad = {} /\ owed = None
    /\ resume = after /\ lastDelivered = None

(* The server: a new event, a sealed block, or the oldest event expired.    *)
Server ==
    /\ UNCHANGED <<sweepVars, liveVars, phase, replans, out, resume, lastDelivered>>
    /\ \/ LT!AppendSeq /\ UNCHANGED tip
       \/ AS!Seal /\ tip' <= head /\ UNCHANGED <<head, low>>
       \/ LT!Expire /\ low <= tip /\ UNCHANGED tip

SweepStep(step) ==
    /\ step
    /\ UNCHANGED <<liveVars, head, low, resume, lastDelivered>>

(* Mutants: the live phase starts after the cutover seq's successor; or has *)
(* no dedup floor.                                                          *)
GoLiveLate ==
    /\ phase = "swept"
    /\ phase' = "live"
    /\ cursor' = Min({MaxSeq, Max({0, sealedTip, resume}) + 1})
    /\ lastSeq' = cursor' /\ owed' = cursor'
    /\ conn' = "down" /\ send' = 0 /\ lastDelivered' = None
    /\ UNCHANGED <<sweepVars, tip, head, low, replans, out, drops, bad, resume>>

GoLiveUnfloored ==
    /\ phase = "swept"
    /\ phase' = "live"
    /\ cursor' = Max({0, sealedTip, resume})
    /\ lastSeq' = None /\ owed' = cursor'
    /\ conn' = "down" /\ send' = 0 /\ lastDelivered' = None
    /\ UNCHANGED <<sweepVars, tip, head, low, replans, out, drops, bad, resume>>

(* The live phase starts at max(sealedTip, resume), and so does its dedup   *)
(* floor unless that is 0.                                                  *)
GoLive ==
    /\ phase = "swept"
    /\ phase' = "live"
    /\ cursor' = Max({0, sealedTip, resume})
    /\ lastSeq' = IF cursor' = 0 THEN None ELSE LT!FloorFrom(cursor')
    /\ owed' = cursor'
    /\ conn' = "down" /\ send' = 0 /\ lastDelivered' = None
    /\ UNCHANGED <<sweepVars, tip, head, low, replans, out, drops, bad, resume>>

(* A step of liveEvents: its end is the end of the replay, except that a    *)
(* refused cursor is for TooOld.                                            *)
LiveStep(step) ==
    /\ phase = "live"
    /\ step
    /\ lastDelivered' = IF out' = out THEN lastDelivered ELSE Last(out')
    /\ phase' = CASE conn' = "fatal" -> "threw"
                  [] conn' = "ended" -> "returned"
                  [] OTHER           -> "live"
    /\ UNCHANGED <<sweepVars, tip, replans, resume>>

(* Mutant: a refused cursor is redialled.                                   *)
TooOldRedials ==
    /\ phase = "live" /\ conn = "refused"
    /\ conn' = "down"
    /\ UNCHANGED <<sweepVars, send, cursor, lastSeq, drops, bad, owed, tip, head, low,
                   phase, replans, out, resume, lastDelivered>>

(* "cursor too old": sweep again from the last delivered seq, unless that   *)
(* is no progress or the budget, shared with the re-plans, is spent.        *)
TooOld ==
    /\ phase = "live" /\ conn = "refused"
    /\ resume' = Max({cursor, lastDelivered})
    /\ replans' = replans + 1
    /\ IF replans' > MaxReplans \/ resume' <= resume
       THEN phase' = "threw" /\ UNCHANGED sweepVars
       ELSE /\ AS!PlanFrom(resume')
            /\ lastEmitted' = resume' /\ sealedTip' = None
            /\ UNCHANGED <<after, before>>
    /\ UNCHANGED <<liveVars, tip, head, low, out, lastDelivered>>

Next ==
    \/ Server
    \/ SweepStep(AS!Sweep)
    \/ GoLive
    \/ LiveStep(LT!Client)
    \/ TooOld

Spec == Init /\ [][Next]_vars

(* Every request is answered, by a page, a block or a failure, and the live *)
(* connection delivers; what the server answers is not assumed.             *)
Receive == LT!Connect \/ \E s \in Wanted : LT!Deliver(s) \/ LT!Malformed(s)
FairSpec ==
    /\ Spec
    /\ WF_vars(SweepStep(AS!Answered)) /\ WF_vars(GoLive) /\ WF_vars(TooOld)
    /\ WF_vars(LiveStep(Receive))

-------------------------------------------------------------------------------
Over == phase \in {"returned", "threw"}

Reported(w) == w \in Range(out) \union bad

(* No gap, in the sweep, at the cutover and over re-plans and re-backfills: *)
(* below the highest yielded seq, and below the cursor the live phase       *)
(* starts from, every wanted event after afterSeq was yielded (or, live and *)
(* malformed, reported).                                                    *)
NoGap ==
    LET frontier == Max({after} \union Range(out)
                        \union (IF phase = "live" THEN {cursor} ELSE {})) IN
    \A w \in Wanted : after < w /\ w <= frontier => Reported(w)

(* "recovered sweeps never re-deliver": over overlapping plans, blocks that *)
(* straddle a boundary and the inclusive live cursor, seqs are yielded in   *)
(* strictly increasing order.                                               *)
Ascending == \A i, j \in DOMAIN out : i < j => out[i] < out[j]

(* Liveness: every event the server has is yielded or reported, unless the  *)
(* replay ends.                                                             *)
EverythingArrives ==
    \A w \in Wanted : (after < w /\ w <= head) ~> (Reported(w) \/ Over)

-------------------------------------------------------------------------------
(* The inductive invariant (CutoverReplay_proofs): why both hold.           *)
ReportedUpTo(f) == \A w \in Wanted : after < w /\ w <= f => Reported(w)

(* Below each yielded seq, everything is reported: over any phases. *)
NothingSkipped == \A s \in Range(out) : ReportedUpTo(s)

(* A sweep starts from a seq below which all is reported; it is where the   *)
(* phase before left off, or the archive already held it.                   *)
SweepIsSound ==
    phase \in {"plan", "page", "swept"} =>
        /\ AS!WindowInv
        /\ resume <= snapshotResume /\ ReportedUpTo(snapshotResume)
        /\ \/ snapshotResume = resume
           \/ IF pin = None
              THEN snapshotResume <= tip /\ (before = None \/ snapshotResume <= before)
              ELSE snapshotResume <= pin

(* The live phase starts from a seq below which all is reported, and above  *)
(* which nothing was yielded: so its dedup floor drops nothing it owes.     *)
LiveIsSound ==
    phase = "live" =>
        /\ LT!IInv
        /\ owed = cursor /\ after <= cursor /\ ReportedUpTo(cursor)
        /\ \A s \in Range(out) : s <= cursor \/ s <= lastDelivered
        /\ lastDelivered = None \/ lastDelivered \in Range(out)

IInv ==
    /\ after \in Afters /\ before \in Befores /\ tip \in AS!Tips
    /\ phase \in {"plan", "page", "swept", "live", "returned", "threw"}
    /\ LT!TypeOK /\ cursor \in 0..MaxSeq
    /\ resume \in 0..MaxSeq /\ after <= resume
    /\ lastDelivered \in {None} \union 0..MaxSeq
    /\ replans \in 0..(MaxReplans + 1) /\ (phase = "live" => replans <= MaxReplans)
    /\ Ascending /\ NothingSkipped /\ SweepIsSound /\ LiveIsSound
==============================================================================
