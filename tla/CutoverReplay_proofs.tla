------------------------- MODULE CutoverReplay_proofs -------------------------
(* Proofs about CutoverReplay, for every archive, stream, filter and bound: *)
(* the lemmas of the sweep and of the live tail, and what one phase hands   *)
(* to the next.                                                             *)
EXTENDS CutoverReplay, TLAPS

ASP == INSTANCE ArchiveSweep_proofs WITH resume <- snapshotResume
LTP == INSTANCE LiveTail_proofs WITH Starts <- 0..MaxSeq

(* The constants, as the proofs of the two phases assume them.              *)
LEMMA Assumed ==
    /\ ASP!FiltersAssumption /\ ASP!ArchiveAssumption /\ ASP!RequestAssumption
    /\ LTP!BoundsAssumption
  <1>1. Wanted \subseteq 1..MaxSeq
    BY FiltersAssumption
  <1>2. (0..MaxSeq) \subseteq {LTP!None} \union (0..MaxSeq) \union (Threshold..Threshold + MaxSeq)
    OBVIOUS
  <1> QED
    BY <1>1, <1>2, FiltersAssumption, ArchiveAssumption, RequestAssumption, StreamAssumption
       DEF ASP!FiltersAssumption, ASP!ArchiveAssumption, ASP!RequestAssumption, ASP!None,
           LTP!BoundsAssumption

(* The lemmas about ArchiveSweep speak of its definitions by another name.  *)
LEMMA SweepStates ==
    /\ AS!WindowInv <=> ASP!WindowInv
    /\ AS!WindowInv' <=> ASP!WindowInv'
  BY SMT
     DEF AS!None, ASP!None, AS!Min, ASP!Min, AS!Range, ASP!Range, AS!Blocks, ASP!Blocks,
         AS!Rows, ASP!Rows, AS!Tips, ASP!Tips, AS!TypeOK, ASP!TypeOK, AS!Capped,
         ASP!Capped, AS!Kept, ASP!Kept, AS!OutAscends, ASP!OutAscends,
         AS!EmittedIsHighest, ASP!EmittedIsHighest, AS!ReadUpTo, ASP!ReadUpTo,
         AS!PinIsSealed, ASP!PinIsSealed, AS!PlanIsDue, ASP!PlanIsDue, AS!PageIsRead,
         ASP!PageIsRead, AS!SweptIsRead, ASP!SweptIsRead, AS!WithinReplans,
         ASP!WithinReplans, AS!WindowInv, ASP!WindowInv

(* The same of its actions.                                                 *)
LEMMA SweepSteps ==
    /\ AS!Init <=> ASP!Init
    /\ AS!Seal <=> ASP!Seal
    /\ AS!Sweep <=> ASP!Sweep
    /\ \A s : AS!PlanFrom(s) <=> ASP!PlanFrom(s)
  <1>1. \A f : AS!Range(f) = ASP!Range(f)
    BY DEF AS!Range, ASP!Range
  <1>2. \A S : AS!Cardinality(S) = ASP!Cardinality(S)
    BY DEF AS!Cardinality, ASP!Cardinality
  <1>3. \A S : AS!Batches(S) = ASP!Batches(S)
    BY <1>1, <1>2 DEF AS!Batches, ASP!Batches, AS!Lists, ASP!Lists
  <1>4. /\ \A b : AS!Rows(b) = ASP!Rows(b)
        /\ \A b : AS!Kept(b) = ASP!Kept(b)
        /\ AS!Blocks = ASP!Blocks /\ AS!Tips = ASP!Tips /\ AS!None = ASP!None
        /\ \A S : AS!Min(S) = ASP!Min(S)
        /\ \A S : AS!Max(S) = ASP!Max(S)
    BY DEF AS!Rows, ASP!Rows, AS!Kept, ASP!Kept, AS!Blocks, ASP!Blocks, AS!Tips, ASP!Tips,
           AS!None, ASP!None, AS!Min, ASP!Min, AS!Max, ASP!Max
  <1>5. \A x, c : AS!Capped(x, c) = ASP!Capped(x, c)
    BY <1>4 DEF AS!Capped, ASP!Capped
  <1>6. /\ \A c, t : AS!PlannedThrough(c, t) = ASP!PlannedThrough(c, t)
        /\ \A c, t : AS!PlannedBlocks(c, t) = ASP!PlannedBlocks(c, t)
    BY <1>4, <1>5 DEF AS!PlannedThrough, ASP!PlannedThrough, AS!PlannedBlocks,
                      ASP!PlannedBlocks
  <1>7. AS!Init <=> ASP!Init
    BY <1>4 DEF AS!Init, ASP!Init
  <1>8. AS!Seal <=> ASP!Seal
    BY <1>4 DEF AS!Seal, ASP!Seal, AS!askedVars, ASP!askedVars, AS!planVars, ASP!planVars
  <1>9. \A s : AS!PlanFrom(s) <=> ASP!PlanFrom(s)
    BY <1>4 DEF AS!PlanFrom, ASP!PlanFrom
  <1>10. AS!Plan <=> ASP!Plan
    BY <1>4, <1>5, <1>6 DEF AS!Plan, ASP!Plan, AS!askedVars, ASP!askedVars
  <1>11. AS!NextBlock <=> ASP!NextBlock
    BY <1>3, <1>4 DEF AS!NextBlock, ASP!NextBlock, AS!askedVars, ASP!askedVars,
                      AS!planVars, ASP!planVars
  <1>12. AS!PageDone <=> ASP!PageDone
    BY DEF AS!PageDone, ASP!PageDone, AS!askedVars, ASP!askedVars
  <1>13. AS!DownloadFails <=> ASP!DownloadFails
    BY <1>4, <1>9 DEF AS!DownloadFails, ASP!DownloadFails, AS!askedVars, ASP!askedVars,
                      AS!planVars, ASP!planVars
  <1>14. AS!SweepEnds <=> ASP!SweepEnds
    BY DEF AS!SweepEnds, ASP!SweepEnds, AS!askedVars, ASP!askedVars, AS!planVars,
           ASP!planVars
  <1> QED
    BY <1>7, <1>8, <1>9, <1>10, <1>11, <1>12, <1>13, <1>14, Zenon DEF AS!Sweep, ASP!Sweep

(* The same of LiveTail.                                                    *)
LEMMA LiveStates ==
    /\ LT!TypeOK <=> LTP!TypeOK
    /\ LT!IInv <=> LTP!IInv
    /\ LT!IInv' <=> LTP!IInv'
    /\ LT!None = None /\ LTP!None = None
    /\ \A c : LT!IsTimestamp(c) <=> LTP!IsTimestamp(c)
    /\ \A f : LT!SettledBelow(f) <=> LTP!SettledBelow(f)
  BY SMT
     DEF LT!None, LTP!None, None, LT!Range, LTP!Range, LT!IsTimestamp, LTP!IsTimestamp,
         LT!TypeOK, LTP!TypeOK, LT!Ascending, LTP!Ascending, LT!FloorIsHighest,
         LTP!FloorIsHighest, LT!OwedSinceAccepted, LTP!OwedSinceAccepted,
         LT!SettledBelow, LTP!SettledBelow, LT!NothingMissed, LTP!NothingMissed,
         LT!IInv, LTP!IInv

(* So are the steps of the live phase.                                      *)
LEMMA LiveSteps ==
    /\ LT!AppendSeq <=> LTP!AppendSeq
    /\ LT!Expire <=> LTP!Expire
    /\ LT!Client <=> LTP!Client
  <1>1. /\ LT!None = LTP!None
        /\ \A S : LT!Max(S) = LTP!Max(S)
        /\ \A S : LT!Min(S) = LTP!Min(S)
        /\ \A S : LT!Cardinality(S) = LTP!Cardinality(S)
        /\ \A c : LT!IsTimestamp(c) <=> LTP!IsTimestamp(c)
        /\ \A s : LT!IsDuplicate(s) <=> LTP!IsDuplicate(s)
    BY DEF LT!None, LTP!None, LT!Max, LTP!Max, LT!Min, LTP!Min, LT!Cardinality,
           LTP!Cardinality, LT!IsTimestamp, LTP!IsTimestamp, LT!IsDuplicate,
           LTP!IsDuplicate
  <1>2. /\ \A w : LT!FirstFor(w) = LTP!FirstFor(w)
        /\ \A w : LT!Refuses(w) <=> LTP!Refuses(w)
        /\ LT!WireCursor = LTP!WireCursor /\ LT!Pending = LTP!Pending
    BY <1>1 DEF LT!FirstFor, LTP!FirstFor, LT!Refuses, LTP!Refuses, LT!WireCursor,
                LTP!WireCursor, LT!Pending, LTP!Pending
  <1>3. \A s : LT!Frame(s) <=> LTP!Frame(s)
    BY <1>1, <1>2 DEF LT!Frame, LTP!Frame
  <1>4. LT!Connect <=> LTP!Connect
    BY <1>1, <1>2 DEF LT!Connect, LTP!Connect
  <1>5. \A s : LT!Deliver(s) <=> LTP!Deliver(s)
    BY <1>1, <1>3 DEF LT!Deliver, LTP!Deliver
  <1>6. \A s : LT!Malformed(s) <=> LTP!Malformed(s)
    BY <1>1, <1>3 DEF LT!Malformed, LTP!Malformed
  <1>7. (LT!Drop <=> LTP!Drop) /\ (LT!Stop <=> LTP!Stop)
    BY DEF LT!Drop, LTP!Drop, LT!Stop, LTP!Stop
  <1>8. (LT!AppendSeq <=> LTP!AppendSeq) /\ (LT!Expire <=> LTP!Expire)
    BY DEF LT!AppendSeq, LTP!AppendSeq, LT!Expire, LTP!Expire
  <1> QED BY <1>4, <1>5, <1>6, <1>7, <1>8, Zenon DEF LT!Client, LTP!Client

(* What a window promises, and so what a step of the sweep may do.          *)
Sweeping == phase \in {"plan", "page", "swept"}

SweepSays ==
    /\ \A s \in Range(out) : s <= lastEmitted
    /\ snapshotResume <= lastEmitted
    /\ lastEmitted = snapshotResume \/ pin = None \/ lastEmitted <= pin
    /\ pin # None => /\ pin \in Nat /\ sealedTip = pin /\ pin <= tip
                     /\ (before # None => pin <= before)
    /\ \A w \in Wanted : snapshotResume < w /\ w <= lastEmitted => w \in Range(out)
    /\ phase = "swept" =>
          /\ pin # None
          /\ \A w \in Wanted : snapshotResume < w /\ w <= pin => w \in Range(out)
    /\ phase \in {"plan", "page", "swept"} => replans <= MaxReplans
    /\ snapshotResume \in Nat /\ lastEmitted \in Nat /\ lastEmitted \in 0..MaxSeq
    /\ out \in Seq(Wanted)
    /\ Ascending

(* The sweep's invariant says so.                                           *)
LEMMA SweepFacts == AS!WindowInv => SweepSays
  <1> SUFFICES ASSUME AS!WindowInv PROVE SweepSays
    OBVIOUS
  <1>1. ASP!WindowInv
    BY SweepStates
  <1>2. ASP!WindowSays
    BY <1>1, Assumed, ASP!WindowFacts
       DEF ASP!FiltersAssumption, ASP!ArchiveAssumption, ASP!RequestAssumption
  <1>3. Range(out) = ASP!Range(out) /\ None = ASP!None
    BY DEF Range, ASP!Range, None, ASP!None
  <1>4. /\ snapshotResume \in Nat /\ lastEmitted \in Nat /\ lastEmitted \in 0..MaxSeq
        /\ out \in Seq(Wanted)
    BY <1>2, ArchiveAssumption DEF ASP!WindowSays, ASP!TypeOK
  <1>5. Ascending
    BY <1>2 DEF ASP!WindowSays, ASP!OutAscends, Ascending
  <1> QED BY <1>2, <1>3, <1>4, <1>5 DEF ASP!WindowSays, SweepSays

(* The same of the next state.                                              *)
LEMMA SweepFactsNext == AS!WindowInv' => SweepSays'
  <1>1. AS!WindowInv => SweepSays
    BY SweepFacts
  <1> QED BY <1>1, PTL

(* The types of the state, one by one.                                      *)
LEMMA Facts ==
    ASSUME IInv
    PROVE  /\ MaxSeq \in Nat /\ MaxReplans \in Nat
           /\ Wanted \subseteq Nat /\ Wanted \subseteq 1..MaxSeq
           /\ after \in Nat /\ resume \in Nat /\ cursor \in Nat
           /\ before \in {None} \union Nat
           /\ tip \in Nat /\ head \in Nat
           /\ replans \in Nat
           /\ lastDelivered \in {None} \union Nat /\ None = -1
           /\ out \in Seq(Wanted) /\ Range(out) \subseteq Wanted /\ Range(out) \subseteq Nat
           /\ \A i \in DOMAIN out : out[i] \in Range(out)
           /\ lastSeq \in {None} \union Nat
  <1>1. /\ MaxSeq \in Nat /\ MaxReplans \in Nat
        /\ Wanted \subseteq Nat /\ Wanted \subseteq 1..MaxSeq /\ Ends \subseteq Nat
        /\ Afters \subseteq 0..MaxSeq /\ Befores \subseteq {None} \union 1..MaxSeq
    BY ArchiveAssumption, FiltersAssumption, RequestAssumption DEF None
  <1>2. /\ out \in Seq(Wanted) /\ head \in Nat
        /\ lastSeq \in {None} \union 0..MaxSeq
    BY <1>1 DEF IInv, LT!TypeOK, LT!None, None
  <1>3. Range(out) \subseteq Wanted /\ \A i \in DOMAIN out : out[i] \in Range(out)
    <2>1. \A i \in DOMAIN out : out[i] \in Wanted
      BY <1>2
    <2> QED BY <2>1 DEF Range
  <1>4. tip \in Nat
    <2>1. tip = 0 \/ tip \in Ends
      BY DEF IInv, AS!Tips
    <2>2. 0 \in Nat
      OBVIOUS
    <2> QED BY <1>1, <2>1, <2>2, Zenon
  <1>5. /\ after \in Nat /\ resume \in Nat /\ cursor \in Nat
        /\ before \in {None} \union Nat
        /\ replans \in Nat
        /\ lastDelivered \in {None} \union Nat
    BY <1>1 DEF IInv
  <1>6. Range(out) \subseteq Nat /\ None = -1
    BY <1>1, <1>3 DEF None
  <1>7. lastSeq \in {None} \union Nat
    BY <1>1, <1>2
  <1> QED BY <1>1, <1>2, <1>3, <1>4, <1>5, <1>6, <1>7

(* A replay begins with a sweep, from the caller's cursor.                  *)
LEMMA InitInv == Init => IInv
  <1> SUFFICES ASSUME Init PROVE IInv
    OBVIOUS
  <1>1. AS!WindowInv
    BY SweepStates, SweepSteps, Assumed, ASP!InitWindow
       DEF Init, ASP!FiltersAssumption, ASP!ArchiveAssumption, ASP!RequestAssumption
  <1>2. /\ after \in Afters /\ before \in Befores /\ tip \in AS!Tips
        /\ phase = "plan" /\ snapshotResume = after /\ resume = after
        /\ replans = 0 /\ out = <<>> /\ pin = AS!None
    BY DEF Init, AS!Init
  <1>3. MaxSeq \in Nat /\ MaxReplans \in Nat /\ after \in 0..MaxSeq /\ after \in Nat
    BY <1>2, ArchiveAssumption, RequestAssumption
  <1>4. SweepSays
    BY <1>1, SweepFacts
  <1>5. LT!TypeOK /\ cursor \in 0..MaxSeq
    BY <1>3, <1>4, StreamAssumption DEF Init, SweepSays, LT!TypeOK, LT!None, None
  <1>6. Range(out) = {}
    <2>1. DOMAIN out = {}
      BY <1>2
    <2> QED BY <2>1, Zenon DEF Range
  <1>7. NothingSkipped
    BY <1>6 DEF NothingSkipped
  <1>8. ReportedUpTo(snapshotResume)
    <2>1. \A w \in Wanted : w \in Nat
      BY FiltersAssumption, <1>3
    <2> QED BY <1>2, <1>3, <2>1 DEF ReportedUpTo
  <1>9. SweepIsSound /\ LiveIsSound
    BY <1>1, <1>2, <1>3, <1>8 DEF SweepIsSound, LiveIsSound
  <1>10. /\ resume \in 0..MaxSeq /\ after <= resume
         /\ lastDelivered \in {None} \union 0..MaxSeq /\ replans \in 0..(MaxReplans + 1)
    BY <1>2, <1>3 DEF Init
  <1> QED BY <1>2, <1>4, <1>5, <1>7, <1>9, <1>10 DEF IInv, SweepSays

(* The server acts: neither phase's promise depends on it.                  *)
LEMMA ServerStep == ASSUME IInv, Server PROVE IInv'
  <1>1. /\ UNCHANGED <<after, before, snapshotResume, lastEmitted, sealedTip, pin,
                       planCursor, through, blocks, phase, replans, out, resume,
                       lastDelivered>>
        /\ UNCHANGED <<conn, send, cursor, lastSeq, drops, bad, owed>>
        /\ \/ LT!AppendSeq /\ UNCHANGED tip
           \/ AS!Seal /\ UNCHANGED <<head, low>>
           \/ LT!Expire /\ UNCHANGED tip
    BY DEF Server, sweepVars, liveVars
  <1>2. tip' \in AS!Tips /\ tip' \in Nat /\ tip <= tip'
    <2>1. CASE AS!Seal
      <3>1. tip' \in Ends /\ tip' \in Nat /\ tip \in Nat /\ tip < tip'
        BY <2>1, SweepSteps, Assumed, ASP!SealFacts
           DEF IInv, AS!Tips, ASP!Tips, ASP!FiltersAssumption, ASP!ArchiveAssumption,
               ASP!RequestAssumption
      <3> QED BY <3>1 DEF AS!Tips
    <2>2. CASE UNCHANGED tip
      BY <2>2, Facts DEF IInv
    <2> QED BY <1>1, <2>1, <2>2
  <1>3. LT!TypeOK'
    <2>1. head' \in 0..MaxSeq /\ low' \in 1..(MaxSeq + 1)
      <3>1. head \in 0..MaxSeq /\ low \in 1..(MaxSeq + 1) /\ MaxSeq \in Nat
        BY ArchiveAssumption DEF IInv, LT!TypeOK
      <3>2. CASE LT!AppendSeq
        BY <3>1, <3>2 DEF LT!AppendSeq
      <3>3. CASE LT!Expire
        BY <3>1, <3>3 DEF LT!Expire
      <3>4. CASE UNCHANGED <<head, low>>
        BY <3>1, <3>4
      <3> QED BY <1>1, <3>2, <3>3, <3>4
    <2> QED BY <1>1, <2>1 DEF IInv, LT!TypeOK
  <1>4. AS!WindowInv => AS!WindowInv'
    <2>1. CASE AS!Seal
      BY <2>1, SweepSteps, SweepStates, Assumed, ASP!SealStep
         DEF ASP!FiltersAssumption, ASP!ArchiveAssumption, ASP!RequestAssumption
    <2>2. CASE UNCHANGED tip
      BY <1>1, <2>2, SweepStates, Assumed, ASP!OtherStep
         DEF ASP!FiltersAssumption, ASP!ArchiveAssumption, ASP!RequestAssumption
    <2> QED BY <1>1, <2>1, <2>2
  <1>5. LT!IInv => LT!IInv'
    <2>1. CASE LT!AppendSeq \/ LT!Expire
      <3>1. LTP!Server
        BY <2>1, LiveSteps DEF LTP!Server
      <3> QED BY <3>1, LiveStates, Assumed, LTP!ServerStep DEF LTP!BoundsAssumption
    <2>2. CASE UNCHANGED <<head, low>>
      <3>1. UNCHANGED LTP!vars
        BY <1>1, <2>2 DEF LTP!vars
      <3> QED BY <3>1, LiveStates, Assumed, LTP!NextInv DEF LTP!BoundsAssumption
    <2> QED BY <1>1, <2>1, <2>2
  <1>6. /\ \A f : ReportedUpTo(f)' <=> ReportedUpTo(f')
        /\ NothingSkipped' /\ Ascending'
    BY <1>1 DEF IInv, NothingSkipped, ReportedUpTo, Reported, Ascending
  <1>7. SweepIsSound'
    <2>1. Sweeping => SweepSays
      BY SweepFacts DEF IInv, SweepIsSound, Sweeping
    <2>2. Sweeping /\ snapshotResume <= tip => snapshotResume <= tip'
      BY <1>2, <2>1, Facts DEF SweepSays
    <2> QED
      BY <1>1, <1>4, <1>6, <2>2 DEF IInv, SweepIsSound, Sweeping, ReportedUpTo, Reported
  <1>8. LiveIsSound'
    BY <1>1, <1>5, <1>6 DEF IInv, LiveIsSound, ReportedUpTo, Reported
  <1> QED BY <1>1, <1>2, <1>3, <1>6, <1>7, <1>8 DEF IInv

(* What a step of the sweep may do to the window and to what was yielded.   *)
LEMMA SweepMoves ==
    ASSUME AS!WindowInv, AS!Sweep
    PROVE  /\ AS!WindowInv' /\ SweepSays /\ SweepSays'
           /\ UNCHANGED <<after, before, tip>>
           /\ Range(out) \subseteq Range(out')
           /\ \/ /\ snapshotResume' = snapshotResume
                 /\ \/ pin' = pin
                    \/ pin = None /\ pin' # None /\ pin' \in {tip, before}
              \/ snapshotResume' = lastEmitted /\ pin # None /\ pin' = None
           /\ phase' \in {"plan", "page", "swept", "returned", "threw"}
           /\ phase \in {"plan", "page"}
           /\ replans' \in 0..(MaxReplans + 1)
  <1>1. ASP!WindowInv /\ ASP!Sweep
    BY SweepStates, SweepSteps
  <1>2. Range(out) = ASP!Range(out) /\ Range(out') = ASP!Range(out') /\ None = ASP!None
    BY DEF Range, ASP!Range, None, ASP!None
  <1>3. /\ ASP!WindowInv'
        /\ UNCHANGED <<after, before, tip>>
        /\ ASP!Range(out) \subseteq ASP!Range(out')
        /\ \/ /\ snapshotResume' = snapshotResume
              /\ \/ pin' = pin
                 \/ pin = ASP!None /\ pin' # ASP!None /\ pin' \in {tip, before}
           \/ snapshotResume' = lastEmitted /\ pin # ASP!None /\ pin' = ASP!None
        /\ phase' \in {"plan", "page", "swept", "returned", "threw"}
        /\ phase \in {"plan", "page"}
        /\ replans' \in 0..(MaxReplans + 1)
    BY <1>1, Assumed, ASP!SweepStepFacts
       DEF ASP!FiltersAssumption, ASP!ArchiveAssumption, ASP!RequestAssumption
  <1>4. AS!WindowInv'
    BY <1>3, SweepStates
  <1> QED BY <1>2, <1>3, <1>4, SweepFacts, SweepFactsNext

(* The archive is swept a step further: what it yields continues what was   *)
(* yielded before, and it starts anew only where it has got to.             *)
LEMMA SweepStepInv == ASSUME IInv, SweepStep(AS!Sweep) PROVE IInv'
  <1>1. /\ AS!Sweep
        /\ UNCHANGED <<conn, send, cursor, lastSeq, drops, bad, owed, head, low, resume,
                       lastDelivered>>
    BY DEF SweepStep, liveVars
  <1>2. phase \in {"plan", "page"}
    BY <1>1
       DEF AS!Sweep, AS!Plan, AS!NextBlock, AS!PageDone, AS!DownloadFails, AS!SweepEnds
  <1>3. /\ AS!WindowInv
        /\ resume <= snapshotResume /\ ReportedUpTo(snapshotResume)
        /\ \/ snapshotResume = resume
           \/ IF pin = None
              THEN snapshotResume <= tip /\ (before = None \/ snapshotResume <= before)
              ELSE snapshotResume <= pin
    BY <1>2 DEF IInv, SweepIsSound
  <1>4. /\ AS!WindowInv' /\ SweepSays /\ SweepSays'
        /\ UNCHANGED <<after, before, tip>>
        /\ Range(out) \subseteq Range(out')
        /\ \/ /\ snapshotResume' = snapshotResume
              /\ \/ pin' = pin
                 \/ pin = None /\ pin' # None /\ pin' \in {tip, before}
           \/ snapshotResume' = lastEmitted /\ pin # None /\ pin' = None
        /\ phase' \in {"plan", "page", "swept", "returned", "threw"}
        /\ replans' \in 0..(MaxReplans + 1)
    BY <1>1, <1>3, SweepMoves
  <1>5. /\ snapshotResume \in Nat /\ lastEmitted \in Nat /\ snapshotResume <= lastEmitted
        /\ \A w \in Wanted : snapshotResume < w /\ w <= lastEmitted => w \in Range(out)
        /\ lastEmitted = snapshotResume \/ pin = None \/ lastEmitted <= pin
        /\ pin # None => /\ pin \in Nat /\ pin <= tip /\ (before # None => pin <= before)
        /\ out' \in Seq(Wanted) /\ Ascending'
        /\ snapshotResume' \in Nat /\ lastEmitted' \in Nat
        /\ \A s \in Range(out') : s <= lastEmitted'
        /\ \A w \in Wanted : snapshotResume' < w /\ w <= lastEmitted' => w \in Range(out')
    BY <1>4 DEF SweepSays
  <1>6. /\ Wanted \subseteq Nat /\ resume \in Nat /\ after \in Nat /\ tip \in Nat
        /\ before \in {None} \union Nat
    BY Facts
  <1>7. ReportedUpTo(snapshotResume)'
    <2> SUFFICES ASSUME NEW w \in Wanted, after < w, w <= snapshotResume'
                 PROVE  w \in Range(out') \union bad
      BY <1>1, <1>4 DEF ReportedUpTo, Reported
    <2>1. CASE w <= snapshotResume
      BY <1>3, <1>4, <2>1 DEF ReportedUpTo, Reported
    <2>2. CASE ~ (w <= snapshotResume)
      <3>1. snapshotResume < w /\ w <= lastEmitted
        BY <1>4, <1>5, <1>6, <2>2
      <3> QED BY <1>4, <1>5, <3>1
    <2> QED BY <2>1, <2>2
  <1>8. NothingSkipped'
    <2> SUFFICES ASSUME NEW s \in Range(out'), NEW w \in Wanted, after < w, w <= s
                 PROVE  w \in Range(out') \union bad
      BY <1>1, <1>4 DEF NothingSkipped, ReportedUpTo, Reported
    <2>1. s \in Nat /\ s <= lastEmitted' /\ w \in Nat
      <3>1. \A i \in DOMAIN out' : out'[i] \in Wanted
        BY <1>5
      <3>2. s \in Wanted
        BY <3>1, Zenon DEF Range
      <3> QED BY <1>5, <1>6, <3>2
    <2>2. CASE w <= snapshotResume'
      BY <1>1, <1>4, <1>7, <2>2 DEF ReportedUpTo, Reported
    <2>3. CASE ~ (w <= snapshotResume')
      BY <1>5, <2>1, <2>3
    <2> QED BY <2>2, <2>3
  <1>9. SweepIsSound'
    <2>1. resume <= snapshotResume'
      BY <1>3, <1>4, <1>5, <1>6
    <2>2. \/ snapshotResume' = resume
          \/ IF pin' = None
             THEN snapshotResume' <= tip /\ (before = None \/ snapshotResume' <= before)
             ELSE snapshotResume' <= pin'
      <3>1. CASE snapshotResume' = snapshotResume /\ pin' = pin
        BY <1>3, <3>1
      <3>2. CASE /\ snapshotResume' = snapshotResume
                 /\ pin = None /\ pin' # None /\ pin' \in {tip, before}
        BY <1>3, <3>2
      <3>3. CASE snapshotResume' = lastEmitted /\ pin # None /\ pin' = None
        <4>1. lastEmitted <= pin \/ snapshotResume' = resume
          BY <1>3, <1>5, <3>3
        <4>2. lastEmitted <= pin => lastEmitted <= tip /\ (before = None \/ lastEmitted <= before)
          BY <1>5, <1>6, <3>3
        <4> QED BY <3>3, <4>1, <4>2
      <3> QED BY <1>4, <3>1, <3>2, <3>3
    <2> QED BY <1>1, <1>4, <1>7, <2>1, <2>2 DEF SweepIsSound
  <1>10. LiveIsSound'
    BY <1>4 DEF LiveIsSound
  <1>11. LT!TypeOK'
    BY <1>1, <1>5 DEF IInv, LT!TypeOK
  <1>12. (phase = "live" => replans <= MaxReplans)'
    BY <1>4
  <1> QED
    BY <1>1, <1>4, <1>5, <1>8, <1>9, <1>10, <1>11, <1>12 DEF IInv, AS!Tips

(* The greatest of two and of three integers.                               *)
LEMMA MaxOfTwo ==
    ASSUME NEW a \in Int, NEW b \in Int
    PROVE  Max({a, b}) \in {a, b} /\ a <= Max({a, b}) /\ b <= Max({a, b})
  <1>1. \E x \in {a, b} : \A y \in {a, b} : x >= y
    OBVIOUS
  <1>2. Max({a, b}) \in {a, b} /\ \A y \in {a, b} : Max({a, b}) >= y
    BY <1>1 DEF Max
  <1> QED BY <1>2

(* What the largest of three numbers is: the floor of a live phase.         *)
LEMMA MaxOfThree ==
    ASSUME NEW a \in Int, NEW b \in Int, NEW c \in Int
    PROVE  /\ Max({a, b, c}) \in {a, b, c}
           /\ a <= Max({a, b, c}) /\ b <= Max({a, b, c}) /\ c <= Max({a, b, c})
  <1>1. \E x \in {a, b, c} : \A y \in {a, b, c} : x >= y
    OBVIOUS
  <1>2. Max({a, b, c}) \in {a, b, c} /\ \A y \in {a, b, c} : Max({a, b, c}) >= y
    BY <1>1 DEF Max
  <1> QED BY <1>2

(* The cutover: all is reported up to the seq the live phase starts from,   *)
(* and nothing above it was yielded.                                        *)
LEMMA GoLiveStep == ASSUME IInv, GoLive PROVE IInv'
  <1>1. /\ phase = "swept" /\ phase' = "live"
        /\ cursor' = Max({0, sealedTip, resume})
        /\ lastSeq' = IF cursor' = 0 THEN None ELSE LT!FloorFrom(cursor')
        /\ owed' = cursor' /\ conn' = "down" /\ send' = 0 /\ lastDelivered' = None
        /\ UNCHANGED <<after, before, tip, head, low, replans, out, drops, bad, resume>>
    BY DEF GoLive, sweepVars
  <1>2. /\ AS!WindowInv
        /\ resume <= snapshotResume /\ ReportedUpTo(snapshotResume)
        /\ \/ snapshotResume = resume
           \/ IF pin = None
              THEN snapshotResume <= tip /\ (before = None \/ snapshotResume <= before)
              ELSE snapshotResume <= pin
    BY <1>1 DEF IInv, SweepIsSound
  <1>3. /\ pin # None /\ pin \in Nat /\ sealedTip = pin
        /\ \A w \in Wanted : snapshotResume < w /\ w <= pin => w \in Range(out)
        /\ snapshotResume <= lastEmitted
        /\ lastEmitted = snapshotResume \/ lastEmitted <= pin
        /\ \A s \in Range(out) : s <= lastEmitted
        /\ snapshotResume \in Nat /\ lastEmitted \in Nat /\ replans <= MaxReplans
    BY <1>1, <1>2, SweepFacts DEF SweepSays
  <1>4. /\ MaxSeq \in Nat /\ Wanted \subseteq Nat /\ Wanted \subseteq 1..MaxSeq
        /\ resume \in Nat /\ after \in Nat /\ after <= resume /\ None = -1
        /\ out \in Seq(Wanted) /\ Range(out) \subseteq Nat /\ Range(out) \subseteq Wanted
        /\ \A i \in DOMAIN out : out[i] \in Range(out)
        /\ sealedTip \in {None} \union 0..MaxSeq /\ resume \in 0..MaxSeq
    BY <1>2, Facts DEF IInv, AS!WindowInv, AS!TypeOK, AS!None, None
  <1>5. /\ cursor' \in {0, pin, resume} /\ 0 <= cursor' /\ pin <= cursor' /\ resume <= cursor'
    <2>1. 0 \in Int /\ pin \in Int /\ resume \in Int
      BY <1>3, <1>4
    <2>2. cursor' = Max({0, pin, resume})
      BY <1>1, <1>3
    <2> QED BY <2>1, <2>2, MaxOfThree
  <1>6. cursor' \in Nat /\ cursor' \in 0..MaxSeq
    BY <1>3, <1>4, <1>5
  (* nothing above it was yielded *)
  <1>7. \A s \in Range(out) : s <= cursor'
    <2>1. lastEmitted <= cursor'
      BY <1>2, <1>3, <1>4, <1>5, <1>6
    <2> QED BY <1>3, <1>4, <1>6, <2>1
  (* and below it all is reported *)
  <1>8. ReportedUpTo(cursor)'
    <2> SUFFICES ASSUME NEW w \in Wanted, after < w, w <= cursor'
                 PROVE  w \in Range(out) \union bad
      BY <1>1 DEF ReportedUpTo, Reported
    <2>1. CASE w <= snapshotResume
      BY <1>2, <2>1 DEF ReportedUpTo, Reported
    <2>2. CASE ~ (w <= snapshotResume)
      <3>1. w <= pin
        BY <1>2, <1>3, <1>4, <1>5, <1>6, <2>2
      <3> QED BY <1>3, <1>4, <2>2, <3>1
    <2> QED BY <2>1, <2>2
  <1>9. lastSeq' = IF cursor' = 0 THEN None ELSE cursor'
    BY <1>1, <1>4, <1>6, StreamAssumption DEF LT!FloorFrom, LT!IsTimestamp
  <1>10. LT!TypeOK'
    <2>1. LT!TypeOK /\ LT!None = None
      BY LiveStates DEF IInv
    <2>2. lastSeq' \in {None} \union 0..MaxSeq
      BY <1>6, <1>9
    <2> QED BY <1>1, <1>4, <1>6, <2>1, <2>2 DEF LT!TypeOK
  <1>11. LT!IInv'
    <2>1. LT!None = None
      BY LiveStates
    <2>2. LT!Ascending'
      BY <1>1 DEF IInv, Ascending, LT!Ascending
    <2>3. LT!FloorIsHighest'
      <3>1. \A i \in DOMAIN out : out[i] <= cursor' /\ out[i] \in Nat /\ out[i] # 0
        BY <1>4, <1>7
      <3>2. \A i \in DOMAIN out : cursor' # 0
        BY <1>6, <3>1
      <3>3. \A i \in DOMAIN out : lastSeq' # None /\ out[i] <= lastSeq'
        BY <1>4, <1>6, <1>9, <3>1, <3>2
      <3>4. owed' # None /\ cursor' <= owed'
        BY <1>1, <1>4, <1>6
      <3>5. out' = out
        BY <1>1
      <3> QED BY <2>1, <3>3, <3>4, <3>5 DEF LT!FloorIsHighest
    <2>4. LT!OwedSinceAccepted'
      BY <1>1, <1>4, <1>6, <2>1 DEF LT!OwedSinceAccepted
    <2>5. LT!NothingMissed'
      <3>1. \A w \in Wanted : ~ (owed' < w /\ w < lastSeq' + 1) \/ lastSeq' = None
        BY <1>1, <1>4, <1>6, <1>9
      <3> QED BY <1>1, <2>1, <3>1 DEF LT!NothingMissed, LT!SettledBelow
    <2> QED BY <1>6, <1>10, <2>2, <2>3, <2>4, <2>5 DEF LT!IInv
  <1>12. LiveIsSound'
    <2>1. after <= cursor'
      BY <1>4, <1>5, <1>6
    <2> QED BY <1>1, <1>7, <1>8, <1>11, <2>1 DEF LiveIsSound
  <1>13. SweepIsSound'
    BY <1>1 DEF SweepIsSound
  <1>14. NothingSkipped' /\ Ascending'
    BY <1>1 DEF IInv, NothingSkipped, ReportedUpTo, Reported, Ascending
  <1> QED
    BY <1>1, <1>3, <1>4, <1>6, <1>10, <1>12, <1>13, <1>14 DEF IInv, AS!Tips

(* What a step of the live stream may do to what was yielded.               *)
LEMMA LiveMoves ==
    ASSUME LT!IInv, LT!Client, owed = cursor, cursor \in 0..MaxSeq
    PROVE  /\ LT!IInv' /\ UNCHANGED <<head, low, cursor>> /\ owed' = owed
           /\ bad \subseteq bad'
           /\ \/ out' = out
              \/ \E s \in Wanted : /\ out' = Append(out, s) /\ lastSeq' = s
                                   /\ \A r \in Range(out) : r < s
  <1>1. LTP!IInv /\ LTP!Client
    BY LiveStates, LiveSteps
  <1>2. /\ LTP!IInv' /\ UNCHANGED <<head, low, cursor>>
        /\ bad \subseteq bad'
        /\ \/ out' = out
           \/ \E s \in Wanted : /\ out' = Append(out, s) /\ lastSeq' = s
                                /\ \A r \in LTP!Range(out) : r < s
        /\ owed' = owed \/ owed = LTP!None \/ LTP!IsTimestamp(cursor)
    BY <1>1, Assumed, LTP!ClientStep DEF LTP!BoundsAssumption
  <1>3. owed # LTP!None /\ ~ LTP!IsTimestamp(cursor)
    BY ArchiveAssumption, StreamAssumption DEF LTP!None, LTP!IsTimestamp
  <1>4. LTP!Range(out) = Range(out)
    BY DEF LTP!Range, Range
  <1> QED BY <1>2, <1>3, <1>4, LiveStates

(* A seq appended.                                                          *)
LEMMA AppendFacts ==
    ASSUME NEW S, NEW q \in Seq(S), NEW s \in S
    PROVE  /\ Range(Append(q, s)) = Range(q) \union {s}
           /\ Last(Append(q, s)) = s /\ Append(q, s) # q
  <1>1. /\ Append(q, s) \in Seq(S) /\ Len(Append(q, s)) = Len(q) + 1 /\ Len(q) \in Nat
        /\ \A i \in 1..Len(q) : Append(q, s)[i] = q[i]
        /\ Append(q, s)[Len(q) + 1] = s
        /\ DOMAIN q = 1..Len(q) /\ DOMAIN Append(q, s) = 1..(Len(q) + 1)
    OBVIOUS
  <1>2. Range(Append(q, s)) = Range(q) \union {s}
    BY <1>1 DEF Range
  <1>3. Last(Append(q, s)) = s
    BY <1>1 DEF Last
  <1>4. Append(q, s) # q
    <2>1. \A n \in Nat : n + 1 # n
      OBVIOUS
    <2>2. Len(Append(q, s)) # Len(q)
      BY <1>1, <2>1, Zenon
    <2> QED BY <2>2, Zenon
  <1> QED BY <1>2, <1>3, <1>4

(* The live stream yields an event, reports a malformed one, redials, or    *)
(* ends.                                                                    *)
LEMMA LiveStepInv == ASSUME IInv, LiveStep(LT!Client) PROVE IInv'
  <1>1. /\ phase = "live" /\ LT!Client
        /\ lastDelivered' = IF out' = out THEN lastDelivered ELSE Last(out')
        /\ phase' \in {"threw", "returned", "live"}
        /\ UNCHANGED <<after, before, tip, replans, resume>>
    BY DEF LiveStep, sweepVars
  <1>2. /\ LT!IInv /\ owed = cursor /\ after <= cursor /\ ReportedUpTo(cursor)
        /\ \A s \in Range(out) : s <= cursor \/ s <= lastDelivered
        /\ lastDelivered = None \/ lastDelivered \in Range(out)
    BY <1>1 DEF IInv, LiveIsSound
  <1>3. /\ LT!IInv' /\ UNCHANGED <<head, low, cursor>> /\ owed' = owed
        /\ bad \subseteq bad'
        /\ \/ out' = out
           \/ \E s \in Wanted : /\ out' = Append(out, s) /\ lastSeq' = s
                                /\ \A r \in Range(out) : r < s
    BY <1>1, <1>2, LiveMoves DEF IInv
  <1>4. /\ Wanted \subseteq Nat /\ Wanted \subseteq 1..MaxSeq /\ MaxSeq \in Nat
        /\ cursor \in Nat /\ None = -1 /\ out \in Seq(Wanted) /\ Range(out) \subseteq Nat
        /\ after \in Nat
    BY Facts
  <1>5. Ascending'
    BY <1>3 DEF LT!IInv, LT!Ascending, Ascending
  <1>6. LT!TypeOK'
    BY <1>3 DEF LT!IInv
  <1>7. CASE out' = out
    <2>1. UNCHANGED <<out, lastDelivered>>
      BY <1>1, <1>7
    <2>2. \A w : Reported(w) => Reported(w)'
      BY <1>3, <2>1 DEF Reported
    <2>3. \A f : ReportedUpTo(f) => (\A w \in Wanted : after < w /\ w <= f => Reported(w)')
      BY <2>2 DEF ReportedUpTo
    <2>4. ReportedUpTo(cursor)' /\ NothingSkipped'
      BY <1>1, <1>2, <1>3, <2>1, <2>3 DEF IInv, NothingSkipped, ReportedUpTo
    <2>5. LiveIsSound'
      BY <1>1, <1>2, <1>3, <2>1, <2>4 DEF LiveIsSound
    <2>6. SweepIsSound'
      BY <1>1 DEF SweepIsSound
    <2> QED
      BY <1>1, <1>3, <1>5, <1>6, <2>1, <2>4, <2>5, <2>6 DEF IInv, AS!Tips
  <1>8. ASSUME NEW s \in Wanted, out' = Append(out, s), lastSeq' = s,
               \A r \in Range(out) : r < s
        PROVE  IInv'
    <2>1. /\ Range(out') = Range(out) \union {s} /\ Last(out') = s /\ out' # out
      BY <1>4, <1>8, AppendFacts
    <2>2. lastDelivered' = s /\ s \in Nat /\ s \in 1..MaxSeq
      BY <1>1, <1>4, <2>1
    <2>3. \A w : Reported(w) => Reported(w)'
      BY <1>3, <2>1 DEF Reported
    <2>4. \A f : ReportedUpTo(f) => (\A w \in Wanted : after < w /\ w <= f => Reported(w)')
      BY <2>3 DEF ReportedUpTo
    <2>5. \A w \in Wanted : cursor < w /\ w <= s => Reported(w)'
      <3>1. LT!None = None
        BY LiveStates
      <3>2. LT!SettledBelow(lastSeq + 1)'
        BY <1>2, <1>3, <1>4, <1>8, <2>2, <3>1 DEF LT!IInv, LT!NothingMissed
      <3>3. \A w \in Wanted : cursor < w /\ w < s + 1 => w \in LT!Range(out') \union bad'
        BY <1>2, <1>3, <1>8, <3>2 DEF LT!SettledBelow
      <3>4. LT!Range(out') = Range(out')
        BY DEF LT!Range, Range
      <3> QED BY <1>4, <2>2, <3>3, <3>4 DEF Reported
    <2>6. \A w \in Wanted : after < w /\ w <= s => Reported(w)'
      <3> SUFFICES ASSUME NEW w \in Wanted, after < w, w <= s PROVE Reported(w)'
        OBVIOUS
      <3>1. CASE w <= cursor
        BY <1>2, <2>4, <3>1
      <3>2. CASE cursor < w
        BY <2>5, <3>2
      <3> QED BY <1>4, <3>1, <3>2
    <2>7. NothingSkipped'
      BY <1>1, <2>1, <2>4, <2>6 DEF IInv, NothingSkipped, ReportedUpTo
    <2>8. ReportedUpTo(cursor)'
      BY <1>1, <1>2, <1>3, <2>4 DEF ReportedUpTo
    <2>9. \A r \in Range(out') : r <= lastDelivered'
      BY <1>4, <1>8, <2>1, <2>2
    <2>10. LiveIsSound'
      BY <1>1, <1>2, <1>3, <2>1, <2>2, <2>8, <2>9 DEF LiveIsSound
    <2>11. SweepIsSound'
      BY <1>1 DEF SweepIsSound
    <2>12. lastDelivered' \in {None} \union 0..MaxSeq
      BY <1>4, <2>2
    <2> QED
      BY <1>1, <1>3, <1>5, <1>6, <2>7, <2>10, <2>11, <2>12 DEF IInv, AS!Tips
  <1> QED BY <1>3, <1>7, <1>8

(* The server refuses the live cursor: the next sweep starts from the       *)
(* highest seq delivered, below which all is reported.                      *)
LEMMA TooOldStep == ASSUME IInv, TooOld PROVE IInv'
  <1>1. /\ phase = "live"
        /\ resume' = Max({cursor, lastDelivered}) /\ replans' = replans + 1
        /\ UNCHANGED <<conn, send, cursor, lastSeq, drops, bad, owed, tip, head, low, out,
                       lastDelivered, after, before>>
        /\ IF replans' > MaxReplans \/ resume' <= resume
           THEN phase' = "threw"
           ELSE AS!PlanFrom(resume') /\ lastEmitted' = resume' /\ sealedTip' = None
    BY DEF TooOld, liveVars, sweepVars
  <1>2. /\ LT!IInv /\ owed = cursor /\ after <= cursor /\ ReportedUpTo(cursor)
        /\ \A s \in Range(out) : s <= cursor \/ s <= lastDelivered
        /\ lastDelivered = None \/ lastDelivered \in Range(out)
    BY <1>1 DEF IInv, LiveIsSound
  <1>3. /\ cursor \in Nat /\ cursor \in 0..MaxSeq /\ None = -1
        /\ lastDelivered \in {None} \union Nat /\ lastDelivered \in {None} \union 0..MaxSeq
        /\ Range(out) \subseteq Nat /\ Wanted \subseteq Nat /\ Range(out) \subseteq Wanted
        /\ after \in Nat /\ replans \in Nat /\ MaxReplans \in Nat /\ MaxSeq \in Nat
        /\ out \in Seq(Wanted) /\ replans <= MaxReplans /\ resume \in Nat
    BY <1>1, Facts DEF IInv
  <1>4. /\ resume' \in {cursor, lastDelivered} /\ cursor <= resume' /\ lastDelivered <= resume'
    BY <1>1, <1>3, MaxOfTwo
  <1>5. resume' \in 0..MaxSeq /\ resume' \in Nat /\ after <= resume'
    BY <1>2, <1>3, <1>4
  <1>6. \A s \in Range(out) : s <= resume'
    BY <1>2, <1>3, <1>4, <1>5
  <1>7. /\ \A w \in Wanted : after < w /\ w <= resume' => Reported(w)
    <2> SUFFICES ASSUME NEW w \in Wanted, after < w, w <= resume' PROVE Reported(w)
      OBVIOUS
    <2>1. CASE resume' = cursor
      BY <1>2, <2>1 DEF ReportedUpTo
    <2>2. CASE resume' # cursor
      <3>1. resume' \in Range(out)
        BY <1>2, <1>3, <1>4, <1>5, <2>2
      <3> QED BY <3>1 DEF IInv, NothingSkipped, ReportedUpTo
    <2> QED BY <2>1, <2>2
  <1>8. Ascending' /\ NothingSkipped' /\ ReportedUpTo(resume)'
    BY <1>1, <1>7 DEF IInv, Ascending, NothingSkipped, ReportedUpTo, Reported
  <1>9. LT!TypeOK'
    BY <1>1 DEF IInv, LT!TypeOK
  <1>10. replans' \in 0..(MaxReplans + 1)
    BY <1>1, <1>3
  <1>11. CASE replans' > MaxReplans \/ resume' <= resume
    <2>1. phase' = "threw"
      BY <1>1, <1>11
    <2>2. SweepIsSound' /\ LiveIsSound'
      BY <2>1 DEF SweepIsSound, LiveIsSound
    <2> QED BY <1>1, <1>5, <1>8, <1>9, <1>10, <2>1, <2>2 DEF IInv, AS!Tips
  <1>12. CASE ~ (replans' > MaxReplans \/ resume' <= resume)
    <2>1. AS!PlanFrom(resume') /\ lastEmitted' = resume' /\ sealedTip' = None
      BY <1>1, <1>12
    <2>2. PICK s \in 0..MaxSeq : s = resume'
      BY <1>5
    <2>3. /\ phase' = "plan" /\ snapshotResume' = s
      BY <2>1, <2>2 DEF AS!PlanFrom
    <2>4. /\ after \in Afters /\ before \in Befores /\ tip \in ASP!Tips
          /\ ASP!OutAscends
          /\ ASP!PlanFrom(s)
          /\ sealedTip' \in {ASP!None} \union 0..MaxSeq
          /\ ASP!Range(out) = Range(out)
          /\ replans' \in 0..MaxReplans
      <3>1. AS!PlanFrom(s)
        BY <2>1, <2>2
      <3>2. ASP!PlanFrom(s)
        BY <3>1, SweepSteps
      <3>3. ASP!Range(out) = Range(out) /\ ASP!None = None
        BY DEF ASP!Range, Range, ASP!None, None
      <3>4. replans' \in 0..MaxReplans
        BY <1>3, <1>10, <1>12
      <3> QED
        BY <2>1, <3>2, <3>3, <3>4 DEF IInv, AS!Tips, ASP!Tips, Ascending, ASP!OutAscends
    <2>5. AS!WindowInv'
      <3>1. \A r \in ASP!Range(out) : r <= s
        BY <1>6, <2>2, <2>4
      <3>2. ASP!WindowInv'
        BY <1>1, <1>3, <2>1, <2>2, <2>4, <3>1, Assumed, ASP!NewWindow
           DEF ASP!FiltersAssumption, ASP!ArchiveAssumption, ASP!RequestAssumption
      <3> QED BY <3>2, SweepStates
    <2>6. SweepIsSound'
      BY <1>5, <1>8, <2>2, <2>3, <2>5 DEF SweepIsSound, ReportedUpTo, Reported
    <2>7. LiveIsSound'
      BY <2>3 DEF LiveIsSound
    <2> QED BY <1>1, <1>5, <1>8, <1>9, <1>10, <2>3, <2>6, <2>7 DEF IInv, AS!Tips
  <1> QED BY <1>11, <1>12

-------------------------------------------------------------------------------
(* The invariant, and what it says of the replay *)

(* The inductive invariant holds of every replay.                           *)
THEOREM Invariance == Spec => []IInv
  <1>1. IInv /\ [Next]_vars => IInv'
    <2> SUFFICES ASSUME IInv, [Next]_vars PROVE IInv'
      OBVIOUS
    <2>1. CASE Server
      BY <2>1, ServerStep
    <2>2. CASE SweepStep(AS!Sweep)
      BY <2>2, SweepStepInv
    <2>3. CASE GoLive
      BY <2>3, GoLiveStep
    <2>4. CASE LiveStep(LT!Client)
      BY <2>4, LiveStepInv
    <2>5. CASE TooOld
      BY <2>5, TooOldStep
    <2>6. CASE UNCHANGED vars
      <3>1. /\ UNCHANGED <<after, before, snapshotResume, lastEmitted, sealedTip, pin,
                           planCursor, through, blocks, phase, replans, out, resume,
                           lastDelivered, tip, head, low>>
            /\ UNCHANGED <<conn, send, cursor, lastSeq, drops, bad, owed>>
        BY <2>6 DEF vars, sweepVars, liveVars
      <3>2. AS!WindowInv => AS!WindowInv'
        BY <3>1, SweepStates, Assumed, ASP!OtherStep
           DEF ASP!FiltersAssumption, ASP!ArchiveAssumption, ASP!RequestAssumption
      <3>3. LT!IInv => LT!IInv'
        <4>1. UNCHANGED LTP!vars
          BY <3>1 DEF LTP!vars
        <4> QED BY <4>1, LiveStates, Assumed, LTP!NextInv DEF LTP!BoundsAssumption
      <3>4. LT!TypeOK'
        BY <3>1 DEF IInv, LT!TypeOK
      <3> QED
        BY <3>1, <3>2, <3>3, <3>4
           DEF IInv, SweepIsSound, LiveIsSound, NothingSkipped, ReportedUpTo, Reported,
               Ascending, AS!Tips
    <2> QED BY <2>1, <2>2, <2>3, <2>4, <2>5, <2>6 DEF Next
  <1> QED BY <1>1, InitInv, PTL DEF Spec

(* No gap: in the sweep, at the cutover, and over any number of re-plans,   *)
(* lost connections and re-backfills.                                       *)
THEOREM ReplayHasNoGap == Spec => []NoGap
  <1>1. IInv => NoGap
    <2> SUFFICES ASSUME IInv PROVE NoGap
      OBVIOUS
    <2> DEFINE S == {after} \union Range(out)
                    \union (IF phase = "live" THEN {cursor} ELSE {})
    <2>1. /\ MaxSeq \in Nat /\ S \subseteq 0..MaxSeq /\ S # {}
      <3>1. MaxSeq \in Nat /\ Range(out) \subseteq 0..MaxSeq /\ cursor \in 0..MaxSeq
        BY Facts DEF IInv
      <3>2. after \in 0..MaxSeq
        BY RequestAssumption DEF IInv
      <3> QED BY <3>1, <3>2
    <2>2. Max(S) \in S
      <3>1. ASP!Max(S) \in S
        BY <2>1, Assumed, ASP!MaxOfNats
           DEF ASP!FiltersAssumption, ASP!ArchiveAssumption, ASP!RequestAssumption
      <3>2. ASP!Max(S) = Max(S)
        BY DEF ASP!Max, Max
      <3> QED BY <3>1, <3>2
    <2>3. ReportedUpTo(Max(S))
      <3>1. ReportedUpTo(after)
        BY Facts DEF ReportedUpTo
      <3>2. phase = "live" => ReportedUpTo(cursor)
        BY DEF IInv, LiveIsSound
      <3> HIDE DEF S
      <3>3. \A m : m = after \/ m \in Range(out) \/ (phase = "live" /\ m = cursor)
                   => ReportedUpTo(m)
        BY <3>1, <3>2 DEF IInv, NothingSkipped
      <3>4. \/ Max(S) = after \/ Max(S) \in Range(out)
            \/ phase = "live" /\ Max(S) = cursor
        BY <2>2 DEF S
      <3> QED BY <3>3, <3>4
    <2> QED BY <2>3 DEF NoGap, ReportedUpTo
  <1> QED BY <1>1, Invariance, PTL

(* ... and no duplicate: seqs are yielded in strictly increasing order,     *)
(* across the cutover and every re-backfill.                                *)
THEOREM ReplayAscends == Spec => []Ascending
  <1>1. IInv => Ascending
    BY DEF IInv
  <1> QED BY <1>1, Invariance, PTL
==============================================================================
