---------------------------- MODULE Runner_proofs ----------------------------
(* Proofs about Runner, for every stream, keys, concurrency and bounds: the *)
(* lemmas of its two components, each of them for the run and for the run   *)
(* before it, and what relates the two.                                     *)
EXTENDS Runner, TLAPS

CTP == INSTANCE CommitTracker_proofs
IXP == INSTANCE LexIndexer_proofs

PriorCTP == INSTANCE CommitTracker_proofs WITH
    first <- priorFirst, pulled <- priorPulled, tracked <- priorTracked, doneSet
    <- priorDoneSet, mark <- priorMark, savePromise <- priorSavePromise, saving
    <- priorSaving, applied <- priorApplied, flush <- priorFlush, flushMark
    <- priorFlushMark
PriorIXP == INSTANCE LexIndexer_proofs WITH
    main <- priorMain, pos <- priorPos, inFlight <- priorInFlight, stopped <-
    priorStopped, firstError <- priorFirstError, st <- priorSt, tail <-
    priorTail, prev <- priorPrev

(* The lemmas about CommitTracker speak of its definitions by another name.  *)
LEMMA TrackerStates ==
    /\ CT!N = CTP!N /\ CT!Seqs = CTP!Seqs /\ CT!Cursors = CTP!Cursors
    /\ CT!Confirmed = CTP!Confirmed
    /\ CT!WindowInv <=> CTP!WindowInv
    /\ CT!IInv <=> CTP!IInv
    /\ \A c : CT!AckedUpTo(c) <=> CTP!AckedUpTo(c)
    /\ CT!DoneAreDelivered <=> CTP!DoneAreDelivered
    /\ CT!WatermarkIsTight <=> CTP!WatermarkIsTight
    /\ CT!Confirmed' = CTP!Confirmed'
    /\ CT!WindowInv' <=> CTP!WindowInv'
    /\ CT!IInv' <=> CTP!IInv'
    /\ CT!DoneAreDelivered' <=> CTP!DoneAreDelivered'
    /\ CT!WatermarkIsTight' <=> CTP!WatermarkIsTight'
  BY SMT
     DEF CT!N, CTP!N, CT!Seqs, CTP!Seqs, CT!Cursors, CTP!Cursors, CT!TypeOK,
         CTP!TypeOK, CT!Confirmed, CTP!Confirmed, CT!TrackedIsWindow,
         CTP!TrackedIsWindow, CT!ConfirmedAreAcked, CTP!ConfirmedAreAcked,
         CT!MarkIsConfirmed, CTP!MarkIsConfirmed, CT!SaveIsConfirmed,
         CTP!SaveIsConfirmed, CT!WindowInv, CTP!WindowInv, CT!StoredIsBehind,
         CTP!StoredIsBehind, CT!SaveIsAhead, CTP!SaveIsAhead, CT!FlushIsCovered,
         CTP!FlushIsCovered, CT!IInv, CTP!IInv,
         CT!AckedUpTo, CTP!AckedUpTo, CT!Delivered, CTP!Delivered,
         CT!DoneAreDelivered, CTP!DoneAreDelivered, CT!WatermarkIsTight,
         CTP!WatermarkIsTight

(* So are the tracker's steps.                                              *)
LEMMA TrackerSteps ==
    /\ \A n : CT!Pull(n) <=> CTP!Pull(n)
    /\ \A s : CT!Done(s) <=> CTP!Done(s)
    /\ CT!Flush <=> CTP!Flush
    /\ CT!FlushSettles <=> CTP!FlushSettles
    /\ CT!SaveApplies <=> CTP!SaveApplies
    /\ CT!SaveResolves <=> CTP!SaveResolves
    /\ CT!SaveRejects <=> CTP!SaveRejects
    /\ CT!Restart <=> CTP!Restart
  BY SMT
     DEF CT!N, CTP!N, CT!Seqs, CTP!Seqs, CT!Delivered, CTP!Delivered,
         CT!StartSaveLoop, CTP!StartSaveLoop, CT!ScheduleSave, CTP!ScheduleSave,
         CT!saveVars, CTP!saveVars, CT!trackerVars, CTP!trackerVars,
         CT!IsConfirmedPrefix, CTP!IsConfirmedPrefix, CT!Pull, CTP!Pull,
         CT!Done, CTP!Done, CT!Flush, CTP!Flush, CT!FlushSettles, CTP!FlushSettles,
         CT!SaveApplies,
         CTP!SaveApplies, CT!SaveResolves, CTP!SaveResolves, CT!SaveRejects,
         CTP!SaveRejects, CT!Restart, CTP!Restart

(* The same of the tracker of the run before. *)
LEMMA PriorTrackerStates ==
    /\ PriorCT!N = PriorCTP!N /\ PriorCT!Seqs = PriorCTP!Seqs /\ PriorCT!Cursors = PriorCTP!Cursors
    /\ PriorCT!Confirmed = PriorCTP!Confirmed
    /\ PriorCT!WindowInv <=> PriorCTP!WindowInv
    /\ PriorCT!IInv <=> PriorCTP!IInv
    /\ \A c : PriorCT!AckedUpTo(c) <=> PriorCTP!AckedUpTo(c)
    /\ PriorCT!DoneAreDelivered <=> PriorCTP!DoneAreDelivered
    /\ PriorCT!WatermarkIsTight <=> PriorCTP!WatermarkIsTight
    /\ PriorCT!Confirmed' = PriorCTP!Confirmed'
    /\ PriorCT!WindowInv' <=> PriorCTP!WindowInv'
    /\ PriorCT!IInv' <=> PriorCTP!IInv'
    /\ PriorCT!DoneAreDelivered' <=> PriorCTP!DoneAreDelivered'
    /\ PriorCT!WatermarkIsTight' <=> PriorCTP!WatermarkIsTight'
  BY SMT
     DEF PriorCT!N, PriorCTP!N, PriorCT!Seqs, PriorCTP!Seqs, PriorCT!Cursors,
         PriorCTP!Cursors, PriorCT!TypeOK, PriorCTP!TypeOK, PriorCT!Confirmed,
         PriorCTP!Confirmed, PriorCT!TrackedIsWindow, PriorCTP!TrackedIsWindow,
         PriorCT!ConfirmedAreAcked, PriorCTP!ConfirmedAreAcked,
         PriorCT!MarkIsConfirmed, PriorCTP!MarkIsConfirmed,
         PriorCT!SaveIsConfirmed, PriorCTP!SaveIsConfirmed, PriorCT!WindowInv,
         PriorCTP!WindowInv, PriorCT!StoredIsBehind, PriorCTP!StoredIsBehind,
         PriorCT!SaveIsAhead, PriorCTP!SaveIsAhead, PriorCT!FlushIsCovered,
         PriorCTP!FlushIsCovered, PriorCT!IInv, PriorCTP!IInv,
         PriorCT!AckedUpTo, PriorCTP!AckedUpTo, PriorCT!Delivered,
         PriorCTP!Delivered, PriorCT!DoneAreDelivered,
         PriorCTP!DoneAreDelivered, PriorCT!WatermarkIsTight,
         PriorCTP!WatermarkIsTight

(* So are the steps of the earlier run's tracker.                           *)
LEMMA PriorTrackerSteps ==
    /\ \A n : PriorCT!Pull(n) <=> PriorCTP!Pull(n)
    /\ \A s : PriorCT!Done(s) <=> PriorCTP!Done(s)
    /\ PriorCT!Flush <=> PriorCTP!Flush
    /\ PriorCT!FlushSettles <=> PriorCTP!FlushSettles
    /\ PriorCT!SaveApplies <=> PriorCTP!SaveApplies
    /\ PriorCT!SaveResolves <=> PriorCTP!SaveResolves
    /\ PriorCT!SaveRejects <=> PriorCTP!SaveRejects
    /\ PriorCT!Restart <=> PriorCTP!Restart
  BY SMT
     DEF PriorCT!N, PriorCTP!N, PriorCT!Seqs, PriorCTP!Seqs, PriorCT!Delivered,
         PriorCTP!Delivered, PriorCT!StartSaveLoop, PriorCTP!StartSaveLoop,
         PriorCT!ScheduleSave, PriorCTP!ScheduleSave, PriorCT!saveVars,
         PriorCTP!saveVars, PriorCT!trackerVars, PriorCTP!trackerVars,
         PriorCT!IsConfirmedPrefix, PriorCTP!IsConfirmedPrefix, PriorCT!Pull,
         PriorCTP!Pull, PriorCT!Done, PriorCTP!Done, PriorCT!Flush,
         PriorCTP!Flush, PriorCT!FlushSettles, PriorCTP!FlushSettles,
         PriorCT!SaveApplies, PriorCTP!SaveApplies,
         PriorCT!SaveResolves, PriorCTP!SaveResolves, PriorCT!SaveRejects,
         PriorCTP!SaveRejects, PriorCT!Restart, PriorCTP!Restart

(* The same of LexIndexer. *)
LEMMA IndexerStates ==
    /\ IX!E = IXP!E /\ IX!Keys = IXP!Keys /\ \A e : IX!Key(e) = IXP!Key(e)
    /\ IX!IInv <=> IXP!IInv
    /\ IX!OrderInv <=> IXP!OrderInv
    /\ IX!IInv' <=> IXP!IInv'
    /\ IX!OrderInv' <=> IXP!OrderInv'
  BY SMT
     DEF IX!E, IXP!E, IX!Keys, IXP!Keys, IX!Key, IXP!Key, IX!Outstanding,
         IXP!Outstanding, IX!Settled, IXP!Settled, IX!Statuses, IXP!Statuses,
         IX!Main, IXP!Main, IX!Started, IXP!Started, IX!Cardinality,
         IXP!Cardinality, IX!TypeOK, IXP!TypeOK, IX!KeyOrder, IXP!KeyOrder,
         IX!SlotsCounted, IXP!SlotsCounted, IX!TakenInOrder, IXP!TakenInOrder,
         IX!FailureIsKnown, IXP!FailureIsKnown, IX!TailIsLast, IXP!TailIsLast,
         IX!QueuedBehindPrev, IXP!QueuedBehindPrev, IX!SettledInOrder,
         IXP!SettledInOrder, IX!EndIsQuiet, IXP!EndIsQuiet, IX!IInv, IXP!IInv,
         IX!OrderInv, IXP!OrderInv

(* So are the processor's steps.                                            *)
LEMMA IndexerSteps ==
    /\ IX!Take <=> IXP!Take
    /\ IX!Granted <=> IXP!Granted
    /\ \A e : IX!Work(e) <=> IXP!Work(e)
    /\ \A k : IX!ForgetTail(k) <=> IXP!ForgetTail(k)
    /\ IX!StreamEnds <=> IXP!StreamEnds
    /\ IX!StreamThrows <=> IXP!StreamThrows
    /\ IX!Finish <=> IXP!Finish
    /\ \A p : IX!RunAgain(p) <=> IXP!RunAgain(p)
  BY SMT
     DEF IX!E, IXP!E, IX!Keys, IXP!Keys, IX!Key, IXP!Key, IX!HasHandler,
         IXP!HasHandler, IX!Outcomes, IXP!Outcomes, IX!Settled, IXP!Settled,
         IX!Settle, IXP!Settle, IX!Call, IXP!Call, IX!Dispatch, IXP!Dispatch,
         IX!KeyThrows, IXP!KeyThrows, IX!BreakOut, IXP!BreakOut, IX!Take,
         IXP!Take, IX!Granted, IXP!Granted, IX!HandlerSettles,
         IXP!HandlerSettles, IX!RunQueued, IXP!RunQueued, IX!Work, IXP!Work,
         IX!ForgetTail, IXP!ForgetTail, IX!StreamEnds, IXP!StreamEnds,
         IX!StreamThrows, IXP!StreamThrows, IX!Finish, IXP!Finish, IX!RunAgain,
         IXP!RunAgain

(* The same of the run before. *)
LEMMA PriorIndexerStates ==
    /\ PriorIX!E = PriorIXP!E /\ PriorIX!Keys = PriorIXP!Keys /\ \A e : PriorIX!Key(e) = PriorIXP!Key(e)
    /\ PriorIX!IInv <=> PriorIXP!IInv
    /\ PriorIX!OrderInv <=> PriorIXP!OrderInv
    /\ PriorIX!IInv' <=> PriorIXP!IInv'
    /\ PriorIX!OrderInv' <=> PriorIXP!OrderInv'
  BY SMT
     DEF PriorIX!E, PriorIXP!E, PriorIX!Keys, PriorIXP!Keys, PriorIX!Key,
         PriorIXP!Key, PriorIX!Outstanding, PriorIXP!Outstanding,
         PriorIX!Settled, PriorIXP!Settled, PriorIX!Statuses, PriorIXP!Statuses,
         PriorIX!Main, PriorIXP!Main, PriorIX!Started, PriorIXP!Started,
         PriorIX!Cardinality, PriorIXP!Cardinality, PriorIX!TypeOK,
         PriorIXP!TypeOK, PriorIX!KeyOrder, PriorIXP!KeyOrder,
         PriorIX!SlotsCounted, PriorIXP!SlotsCounted, PriorIX!TakenInOrder,
         PriorIXP!TakenInOrder, PriorIX!FailureIsKnown, PriorIXP!FailureIsKnown,
         PriorIX!TailIsLast, PriorIXP!TailIsLast, PriorIX!QueuedBehindPrev,
         PriorIXP!QueuedBehindPrev, PriorIX!SettledInOrder,
         PriorIXP!SettledInOrder, PriorIX!EndIsQuiet, PriorIXP!EndIsQuiet,
         PriorIX!IInv, PriorIXP!IInv, PriorIX!OrderInv, PriorIXP!OrderInv

(* So are the steps of the earlier run's processor.                         *)
LEMMA PriorIndexerSteps ==
    /\ PriorIX!Take <=> PriorIXP!Take
    /\ PriorIX!Granted <=> PriorIXP!Granted
    /\ \A e : PriorIX!Work(e) <=> PriorIXP!Work(e)
    /\ \A k : PriorIX!ForgetTail(k) <=> PriorIXP!ForgetTail(k)
    /\ PriorIX!StreamEnds <=> PriorIXP!StreamEnds
    /\ PriorIX!StreamThrows <=> PriorIXP!StreamThrows
    /\ PriorIX!Finish <=> PriorIXP!Finish
    /\ \A p : PriorIX!RunAgain(p) <=> PriorIXP!RunAgain(p)
  BY SMT
     DEF PriorIX!E, PriorIXP!E, PriorIX!Keys, PriorIXP!Keys, PriorIX!Key,
         PriorIXP!Key, PriorIX!HasHandler, PriorIXP!HasHandler,
         PriorIX!Outcomes, PriorIXP!Outcomes, PriorIX!Settled, PriorIXP!Settled,
         PriorIX!Settle, PriorIXP!Settle, PriorIX!Call, PriorIXP!Call,
         PriorIX!Dispatch, PriorIXP!Dispatch, PriorIX!KeyThrows,
         PriorIXP!KeyThrows, PriorIX!BreakOut, PriorIXP!BreakOut, PriorIX!Take,
         PriorIXP!Take, PriorIX!Granted, PriorIXP!Granted,
         PriorIX!HandlerSettles, PriorIXP!HandlerSettles, PriorIX!RunQueued,
         PriorIXP!RunQueued, PriorIX!Work, PriorIXP!Work, PriorIX!ForgetTail,
         PriorIXP!ForgetTail, PriorIX!StreamEnds, PriorIXP!StreamEnds,
         PriorIX!StreamThrows, PriorIXP!StreamThrows, PriorIX!Finish,
         PriorIXP!Finish, PriorIX!RunAgain, PriorIXP!RunAgain

-------------------------------------------------------------------------------
(* The components' steps, in Runner's terms *)

(* Both components count the same events. *)
LEMMA Constants ==
    /\ Len(Stream) \in Nat /\ CT!N = Len(Stream) /\ PriorCT!N = Len(Stream)
    /\ IX!E = 1..Len(Stream) /\ PriorIX!E = IX!E /\ Len(Events) = Len(Stream)
    /\ CT!Seqs = PriorCT!Seqs
    /\ \A e \in IX!E : e \in Nat /\ Stream[e] \in Nat /\ Stream[e] > 0 /\ Stream[e] \in CT!Seqs
    /\ \A e, f \in IX!E : e < f => Stream[e] < Stream[f]
    /\ \A e, f \in IX!E : Stream[e] = Stream[f] => e = f
  <1>1. /\ CTP!N \in Nat
        /\ \A i \in 1..CTP!N : Stream[i] \in CTP!Seqs /\ Stream[i] \in Nat /\ Stream[i] > 0
        /\ \A i, j \in 1..CTP!N : i < j => Stream[i] < Stream[j]
    BY CTP!StreamFacts, StreamAssumption, BoundsAssumption
  <1>2. /\ CTP!N = Len(Stream) /\ PriorCT!N = Len(Stream) /\ CT!Seqs = PriorCT!Seqs
        /\ IX!E = 1..Len(Stream) /\ PriorIX!E = IX!E
    BY SameEvents DEF CTP!N, PriorCT!N, IX!E, PriorIX!E, CT!Seqs, PriorCT!Seqs, CT!N
  <1>3. \A e, f \in IX!E : Stream[e] = Stream[f] => e = f
    BY <1>1, <1>2
  <1> QED BY <1>1, <1>2, <1>3, TrackerStates, SameEvents

(* A step of a tracker that is neither a crash nor a new run.               *)
TrackerActs ==
    \/ \E n \in 1..MaxBatch : CT!Pull(n)
    \/ \E s \in CT!Seqs : CT!Done(s)
    \/ CT!Flush \/ CT!FlushSettles \/ CT!SaveApplies \/ CT!SaveResolves \/ CT!SaveRejects

PriorTrackerActs ==
    \/ \E s \in CT!Seqs : PriorCT!Done(s)
    \/ PriorCT!SaveApplies \/ PriorCT!SaveResolves \/ PriorCT!SaveRejects

(* Each keeps its tracker's window, and acknowledges events of the stream   *)
(* at most.                                                                 *)
LEMMA TrackerActsStep ==
    ASSUME CT!WindowInv, TrackerActs
    PROVE  CT!WindowInv' /\ acked \subseteq acked'
  <1>1. CTP!WindowInv
    BY TrackerStates
  <1>2. \/ \E n \in 1..MaxBatch : CTP!Pull(n)
        \/ \E s \in CTP!Seqs : CTP!Done(s)
        \/ CTP!Flush \/ CTP!FlushSettles
        \/ CTP!SaveApplies \/ CTP!SaveResolves \/ CTP!SaveRejects
    BY TrackerSteps, TrackerStates DEF TrackerActs
  <1>3. CTP!WindowInv'
    BY <1>1, <1>2, CTP!PullStep, CTP!DoneStep, CTP!FlushStep, CTP!SaveSteps,
       StreamAssumption, BoundsAssumption
  <1>4. acked \subseteq acked'
    BY <1>2 DEF CTP!Pull, CTP!Done, CTP!Flush, CTP!FlushSettles, CTP!SaveApplies, CTP!SaveResolves,
                CTP!SaveRejects
  <1> QED BY <1>3, <1>4, TrackerStates

(* The earlier run's tracker keeps its invariant when it acts; acks only add up. *)
LEMMA PriorTrackerActsStep ==
    ASSUME PriorCT!WindowInv, PriorTrackerActs
    PROVE  PriorCT!WindowInv' /\ acked \subseteq acked'
  <1>1. PriorCTP!WindowInv
    BY PriorTrackerStates
  <1>2. \/ \E s \in PriorCTP!Seqs : PriorCTP!Done(s)
        \/ PriorCTP!SaveApplies \/ PriorCTP!SaveResolves \/ PriorCTP!SaveRejects
    BY PriorTrackerSteps, PriorTrackerStates, Constants DEF PriorTrackerActs
  <1>3. PriorCTP!WindowInv'
    BY <1>1, <1>2, PriorCTP!DoneStep, PriorCTP!SaveSteps, StreamAssumption, BoundsAssumption
  <1>4. acked \subseteq acked'
    BY <1>2 DEF PriorCTP!Done, PriorCTP!SaveApplies, PriorCTP!SaveResolves,
                PriorCTP!SaveRejects
  <1> QED BY <1>3, <1>4, PriorTrackerStates

(* What one tracker writes leaves the other's window as it is.              *)
LEMMA PriorWindowKept ==
    ASSUME PriorCT!WindowInv, CT!WindowInv', UNCHANGED priorTrackerVars, acked \subseteq acked'
    PROVE  PriorCT!WindowInv'
  <1>1. /\ acked' \subseteq PriorCTP!Seqs /\ stored' \in PriorCTP!Cursors
        /\ fails' \in 0..MaxFails /\ restarts' \in 0..MaxRestarts
    BY Constants
       DEF CT!WindowInv, CT!TypeOK, CT!Seqs, CT!Cursors, CT!N, PriorCTP!Cursors,
           PriorCTP!Seqs, PriorCTP!N
  <1>2. UNCHANGED <<priorFirst, priorPulled, priorTracked, priorDoneSet, priorMark,
                    priorSavePromise, priorSaving, priorApplied, priorFlush,
                    priorFlushMark>>
    BY DEF priorTrackerVars
  <1> QED BY <1>1, <1>2, PriorTrackerStates, PriorCTP!OtherTrackerStep,
             StreamAssumption, BoundsAssumption

(* The run's own tracker keeps its window while the earlier run's acknowledges
   and saves.                                                               *)
LEMMA OwnWindowKept ==
    ASSUME CT!WindowInv, PriorCT!WindowInv', UNCHANGED ownVars, acked \subseteq acked'
    PROVE  CT!WindowInv' /\ UNCHANGED CT!Confirmed
  <1>1. /\ acked' \subseteq CTP!Seqs /\ stored' \in CTP!Cursors
        /\ fails' \in 0..MaxFails /\ restarts' \in 0..MaxRestarts
    BY Constants
       DEF PriorCT!WindowInv, PriorCT!TypeOK, PriorCT!Seqs, PriorCT!Cursors, PriorCT!N,
           CTP!Cursors, CTP!Seqs, CTP!N
  <1>2. UNCHANGED <<first, pulled, tracked, doneSet, mark, savePromise, saving, applied, flush,
                    flushMark>>
    BY DEF ownVars
  <1> QED BY <1>1, <1>2, TrackerStates, CTP!OtherTrackerStep, StreamAssumption, BoundsAssumption

(* While nothing else writes to the store, the tracker is as CommitTracker's *)
(* own specification has it.                                                 *)
LEMMA SoleWriterStep ==
    ASSUME OneWriter, TrackerActs \/ UNCHANGED trackerVars,
           UNCHANGED <<priorMain, priorSt, priorSavePromise>>
    PROVE  OneWriter'
  <1> SUFFICES ASSUME priorMain # "aborted"
               PROVE  CT!IInv' /\ CT!DoneAreDelivered' /\ CT!WatermarkIsTight'
    BY DEF OneWriter, IX!E
  <1>1. CTP!IInv /\ CTP!WindowInv /\ CTP!DoneAreDelivered /\ CTP!WatermarkIsTight
    BY TrackerStates DEF OneWriter, CTP!IInv
  <1>2. CTP!Next \/ UNCHANGED CTP!vars
    <2>1. CASE TrackerActs
      <3>1. \/ \E n \in 1..MaxBatch : CTP!Pull(n)
            \/ \E s \in CTP!Seqs : CTP!Done(s)
            \/ CTP!Flush \/ CTP!FlushSettles
            \/ CTP!SaveApplies \/ CTP!SaveResolves \/ CTP!SaveRejects
        BY <2>1, TrackerSteps, TrackerStates DEF TrackerActs
      <3> QED BY <3>1 DEF CTP!Next
    <2>2. CASE UNCHANGED trackerVars
      BY <2>2 DEF trackerVars, ownVars, storeVars, CTP!vars
    <2> QED BY <2>1, <2>2
  <1>3. CTP!IInv' /\ CTP!DoneAreDelivered' /\ CTP!WatermarkIsTight'
    BY <1>1, <1>2, CTP!NextInv, CTP!TightStep, StreamAssumption, BoundsAssumption
  <1> QED BY <1>3, TrackerStates

(* The store holds what is acknowledged, whoever saves.                     *)
LEMMA StoreStep ==
    ASSUME IInv, acked \subseteq acked',
           \/ stored' = stored
           \/ CT!SaveApplies
           \/ PriorCT!SaveApplies
    PROVE  CT!CursorCoversOnlyAcked'
  <1>1. CASE stored' = stored
    BY <1>1 DEF IInv, CT!CursorCoversOnlyAcked, CT!AckedUpTo, CT!N
  <1>2. CASE CT!SaveApplies
    <2>1. stored' = saving /\ savePromise = "pending"
      BY <1>2 DEF CT!SaveApplies
    <2>2. CT!AckedUpTo(saving)
      BY <2>1, TrackerStates, CTP!MarkIsAcked, StreamAssumption, BoundsAssumption DEF IInv
    <2> QED BY <2>1, <2>2 DEF CT!CursorCoversOnlyAcked, CT!AckedUpTo, CT!N
  <1>3. CASE PriorCT!SaveApplies
    <2>1. stored' = priorSaving /\ priorSavePromise = "pending"
      BY <1>3 DEF PriorCT!SaveApplies
    <2>2. PriorCT!AckedUpTo(priorSaving)
      BY <2>1, PriorTrackerStates, PriorCTP!MarkIsAcked, StreamAssumption, BoundsAssumption
         DEF IInv
    <2> QED BY <2>1, <2>2, Constants
            DEF CT!CursorCoversOnlyAcked, CT!AckedUpTo, PriorCT!AckedUpTo, CT!N, PriorCT!N
  <1> QED BY <1>1, <1>2, <1>3

(* The indexer's invariant over a step that is not its own, and the order   *)
(* of the keys of the run before.                                           *)
LEMMA IndexerKept == ASSUME IX!IInv, UNCHANGED indexerVars PROVE IX!IInv'
  <1>1. UNCHANGED IXP!vars
    BY DEF indexerVars, IXP!vars
  <1> QED BY <1>1, IndexerStates, IXP!StutterStep, ConcurrencyAssumption, EventsAssumption,
             KeyOfAssumption

(* The order of the earlier run's handlers depends on its status, chain and stop
   flag only.                                                               *)
LEMMA PriorOrderKept ==
    ASSUME PriorIX!OrderInv, priorSt' = priorSt, priorPrev' = priorPrev,
           priorStopped' = priorStopped
    PROVE  PriorIX!OrderInv'
  <1>1. /\ PriorIX!QueuedBehindPrev' /\ PriorIX!SettledInOrder' /\ PriorIX!KeyOrder'
        /\ \A e \in PriorIX!E : priorSt'[e] \in {"failed", "skipped"} => priorStopped'
    BY DEF PriorIX!OrderInv, PriorIX!QueuedBehindPrev, PriorIX!SettledInOrder,
           PriorIX!KeyOrder, PriorIX!Started
  <1> QED BY <1>1 DEF PriorIX!OrderInv

-------------------------------------------------------------------------------
(* The steps of Runner *)

(* Index arithmetic of the tracker's window.                                *)
LEMMA WindowFacts ==
    ASSUME CT!WindowInv
    PROVE  /\ first \in Nat /\ first >= 1 /\ pulled \in Nat /\ pulled <= Len(Stream)
           /\ CT!Confirmed \in Nat /\ first <= CT!Confirmed + 1 /\ CT!Confirmed <= pulled
           /\ mark \in Nat /\ saving \in Nat /\ stored \in Nat
  <1>1. CTP!IndexFacts
    BY TrackerStates, CTP!InvFacts, StreamAssumption, BoundsAssumption
  <1> QED BY <1>1, TrackerStates, Constants DEF CTP!IndexFacts, CTP!N

(* A batch is pulled, flush() is called or ends, or the store answers.      *)
LEMMA OwnTrackerStep ==
    ASSUME IInv, (\E n \in 1..MaxBatch : PullBatch(n)) \/ FlushAtEnd \/ FlushEnds \/ SaveLoop
    PROVE  IInv'
  <1>0. /\ CT!WindowInv /\ PriorCT!WindowInv /\ IX!IInv /\ PriorIX!OrderInv
        /\ OneWriter /\ TakenSoFar /\ PriorTakenInTurn /\ HandledIsAcked
        /\ TrackedIsHandled /\ KeyPrefixHandled /\ EndIsClean
    BY DEF IInv
  <1>1. /\ TrackerActs /\ UNCHANGED indexerVars /\ UNCHANGED priorVars
    BY DEF PullBatch, FlushAtEnd, FlushEnds, SaveLoop, TrackerActs
  <1>2. /\ UNCHANGED <<main, pos, stopped, st>>
        /\ UNCHANGED <<priorFirst, priorSt, priorPrev, priorStopped, priorMain, priorSavePromise>>
        /\ UNCHANGED priorTrackerVars
    BY <1>1 DEF indexerVars, priorVars, priorTrackerVars, priorIndexerVars
  <1>3. acked' = acked /\ first' = first /\ doneSet' = doneSet
    BY DEF PullBatch, FlushAtEnd, FlushEnds, SaveLoop, CT!Pull, CT!Flush, CT!FlushSettles,
           CT!SaveApplies, CT!SaveResolves, CT!SaveRejects, CT!trackerVars
  <1>4. CT!Confirmed' = CT!Confirmed /\ pulled' \in Nat /\ pulled <= pulled'
    <2>1. ASSUME NEW n \in 1..MaxBatch, PullBatch(n)
          PROVE  CT!Confirmed' = CT!Confirmed /\ pulled' \in Nat /\ pulled <= pulled'
      <3>1. CT!Pull(n) /\ CTP!Pull(n) /\ n \in Nat
        BY <2>1, TrackerSteps, BoundsAssumption DEF PullBatch
      <3>2. CT!Confirmed' = CT!Confirmed
        BY <1>0, <3>1, TrackerStates, CTP!PullWindow, StreamAssumption, BoundsAssumption
      <3>3. pulled' = pulled + n
        BY <3>1 DEF CT!Pull
      <3>4. pulled \in Nat
        BY <1>0, WindowFacts
      <3>5. \A p, q \in Nat : p + q \in Nat /\ p <= p + q
        OBVIOUS
      <3>6. pulled + n \in Nat /\ pulled <= pulled + n
        BY <3>1, <3>4, <3>5, Zenon
      <3> QED BY <3>2, <3>3, <3>6, Zenon
    <2>2. CASE FlushAtEnd \/ FlushEnds \/ SaveLoop
      <3>1. UNCHANGED <<pulled, tracked>>
        BY <2>2 DEF FlushAtEnd, FlushEnds, SaveLoop, CT!Flush, CT!FlushSettles, CT!SaveApplies,
                    CT!SaveResolves, CT!SaveRejects, CT!trackerVars
      <3> QED BY <1>0, <3>1, WindowFacts DEF CT!Confirmed
    <2> QED BY <2>1, <2>2
  <1>5. CT!WindowInv' /\ PriorCT!WindowInv'
    BY <1>0, <1>1, <1>2, TrackerActsStep, PriorWindowKept
  <1>6. CT!CursorCoversOnlyAcked'
    <2>1. stored' = stored \/ CT!SaveApplies
      BY DEF PullBatch, FlushAtEnd, FlushEnds, SaveLoop, CT!Pull, CT!Flush, CT!FlushSettles,
             CT!SaveResolves, CT!SaveRejects
    <2> QED BY <1>3, <2>1, StoreStep
  <1>7. IX!IInv' /\ PriorIX!OrderInv' /\ OneWriter'
    BY <1>0, <1>1, <1>2, IndexerKept, PriorOrderKept, SoleWriterStep
  <1>8. TakenSoFar' /\ PriorTakenInTurn' /\ HandledIsAcked'
    <2>1. pos' \in Nat
      BY <1>0, <1>2, Constants DEF IX!IInv, IX!TypeOK
    <2> QED BY <1>0, <1>2, <1>3, <1>4, <2>1, WindowFacts
            DEF TakenSoFar, PriorTakenInTurn, HandledIsAcked
  <1>9. TrackedIsHandled' /\ KeyPrefixHandled'
    BY <1>0, <1>2, <1>3, <1>4 DEF TrackedIsHandled, KeyPrefixHandled
  <1>10. EndIsClean'
    <2>1. flush' # "none" => main' \in IX!Ended
      BY <1>0, <1>2 DEF EndIsClean, PullBatch, FlushAtEnd, FlushEnds, SaveLoop, CT!Pull,
                        CT!FlushSettles, CT!SaveApplies, CT!SaveResolves, CT!SaveRejects, IX!Ended
    <2>2. main' \in {"settling", "returned"} => stopped' \/ pos' = pulled'
      <3>1. CASE \E n \in 1..MaxBatch : PullBatch(n)
        BY <1>2, <3>1 DEF PullBatch
      <3>2. CASE FlushAtEnd \/ FlushEnds \/ SaveLoop
        <4>1. pulled' = pulled
          BY <3>2 DEF FlushAtEnd, FlushEnds, SaveLoop, CT!Flush, CT!FlushSettles,
                      CT!SaveApplies, CT!SaveResolves, CT!SaveRejects
        <4> QED BY <1>0, <1>2, <4>1 DEF EndIsClean
      <3> QED BY <3>1, <3>2
    <2>3. ASSUME main' = "returned", flush' \in {"resolved", "done"},
                 priorMain' # "aborted"
          PROVE  mark' \in {0, stored'}
      <3>1. /\ main = "returned" /\ priorMain # "aborted"
            /\ CT!StoredIsBehind /\ CT!SaveIsAhead /\ CT!SaveIsConfirmed
            /\ mark \in Nat /\ saving \in Nat /\ stored \in Nat
        BY <1>0, <1>2, <2>3, WindowFacts DEF OneWriter, CT!IInv, CT!WindowInv
      <3>2. CASE FlushAtEnd
        <4>1. CTP!WindowInv /\ CTP!Flush /\ (CTP!WindowInv' <=> CT!WindowInv')
          BY <1>0, <3>2, TrackerStates, TrackerSteps DEF FlushAtEnd
        <4>2. mark' = 0
          BY <2>3, <4>1, CTP!FlushStep, StreamAssumption, BoundsAssumption
        <4> QED BY <4>2
      <3>3. CASE CT!SaveApplies
        <4>1. /\ savePromise = "pending" /\ stored' = saving /\ mark' = mark
              /\ flush \in {"resolved", "done"}
          BY <2>3, <3>3 DEF CT!SaveApplies, CT!trackerVars
        <4>2. mark = stored /\ stored <= saving /\ saving <= mark
          BY <1>0, <3>1, <4>1 DEF EndIsClean, CT!SaveIsAhead, CT!SaveIsConfirmed
        <4> QED BY <3>1, <4>1, <4>2
      <3>4. CASE CT!SaveResolves
        <4>1. /\ savePromise = "pending" /\ applied /\ mark' = mark /\ stored' = stored
              /\ flush \in {"resolved", "done"} \/ saving = mark
          BY <2>3, <3>4 DEF CT!SaveResolves, CT!trackerVars
        <4>2. saving = stored
          BY <3>1, <4>1, Zenon DEF CT!SaveIsAhead
        <4> QED BY <1>0, <3>1, <4>1, <4>2 DEF EndIsClean
      <3>5. CASE CT!SaveRejects
        BY <1>0, <2>3, <3>1, <3>5 DEF CT!SaveRejects, CT!trackerVars, EndIsClean
      <3>6. CASE FlushEnds
        BY <1>0, <2>3, <3>1, <3>6
           DEF FlushEnds, CT!FlushSettles, CT!trackerVars, CT!saveVars, EndIsClean
      <3>7. ~ (\E n \in 1..MaxBatch : PullBatch(n))
        BY <3>1 DEF PullBatch
      <3> QED BY <3>2, <3>3, <3>4, <3>5, <3>6, <3>7 DEF SaveLoop
    <2> QED BY <2>1, <2>2, <2>3 DEF EndIsClean
  <1> QED BY <1>5, <1>6, <1>7, <1>8, <1>9, <1>10 DEF IInv

(* An indexer step that changes what became of one event acknowledges that  *)
(* one or none.                                                             *)
LEMMA AckOfOne ==
    ASSUME NEW c \in IX!E, st[c] # "ok", \A g \in IX!E : g # c => st'[g] = st[g],
           IF {e \in IX!E : st[e] # "ok" /\ st'[e] = "ok"} = {}
           THEN UNCHANGED trackerVars
           ELSE \E e \in {f \in IX!E : st[f] # "ok" /\ st'[f] = "ok"} : CT!Done(Stream[e])
    PROVE  \/ st'[c] # "ok" /\ UNCHANGED trackerVars
           \/ st'[c] = "ok" /\ CT!Done(Stream[c])
  <1> DEFINE new == {e \in IX!E : st[e] # "ok" /\ st'[e] = "ok"}
  <1>1. new = IF st'[c] = "ok" THEN {c} ELSE {}
    OBVIOUS
  <1> QED BY <1>1

(* Such a step keeps the invariant if the indexer keeps its own.            *)
LEMMA EventStep ==
    ASSUME IInv, UNCHANGED priorVars, NEW c \in IX!E, st[c] # "ok", first <= c,
           \A g \in IX!E : g # c => st'[g] = st[g],
           \/ st'[c] # "ok" /\ UNCHANGED trackerVars
           \/ st'[c] = "ok" /\ CT!Done(Stream[c]),
           IX!IInv', TakenSoFar', main' # "returned",
           main \in IX!Ended => main' \in IX!Ended,
           main' = "settling" => stopped' \/ pos' = pulled
    PROVE  IInv'
  <1>0. /\ CT!WindowInv /\ PriorCT!WindowInv /\ PriorIX!OrderInv
        /\ OneWriter /\ PriorTakenInTurn /\ HandledIsAcked
        /\ TrackedIsHandled /\ KeyPrefixHandled /\ EndIsClean
    BY DEF IInv
  <1>1. /\ UNCHANGED <<priorFirst, priorSt, priorPrev, priorStopped, priorMain, priorSavePromise>>
        /\ UNCHANGED priorTrackerVars
    BY DEF priorVars, priorTrackerVars, priorIndexerVars
  <1>2. TrackerActs \/ UNCHANGED trackerVars
    BY Constants DEF TrackerActs
  <1>3. /\ first' = first /\ pulled' = pulled /\ flush' = flush /\ stored' = stored
        /\ acked' = IF st'[c] = "ok" THEN acked \union {Stream[c]} ELSE acked
    BY DEF CT!Done, trackerVars, ownVars, storeVars
  <1>4. CT!WindowInv'
    <2>1. CASE UNCHANGED trackerVars
      BY <1>0, <2>1
         DEF trackerVars, ownVars, storeVars, CT!WindowInv, CT!TypeOK, CT!TrackedIsWindow,
             CT!ConfirmedAreAcked, CT!MarkIsConfirmed, CT!SaveIsConfirmed, CT!Confirmed
    <2>2. CASE TrackerActs
      BY <1>0, <2>2, TrackerActsStep
    <2> QED BY <1>2, <2>1, <2>2
  <1>5. acked \subseteq acked'
    BY <1>3
  <1>6. PriorCT!WindowInv' /\ CT!CursorCoversOnlyAcked'
    BY <1>0, <1>1, <1>3, <1>4, <1>5, PriorWindowKept, StoreStep
  <1>7. PriorIX!OrderInv' /\ OneWriter'
    BY <1>0, <1>1, <1>2, PriorOrderKept, SoleWriterStep
  <1>8. PriorTakenInTurn' /\ HandledIsAcked'
    BY <1>0, <1>1, <1>3 DEF PriorTakenInTurn, HandledIsAcked
  <1>9. TrackedIsHandled'
    <2>1. CASE st'[c] # "ok" /\ UNCHANGED trackerVars
      <3>1. CT!Confirmed' = CT!Confirmed /\ doneSet' = doneSet
        BY <2>1 DEF trackerVars, ownVars, CT!Confirmed
      <3>2. CT!Confirmed <= pulled /\ CT!Confirmed \in Nat /\ first \in Nat /\ first >= 1
            /\ pulled <= Len(Stream)
        BY <1>0, WindowFacts
      <3>3. \A i \in first..CT!Confirmed : i \in IX!E
        BY <1>0, <3>2, WindowFacts, Constants
      <3> QED BY <1>0, <1>3, <2>1, <3>1, <3>3 DEF TrackedIsHandled
    <2>2. CASE st'[c] = "ok" /\ CT!Done(Stream[c])
      <3>1. CTP!WindowInv /\ CTP!Done(Stream[c]) /\ Stream[c] \in CTP!Seqs
        BY <1>0, <2>2, TrackerStates, TrackerSteps, Constants
      <3>2. /\ CT!Confirmed \in Nat /\ CT!Confirmed' \in Nat
            /\ CT!Confirmed <= CT!Confirmed' /\ CT!Confirmed' <= Len(Stream)
            /\ \A i \in (CT!Confirmed + 1)..CT!Confirmed' : Stream[i] \in doneSet \union {Stream[c]}
            /\ doneSet' \subseteq doneSet \union {Stream[c]}
            /\ \A d \in doneSet \union {Stream[c]} :
                 d \in doneSet' \/ \E i \in (CT!Confirmed + 1)..CT!Confirmed' : d = Stream[i]
        BY <3>1, TrackerStates, Constants, CTP!DoneEffect, StreamAssumption, BoundsAssumption
      <3>3. ASSUME NEW i \in first..CT!Confirmed'
            PROVE  st'[i] = "ok"
        <4>1. i \in IX!E /\ i \in Nat
          BY <1>0, <3>2, WindowFacts, Constants
        <4>2. CASE i <= CT!Confirmed
          BY <1>0, <2>2, <3>2, <4>1, <4>2, WindowFacts DEF TrackedIsHandled
        <4>3. CASE i > CT!Confirmed
          <5>1. i \in (CT!Confirmed + 1)..CT!Confirmed'
            BY <3>2, <4>1, <4>3
          <5>2. CASE Stream[i] = Stream[c]
            BY <2>2, <4>1, <5>2, Constants
          <5>3. CASE Stream[i] \in doneSet
            <6>1. PICK e \in IX!E : st[e] = "ok" /\ Stream[i] = Stream[e]
              BY <1>0, <5>3 DEF TrackedIsHandled
            <6> QED BY <4>1, <6>1, Constants
          <5> QED BY <3>2, <5>1, <5>2, <5>3
        <4> QED BY <3>2, <4>1, <4>2, <4>3
      <3>4. ASSUME NEW d \in doneSet'
            PROVE  \E e \in IX!E : st'[e] = "ok" /\ d = Stream[e]
        <4>1. CASE d = Stream[c]
          BY <2>2, <4>1
        <4>2. CASE d \in doneSet
          <5>1. PICK e \in IX!E : st[e] = "ok" /\ d = Stream[e]
            BY <1>0, <4>2 DEF TrackedIsHandled
          <5> QED BY <5>1
        <4> QED BY <3>2, <4>1, <4>2
      <3>5. ASSUME NEW e \in IX!E, st'[e] = "ok"
            PROVE  e <= CT!Confirmed' \/ Stream[e] \in doneSet'
        <4>1. e \in Nat
          BY Constants
        <4>2. e <= CT!Confirmed \/ Stream[e] \in doneSet \union {Stream[c]}
          BY <1>0, <3>5 DEF TrackedIsHandled
        <4>3. CASE e <= CT!Confirmed
          BY <3>2, <4>1, <4>3
        <4>4. ASSUME NEW i \in (CT!Confirmed + 1)..CT!Confirmed', Stream[e] = Stream[i]
              PROVE  e <= CT!Confirmed'
          <5>1. i \in IX!E /\ i <= CT!Confirmed'
            BY <3>2, Constants
          <5> QED BY <4>4, <5>1, Constants
        <4> QED BY <3>2, <4>2, <4>3, <4>4
      <3> QED BY <1>3, <3>3, <3>4, <3>5 DEF TrackedIsHandled
    <2> QED BY <2>1, <2>2
  <1>10. KeyPrefixHandled'
    <2>1. ASSUME NEW e \in IX!E, NEW f \in IX!E, e < f, IX!Key(e) = IX!Key(f),
                 Stream[f] \in acked'
          PROVE  Stream[e] \in acked'
      <3>1. CASE Stream[f] \in acked
        BY <1>0, <1>5, <2>1, <3>1 DEF KeyPrefixHandled
      <3>2. CASE Stream[f] \notin acked
        <4>1. f = c /\ st'[c] = "ok"
          BY <1>3, <2>1, <3>2, Constants
        <4>2. CASE e < first
          <5>1. e \in 1..CT!Confirmed
            BY <1>0, <4>2, WindowFacts, Constants
          <5> QED BY <1>0, <1>5, <5>1 DEF CT!WindowInv, CT!ConfirmedAreAcked
        <4>3. CASE first <= e
          <5>1. /\ pos' \in Nat /\ c <= pos' /\ e \in first..pos' /\ e # pos'
            <6>1. pos' \in Nat /\ c \in Nat /\ e \in Nat /\ first \in Nat
              BY <1>0, WindowFacts, Constants DEF IX!IInv, IX!TypeOK
            <6>2. ~ (c > pos')
              BY <4>1 DEF IX!IInv, IX!TakenInOrder
            <6> QED BY <2>1, <4>1, <4>3, <6>1, <6>2
          <5>2. st'[e] # "new"
            BY <1>3, <5>1 DEF TakenSoFar
          <5>3. st'[e] = "ok"
            BY <2>1, <4>1, <5>2 DEF IX!IInv, IX!KeyOrder, IX!Started
          <5>4. e # c
            BY <2>1, <4>1, Constants
          <5> QED BY <1>0, <1>5, <5>3, <5>4 DEF HandledIsAcked
        <4> QED BY <1>0, <4>2, <4>3, WindowFacts, Constants
      <3> QED BY <3>1, <3>2
    <2> QED BY <2>1 DEF KeyPrefixHandled, IX!Key
  <1>11. EndIsClean'
    BY <1>0, <1>3 DEF EndIsClean
  <1> QED BY <1>4, <1>6, <1>7, <1>8, <1>9, <1>10, <1>11 DEF IInv

(* run() takes the next event, or goes on with the one it held.             *)
LEMMA TakeStep ==
    ASSUME IInv, TakeEvent \/ (WithAcks(IX!Granted) /\ UNCHANGED priorVars)
    PROVE  IInv'
  <1>0. /\ IX!IInv /\ IXP!IInv /\ TakenSoFar /\ CT!WindowInv /\ UNCHANGED priorVars
    BY IndexerStates DEF IInv, TakeEvent
  <1>1. PICK e : \/ IX!Take /\ e = pos + 1 /\ pos < pulled
                 \/ IX!Granted /\ e = pos
    BY DEF TakeEvent, WithAcks
  <1>2. /\ e \in IX!E /\ st[e] = "new" /\ pos' = e
        /\ \A g \in IX!E : g # e => st'[g] = st[g]
        /\ st'[e] = "new" <=> main' = "waiting"
        /\ main' \in {"pulling", "waiting", "settling", "aborted"}
        /\ main' = "settling" => stopped'
    <2>1. \/ IXP!Take /\ e = pos + 1
          \/ IXP!Granted /\ e = pos
      BY <1>1, IndexerSteps
    <2>2. /\ e \in IXP!E /\ st[e] = "new" /\ pos' = e
          /\ \A g \in IXP!E : g # e => st'[g] = st[g]
          /\ st'[e] = "new" <=> main' = "waiting"
          /\ main' \in {"pulling", "waiting", "settling", "aborted"}
          /\ main' = "settling" => stopped'
      BY <1>0, <2>1, IXP!TakeFacts, ConcurrencyAssumption, EventsAssumption, KeyOfAssumption
    <2> QED BY <2>2, IndexerStates
  <1>3. IX!IInv'
    <2>1. IXP!Take \/ IXP!Granted
      BY <1>1, IndexerSteps
    <2> QED BY <1>0, <2>1, IndexerStates, IXP!TakeStep, IXP!GrantedStep,
               ConcurrencyAssumption, EventsAssumption, KeyOfAssumption
  <1>4. \/ st'[e] # "ok" /\ UNCHANGED trackerVars
        \/ st'[e] = "ok" /\ CT!Done(Stream[e])
    <2>1. IF {g \in IX!E : st[g] # "ok" /\ st'[g] = "ok"} = {}
          THEN UNCHANGED trackerVars
          ELSE \E g \in {f \in IX!E : st[f] # "ok" /\ st'[f] = "ok"} : CT!Done(Stream[g])
      BY DEF TakeEvent, WithAcks
    <2> QED BY <1>2, <2>1, AckOfOne
  <1>5. first' = first /\ pulled' = pulled
    BY <1>4 DEF CT!Done, trackerVars, ownVars
  <1>6. /\ first \in Nat /\ first >= 1 /\ pulled \in Nat /\ pos \in Nat /\ e \in Nat
        /\ first <= e /\ e <= pulled
        /\ \A g \in IX!E : first <= g /\ g < e => st[g] # "new"
    <2>1. first \in Nat /\ first >= 1 /\ pulled \in Nat /\ pos \in Nat /\ e \in Nat
      BY <1>0, <1>2, WindowFacts, Constants DEF IX!IInv, IX!TypeOK
    <2>2. CASE IX!Take /\ e = pos + 1 /\ pos < pulled
      <3>1. main = "pulling" /\ first <= pos + 1
        BY <1>0, <2>2 DEF IX!Take, TakenSoFar
      <3> QED BY <1>0, <2>1, <2>2, <3>1, Constants DEF TakenSoFar
    <2>3. CASE IX!Granted /\ e = pos
      <3>1. first <= pos
        BY <1>0, <2>3 DEF IX!Granted, TakenSoFar
      <3> QED BY <1>0, <2>1, <2>3, <3>1, Constants DEF TakenSoFar
    <2> QED BY <1>1, <2>2, <2>3
  <1>7. TakenSoFar'
    <2>1. \A g \in IX!E : st'[g] # "new" => first <= g
      BY <1>0, <1>2, <1>6 DEF TakenSoFar
    <2>2. ASSUME NEW g \in first..e, st'[g] = "new"
          PROVE  g = e /\ main' = "waiting"
      <3>1. g \in IX!E /\ g \in Nat
        BY <1>2, <1>6, Constants
      <3> QED BY <1>2, <1>6, <2>2, <3>1
    <2> QED BY <1>2, <1>5, <1>6, <2>1, <2>2 DEF TakenSoFar
  <1>8. main \notin IX!Ended
    BY <1>1 DEF IX!Ended, IX!Take, IX!Granted
  <1> QED BY <1>0, <1>2, <1>3, <1>4, <1>6, <1>7, <1>8, EventStep

(* A handler settles, or a chained event has its turn.                      *)
LEMMA WorkStep ==
    ASSUME IInv, NEW e \in IX!E, WithAcks(IX!Work(e)), UNCHANGED priorVars
    PROVE  IInv'
  <1>0. /\ IX!IInv /\ IXP!IInv /\ TakenSoFar /\ EndIsClean /\ CT!WindowInv
        /\ e \in IXP!E /\ IXP!Work(e)
    BY IndexerStates, IndexerSteps DEF IInv, WithAcks
  <1>1. /\ st[e] \in {"queued", "running"} /\ pos' = pos
        /\ main' \in {main, "granted"} /\ (main' # main => main = "waiting")
        /\ \A g \in IX!E : g # e => st'[g] = st[g]
        /\ st'[e] # "new"
    <2>1. st \in [IX!E -> IX!Statuses]
      BY <1>0 DEF IX!IInv, IX!TypeOK
    <2>2. /\ IXP!Pending(st[e]) /\ pos' = pos
          /\ main' \in {main, "granted"} /\ (main' # main => main = "waiting")
          /\ \E how \in IXP!Settled \union {"running"} : st' = [st EXCEPT ![e] = how]
      BY <1>0, IXP!WorkFacts, ConcurrencyAssumption, EventsAssumption, KeyOfAssumption
    <2> QED BY <2>1, <2>2 DEF IXP!Pending, IXP!Settled
  <1>2. IX!IInv'
    <2>1. IXP!HandlerSettles(e) \/ IXP!RunQueued(e)
      BY <1>0 DEF IXP!Work
    <2> QED BY <1>0, <2>1, IndexerStates, IXP!HandlerSettlesStep, IXP!RunQueuedStep,
               ConcurrencyAssumption, EventsAssumption, KeyOfAssumption
  <1>3. stopped => stopped'
    <2>1. IXP!OrderInv
      BY <1>0, IXP!OrderOfInv, ConcurrencyAssumption, EventsAssumption, KeyOfAssumption
    <2> QED BY <1>0, <2>1, IXP!WorkKeepsOrder, ConcurrencyAssumption, EventsAssumption,
               KeyOfAssumption
  <1>4. \/ st'[e] # "ok" /\ UNCHANGED trackerVars
        \/ st'[e] = "ok" /\ CT!Done(Stream[e])
    <2>1. IF {g \in IX!E : st[g] # "ok" /\ st'[g] = "ok"} = {}
          THEN UNCHANGED trackerVars
          ELSE \E g \in {f \in IX!E : st[f] # "ok" /\ st'[f] = "ok"} : CT!Done(Stream[g])
      BY DEF WithAcks
    <2> QED BY <1>1, <2>1, AckOfOne
  <1>5. first' = first /\ pulled' = pulled
    BY <1>4 DEF CT!Done, trackerVars, ownVars
  <1>6. first <= e
    BY <1>0, <1>1 DEF TakenSoFar
  <1>7. TakenSoFar'
    <2>1. \A g \in IX!E : st'[g] # "new" => first <= g
      BY <1>0, <1>1, <1>6 DEF TakenSoFar
    <2>2. ASSUME NEW g \in first..pos, st'[g] = "new"
          PROVE  g = pos /\ main' \in {"waiting", "granted"}
      <3>1. g \in IX!E
        BY <1>0, WindowFacts, Constants DEF IX!IInv, IX!TypeOK
      <3>2. st[g] = "new"
        BY <1>1, <2>2, <3>1
      <3> QED BY <1>0, <1>1, <3>2 DEF TakenSoFar
    <2> QED BY <1>0, <1>1, <1>5, <2>1, <2>2 DEF TakenSoFar
  <1>8. main' # "returned" /\ (main \in IX!Ended => main' \in IX!Ended)
    <2>1. main # "returned"
      BY <1>0, <1>1 DEF IX!IInv, IX!EndIsQuiet, IX!Outstanding
    <2> QED BY <1>1, <2>1 DEF IX!Ended
  <1>9. main' = "settling" => stopped' \/ pos' = pulled
    BY <1>0, <1>1, <1>3 DEF EndIsClean
  <1> QED BY <1>0, <1>1, <1>2, <1>4, <1>6, <1>7, <1>8, <1>9, EventStep

(* Nothing moves but run() itself, which has taken no event.                *)
LEMMA KeptStep ==
    ASSUME IInv, UNCHANGED trackerVars, UNCHANGED priorVars, UNCHANGED <<pos, st, stopped>>,
           IX!IInv',
           main \in IX!Ended => main' \in IX!Ended,
           \/ main' = main
           \/ main \notin {"waiting", "granted"} /\ main' \notin {"waiting", "granted"},
           main' \in {"settling", "returned"} => stopped \/ pos = pulled,
           main' = "returned" => main = "returned" \/ flush = "none"
    PROVE  IInv'
  <1>0. /\ CT!WindowInv /\ PriorCT!WindowInv /\ PriorIX!OrderInv
        /\ OneWriter /\ TakenSoFar /\ PriorTakenInTurn /\ HandledIsAcked
        /\ TrackedIsHandled /\ KeyPrefixHandled /\ EndIsClean
    BY DEF IInv
  <1>1. /\ UNCHANGED <<first, pulled, tracked, doneSet, mark, savePromise, saving, applied, flush,
                       flushMark>>
        /\ UNCHANGED <<stored, acked, fails, restarts>>
        /\ UNCHANGED <<priorFirst, priorSt, priorPrev, priorStopped, priorMain, priorSavePromise>>
        /\ UNCHANGED priorTrackerVars
    BY DEF trackerVars, ownVars, storeVars, priorVars, priorTrackerVars, priorIndexerVars
  <1>2. CT!WindowInv'
    BY <1>0, <1>1
       DEF CT!WindowInv, CT!TypeOK, CT!TrackedIsWindow, CT!ConfirmedAreAcked,
           CT!MarkIsConfirmed, CT!SaveIsConfirmed, CT!Confirmed
  <1>3. PriorCT!WindowInv' /\ CT!CursorCoversOnlyAcked'
    BY <1>0, <1>1, <1>2, PriorWindowKept, StoreStep
  <1>4. PriorIX!OrderInv' /\ OneWriter'
    BY <1>0, <1>1, PriorOrderKept, SoleWriterStep
  <1>5. CT!Confirmed' = CT!Confirmed
    BY <1>1 DEF CT!Confirmed
  <1>6. TakenSoFar' /\ PriorTakenInTurn' /\ HandledIsAcked' /\ TrackedIsHandled'
        /\ KeyPrefixHandled'
    BY <1>0, <1>1, <1>5
       DEF TakenSoFar, PriorTakenInTurn, HandledIsAcked, TrackedIsHandled, KeyPrefixHandled
  <1>7. EndIsClean'
    BY <1>0, <1>1 DEF EndIsClean
  <1> QED BY <1>2, <1>3, <1>4, <1>6, <1>7 DEF IInv

(* A tail is forgotten, the stream ends or throws, or run() ends.           *)
LEMMA EndStep ==
    ASSUME IInv, ~ MidBatch, UNCHANGED trackerVars, UNCHANGED priorVars,
           \/ \E k \in IX!Keys : IX!ForgetTail(k)
           \/ IX!StreamEnds \/ IX!StreamThrows \/ IX!Finish
    PROVE  IInv'
  <1>0. IX!IInv /\ IXP!IInv /\ TakenSoFar /\ EndIsClean /\ CT!WindowInv
    BY IndexerStates DEF IInv
  <1>1. IX!IInv'
    <2>1. \/ \E k \in IXP!Keys : IXP!ForgetTail(k)
          \/ IXP!StreamEnds \/ IXP!StreamThrows \/ IXP!Finish
      BY IndexerStates, IndexerSteps
    <2> QED BY <1>0, <2>1, IndexerStates, IXP!ForgetTailStep, IXP!EndStep,
               ConcurrencyAssumption, EventsAssumption, KeyOfAssumption
  <1>2. stopped' = stopped
    BY DEF IX!ForgetTail, IX!StreamEnds, IX!StreamThrows, IX!Finish
  <1>3. pos' = pos /\ st' = st
    BY DEF IX!ForgetTail, IX!StreamEnds, IX!StreamThrows, IX!Finish
  <1>4. \/ main' = main
        \/ main = "pulling" /\ main' \in {"settling", "aborted"}
        \/ main = "settling" /\ main' \in {"returned", "threw"}
    BY DEF IX!ForgetTail, IX!StreamEnds, IX!StreamThrows, IX!Finish
  <1>5. main' \in {"settling", "returned"} => stopped \/ pos = pulled
    <2>1. CASE main = "pulling"
      <3>1. pos \in Nat /\ pulled \in Nat /\ pos <= pulled
        BY <1>0, WindowFacts, Constants DEF IX!IInv, IX!TypeOK, TakenSoFar
      <3> QED BY <2>1, <3>1 DEF MidBatch
    <2>2. CASE main # "pulling"
      BY <1>0, <1>4, <2>2 DEF EndIsClean
    <2> QED BY <2>1, <2>2
  <1>6. main' = "returned" => main = "returned" \/ flush = "none"
    BY <1>0, <1>4 DEF EndIsClean, IX!Ended
  <1>7. main \in IX!Ended => main' \in IX!Ended
    BY <1>4 DEF IX!Ended
  <1>8. \/ main' = main
        \/ main \notin {"waiting", "granted"} /\ main' \notin {"waiting", "granted"}
    BY <1>4
  <1> QED BY <1>1, <1>2, <1>3, <1>5, <1>6, <1>7, <1>8, KeptStep

(* No step at all.                                                          *)
LEMMA StutterStep ==
    ASSUME IInv, UNCHANGED vars
    PROVE  IInv'
  <1>1. UNCHANGED trackerVars /\ UNCHANGED indexerVars /\ UNCHANGED priorVars
    BY DEF vars
  <1>2. UNCHANGED <<main, pos, st>> /\ UNCHANGED stopped
    BY <1>1 DEF indexerVars
  <1>3. IX!IInv'
    BY <1>1, IndexerKept DEF IInv
  <1>4. main' \in {"settling", "returned"} => stopped \/ pos = pulled
    BY <1>2 DEF IInv, EndIsClean
  <1> QED BY <1>1, <1>2, <1>3, <1>4, KeptStep

-------------------------------------------------------------------------------
(* What is left of the run before *)

(* Index arithmetic of its window. *)
LEMMA PriorWindowFacts ==
    ASSUME PriorCT!WindowInv
    PROVE  /\ priorFirst \in Nat /\ priorFirst >= 1
           /\ PriorCT!Confirmed \in Nat /\ priorFirst <= PriorCT!Confirmed + 1
  <1>1. PriorCTP!IndexFacts
    BY PriorTrackerStates, PriorCTP!InvFacts, StreamAssumption, BoundsAssumption
  <1> QED BY <1>1, PriorTrackerStates DEF PriorCTP!IndexFacts

(* A step of its tracker, while the run that is under way does nothing.     *)
LEMMA PriorStoreStep ==
    ASSUME IInv, PriorTrackerActs \/ UNCHANGED <<priorTrackerVars, storeVars>>,
           UNCHANGED ownVars, UNCHANGED indexerVars, priorMain = "aborted", priorMain' = "aborted"
    PROVE  /\ CT!WindowInv' /\ PriorCT!WindowInv' /\ CT!CursorCoversOnlyAcked'
           /\ IX!IInv' /\ TakenSoFar' /\ TrackedIsHandled' /\ OneWriter' /\ EndIsClean'
           /\ acked \subseteq acked'
  <1>0. /\ CT!WindowInv /\ PriorCT!WindowInv /\ IX!IInv
        /\ TakenSoFar /\ TrackedIsHandled /\ EndIsClean
    BY DEF IInv
  <1>1. PriorCT!WindowInv' /\ acked \subseteq acked'
    <2>1. CASE PriorTrackerActs
      BY <1>0, <2>1, PriorTrackerActsStep
    <2>2. CASE UNCHANGED <<priorTrackerVars, storeVars>>
      BY <1>0, <2>2
         DEF priorTrackerVars, storeVars, PriorCT!WindowInv, PriorCT!TypeOK,
             PriorCT!TrackedIsWindow, PriorCT!ConfirmedAreAcked, PriorCT!MarkIsConfirmed,
             PriorCT!SaveIsConfirmed, PriorCT!Confirmed
    <2> QED BY <2>1, <2>2
  <1>2. CT!WindowInv' /\ CT!Confirmed' = CT!Confirmed
    BY <1>0, <1>1, OwnWindowKept
  <1>3. CT!CursorCoversOnlyAcked'
    <2>1. stored' = stored \/ PriorCT!SaveApplies
      BY DEF PriorTrackerActs, storeVars, PriorCT!Done, PriorCT!SaveResolves, PriorCT!SaveRejects
    <2> QED BY <1>1, <2>1, StoreStep
  <1>4. IX!IInv'
    BY <1>0, IndexerKept
  <1>5. UNCHANGED <<first, pulled, doneSet, flush>> /\ UNCHANGED <<main, pos, st>>
        /\ UNCHANGED stopped
    BY DEF ownVars, indexerVars
  <1>6. TakenSoFar' /\ TrackedIsHandled'
    BY <1>0, <1>2, <1>5 DEF TakenSoFar, TrackedIsHandled
  <1>7. OneWriter' /\ EndIsClean'
    BY <1>0, <1>5 DEF OneWriter, EndIsClean
  <1> QED BY <1>1, <1>2, <1>3, <1>4, <1>6, <1>7

(* One of its handlers completes, or one of its chained events has its turn. *)
LEMMA PriorWorksStep ==
    ASSUME IInv, PriorWorks
    PROVE  IInv'
  <1>0. /\ PriorIX!OrderInv /\ PriorCT!WindowInv /\ OneWriter /\ PriorTakenInTurn
        /\ HandledIsAcked /\ KeyPrefixHandled
    BY DEF IInv
  <1>1. PICK e \in IX!E :
          /\ PriorIX!Work(e)
          /\ \/ priorSt'[e] = "ok" /\ PriorCT!Done(Stream[e])
             \/ priorSt'[e] # "ok" /\ UNCHANGED <<priorTrackerVars, storeVars>>
    BY DEF PriorWorks
  <1>2. /\ priorSt[e] \in {"queued", "running"}
        /\ priorMain' \in {priorMain, "granted"} /\ (priorMain' # priorMain => priorMain = "waiting")
        /\ \A g \in IX!E : g # e => priorSt'[g] = priorSt[g]
        /\ priorSt'[e] # "new"
    <2>1. PriorIXP!Work(e) /\ e \in PriorIXP!E
      BY <1>1, PriorIndexerSteps, PriorIndexerStates, Constants
    <2>2. priorSt \in [IX!E -> PriorIX!Statuses]
      BY <1>0, Constants DEF PriorIX!OrderInv
    <2>3. /\ PriorIXP!Pending(priorSt[e])
          /\ priorMain' \in {priorMain, "granted"} /\ (priorMain' # priorMain => priorMain = "waiting")
          /\ \E how \in PriorIXP!Settled \union {"running"} : priorSt' = [priorSt EXCEPT ![e] = how]
      BY <2>1, PriorIXP!WorkFacts, ConcurrencyAssumption, EventsAssumption, KeyOfAssumption
    <2> QED BY <2>2, <2>3 DEF PriorIXP!Pending, PriorIXP!Settled
  <1>3. PriorIX!OrderInv'
    <2>1. PriorIXP!OrderInv /\ PriorIXP!Work(e) /\ e \in PriorIXP!E
      BY <1>0, <1>1, PriorIndexerSteps, PriorIndexerStates, Constants
    <2> QED BY <2>1, PriorIndexerStates, PriorIXP!WorkKeepsOrder, ConcurrencyAssumption,
               EventsAssumption, KeyOfAssumption
  <1>4. priorMain = "aborted" /\ priorMain' = "aborted"
    <2>1. priorMain = "aborted"
      BY <1>0, <1>2 DEF OneWriter
    <2> QED BY <1>2, <2>1
  <1>5. /\ CT!WindowInv' /\ PriorCT!WindowInv' /\ CT!CursorCoversOnlyAcked'
        /\ IX!IInv' /\ TakenSoFar' /\ TrackedIsHandled' /\ OneWriter' /\ EndIsClean'
        /\ acked \subseteq acked'
    <2>1. PriorTrackerActs \/ UNCHANGED <<priorTrackerVars, storeVars>>
      BY <1>1, Constants DEF PriorTrackerActs
    <2>2. UNCHANGED ownVars /\ UNCHANGED indexerVars
      BY DEF PriorWorks
    <2> QED BY <1>4, <2>1, <2>2, PriorStoreStep
  <1>6. /\ priorFirst' = priorFirst /\ st' = st
        /\ acked' = IF priorSt'[e] = "ok" THEN acked \union {Stream[e]} ELSE acked
    BY <1>1 DEF PriorWorks, indexerVars, PriorCT!Done, priorTrackerVars, storeVars
  <1>7. PriorTakenInTurn' /\ HandledIsAcked'
    BY <1>0, <1>2, <1>6 DEF PriorTakenInTurn, HandledIsAcked
  <1>8. KeyPrefixHandled'
    <2>1. ASSUME NEW g \in IX!E, NEW f \in IX!E, g < f, IX!Key(g) = IX!Key(f),
                 Stream[f] \in acked', Stream[f] \notin acked
          PROVE  Stream[g] \in acked'
      <3>1. f = e /\ priorSt'[e] = "ok" /\ g # e
        BY <1>6, <2>1, Constants
      <3>2. CASE g < priorFirst
        <4>1. g \in 1..PriorCT!Confirmed
          BY <1>0, <3>2, PriorWindowFacts, Constants
        <4> QED BY <1>0, <1>5, <4>1 DEF PriorCT!WindowInv, PriorCT!ConfirmedAreAcked
      <3>3. CASE priorFirst <= g
        <4>1. priorSt'[g] # "new"
          BY <1>0, <1>2, <2>1, <3>1, <3>3 DEF PriorTakenInTurn
        <4>2. priorSt'[g] = "ok"
          BY <1>3, <2>1, <3>1, <4>1, Constants
             DEF PriorIX!OrderInv, PriorIX!KeyOrder, PriorIX!Started, PriorIX!Key, IX!Key
        <4> QED BY <1>0, <1>2, <1>5, <3>1, <4>2 DEF HandledIsAcked
      <3> QED BY <1>0, <3>2, <3>3, PriorWindowFacts, Constants
    <2>2. ASSUME NEW g \in IX!E, NEW f \in IX!E, g < f, IX!Key(g) = IX!Key(f),
                 Stream[f] \in acked
          PROVE  Stream[g] \in acked'
      BY <1>0, <1>5, <2>2 DEF KeyPrefixHandled
    <2> QED BY <2>1, <2>2 DEF KeyPrefixHandled, IX!Key
  <1> QED BY <1>3, <1>5, <1>7, <1>8 DEF IInv

(* Its save loop goes on.                                                   *)
LEMMA PriorSaveLoopStep ==
    ASSUME IInv, PriorSaveLoop
    PROVE  IInv'
  <1>0. /\ PriorIX!OrderInv /\ OneWriter /\ PriorTakenInTurn /\ HandledIsAcked /\ KeyPrefixHandled
    BY DEF IInv
  <1>1. /\ PriorTrackerActs /\ UNCHANGED ownVars /\ UNCHANGED indexerVars
        /\ UNCHANGED priorIndexerVars
        /\ priorSavePromise = "pending" /\ acked' = acked /\ priorFirst' = priorFirst
    BY DEF PriorSaveLoop, PriorTrackerActs, PriorCT!SaveApplies, PriorCT!SaveResolves,
           PriorCT!SaveRejects
  <1>2. UNCHANGED <<priorSt, priorPrev, priorMain>> /\ UNCHANGED priorStopped /\ st' = st
    BY <1>1 DEF indexerVars, priorIndexerVars
  <1>3. priorMain = "aborted" /\ priorMain' = "aborted"
    BY <1>0, <1>1, <1>2 DEF OneWriter
  <1>4. /\ CT!WindowInv' /\ PriorCT!WindowInv' /\ CT!CursorCoversOnlyAcked'
        /\ IX!IInv' /\ TakenSoFar' /\ TrackedIsHandled' /\ OneWriter' /\ EndIsClean'
    BY <1>1, <1>3, PriorStoreStep
  <1>5. PriorIX!OrderInv'
    BY <1>0, <1>2, PriorOrderKept
  <1>6. PriorTakenInTurn' /\ HandledIsAcked' /\ KeyPrefixHandled'
    BY <1>0, <1>1, <1>2 DEF PriorTakenInTurn, HandledIsAcked, KeyPrefixHandled
  <1> QED BY <1>4, <1>5, <1>6 DEF IInv

-------------------------------------------------------------------------------
(* A new run *)

(* It starts with a tracker and an indexer of its own, after what the store *)
(* holds.                                                                   *)
LEMMA NewRunStep ==
    ASSUME IInv, NewRun
    PROVE  /\ CT!WindowInv' /\ CT!IInv' /\ CT!DoneAreDelivered' /\ CT!WatermarkIsTight'
           /\ CT!CursorCoversOnlyAcked' /\ IX!IInv'
           /\ TakenSoFar' /\ TrackedIsHandled' /\ EndIsClean'
           /\ st' = [e \in IX!E |-> "new"] /\ acked' = acked
  <1>1. /\ CTP!WindowInv /\ CTP!AckedUpTo(stored) /\ CTP!Restart
    BY TrackerStates, TrackerSteps DEF IInv, CT!CursorCoversOnlyAcked, NewRun
  <1>2. /\ CTP!WindowInv' /\ CTP!StoredIsBehind' /\ CTP!SaveIsAhead' /\ CTP!FlushIsCovered'
        /\ pulled' \in 0..CTP!N /\ first' = pulled' + 1 /\ CTP!Confirmed' = pulled' /\ doneSet' = {}
    BY <1>1, CTP!RestartStep, StreamAssumption, BoundsAssumption
  <1>3. /\ tracked' = <<>> /\ flush' = "none" /\ stored' = stored /\ acked' = acked
    BY DEF NewRun, CT!Restart
  <1>4. CT!WindowInv' /\ CT!IInv' /\ CT!Confirmed' = pulled'
    BY <1>2, TrackerStates DEF CTP!IInv
  <1>5. CT!DoneAreDelivered' /\ CT!WatermarkIsTight' /\ CT!CursorCoversOnlyAcked'
    BY <1>2, <1>3
       DEF CT!DoneAreDelivered, CT!WatermarkIsTight, IInv, CT!CursorCoversOnlyAcked,
           CT!AckedUpTo, CT!N
  <1>6. pulled' \in 0..Len(Events) /\ pulled' \in Nat
    BY <1>2, TrackerStates, Constants
  <1>7. IX!IInv'
    <2>1. IXP!RunAgain(pulled')
      BY IndexerSteps DEF NewRun
    <2> QED BY <1>6, <2>1, IXP!RunAgainInv, IndexerStates, ConcurrencyAssumption,
               EventsAssumption, KeyOfAssumption
  <1>8. /\ main' = "pulling" /\ pos' = pulled' /\ st' = [e \in IX!E |-> "new"]
    BY DEF NewRun, IX!RunAgain
  <1>9. TakenSoFar' /\ TrackedIsHandled'
    <2>1. \A e \in IX!E : st'[e] = "new"
      BY <1>8
    <2>0. first' = pulled' + 1 /\ pulled' \in Nat
      BY <1>2, <1>6, Zenon
    <2>2. \A i \in first'..pulled' : FALSE
      <3>1. \A p \in Nat : \A i \in (p + 1)..p : FALSE
        OBVIOUS
      <3> QED BY <2>0, <3>1, Zenon
    <2>3. TakenSoFar'
      <3>1. \A p \in Nat : p + 1 <= p + 1 /\ p <= p
        OBVIOUS
      <3>2. first' <= pos' + 1 /\ pos' <= pulled' /\ main' = "pulling"
        BY <1>8, <2>0, <3>1, Zenon
      <3>3. \A i \in first'..pos' : FALSE
        BY <1>8, <2>2, Zenon
      <3> QED BY <2>1, <3>2, <3>3 DEF TakenSoFar
    <2>4. TrackedIsHandled'
      BY <1>2, <1>4, <2>1, <2>2 DEF TrackedIsHandled
    <2> QED BY <2>3, <2>4
  <1>10. EndIsClean'
    BY <1>3, <1>8 DEF EndIsClean
  <1> QED BY <1>3, <1>4, <1>5, <1>7, <1>8, <1>9, <1>10

(* After a crash, or a run that left nothing behind, it is alone.           *)
LEMMA RestartStep ==
    ASSUME IInv, Restart
    PROVE  IInv'
  <1>1. /\ CT!WindowInv' /\ CT!IInv' /\ CT!DoneAreDelivered' /\ CT!WatermarkIsTight'
        /\ CT!CursorCoversOnlyAcked' /\ IX!IInv'
        /\ TakenSoFar' /\ TrackedIsHandled' /\ EndIsClean'
        /\ st' = [e \in IX!E |-> "new"] /\ acked' = acked
    BY NewRunStep DEF Restart
  <1>2. PriorCT!WindowInv' /\ priorPulled' \in 0..Len(Events)
    <2>1. /\ PriorCTP!WindowInv /\ PriorCTP!AckedUpTo(stored) /\ PriorCTP!Restart
      BY PriorTrackerStates, PriorTrackerSteps, Constants
         DEF IInv, CT!CursorCoversOnlyAcked, CT!AckedUpTo, PriorCT!AckedUpTo, CT!N, PriorCT!N,
             Restart
    <2>2. PriorCTP!WindowInv' /\ priorPulled' \in 0..PriorCTP!N
      BY <2>1, PriorCTP!RestartStep, StreamAssumption, BoundsAssumption
    <2> QED BY <2>2, PriorTrackerStates, Constants
  <1>3. PriorIX!OrderInv'
    <2>1. PriorIXP!RunAgain(priorPulled')
      BY PriorIndexerSteps DEF Restart
    <2> QED BY <1>2, <2>1, PriorIXP!RunAgainInv, PriorIndexerStates, ConcurrencyAssumption,
               EventsAssumption, KeyOfAssumption
  <1>4. priorSavePromise' = "none" /\ priorSt' = [e \in IX!E |-> "new"]
    BY Constants DEF Restart, PriorCT!Restart, PriorIX!RunAgain
  <1>5. PriorTakenInTurn' /\ HandledIsAcked' /\ OneWriter'
    BY <1>1, <1>4 DEF PriorTakenInTurn, HandledIsAcked, OneWriter, IX!E
  <1>6. KeyPrefixHandled'
    BY <1>1 DEF IInv, KeyPrefixHandled
  <1> QED BY <1>1, <1>2, <1>3, <1>5, <1>6 DEF IInv

(* After one that ended with work left, that run becomes the one before.    *)
LEMMA RunAgainStep ==
    ASSUME IInv, RunAgain
    PROVE  IInv'
  <1>0. /\ CT!WindowInv /\ IX!IInv /\ TakenSoFar /\ HandledIsAcked /\ KeyPrefixHandled
    BY DEF IInv
  <1>1. /\ CT!WindowInv' /\ CT!CursorCoversOnlyAcked' /\ IX!IInv'
        /\ TakenSoFar' /\ TrackedIsHandled' /\ EndIsClean'
        /\ st' = [e \in IX!E |-> "new"] /\ acked' = acked
    BY NewRunStep DEF RunAgain
  <1>2. /\ priorFirst' = first /\ priorPulled' = pulled /\ priorTracked' = tracked
        /\ priorDoneSet' = doneSet /\ priorMark' = mark /\ priorSavePromise' = savePromise
        /\ priorSaving' = saving /\ priorFlush' = "done" /\ priorFlushMark' = 0
        /\ priorMain' = "aborted"
        /\ priorSt' = st /\ priorPrev' = prev
    BY DEF RunAgain, BecomesPrior
  <1>3. priorApplied' = applied /\ priorStopped' = stopped
    BY Zenon DEF RunAgain, BecomesPrior
  <1>4. PriorCT!WindowInv'
    <2>1. PriorCT!N = CT!N /\ PriorCT!Seqs = CT!Seqs
      BY Constants
    <2>2. PriorCT!Confirmed' = CT!Confirmed
      BY <1>2 DEF PriorCT!Confirmed, CT!Confirmed
    <2>3. priorApplied' \in BOOLEAN
      BY <1>0, <1>3, Zenon DEF CT!WindowInv, CT!TypeOK
    <2>4. /\ stored' = stored /\ acked' = acked /\ fails' = fails /\ restarts' \in 0..MaxRestarts
      BY <1>1 DEF RunAgain, NewRun, CT!Restart, CT!WindowInv, CT!TypeOK
    <2>5. PriorCT!TypeOK'
      BY <1>0, <1>2, <2>1, <2>3, <2>4
         DEF CT!WindowInv, CT!TypeOK, PriorCT!TypeOK, CT!Cursors, PriorCT!Cursors
    <2>6. PriorCT!TrackedIsWindow' /\ PriorCT!ConfirmedAreAcked'
      BY <1>0, <1>2, <2>2, <2>4
         DEF CT!WindowInv, CT!TrackedIsWindow, PriorCT!TrackedIsWindow, CT!ConfirmedAreAcked,
             PriorCT!ConfirmedAreAcked
    <2>7. PriorCT!MarkIsConfirmed' /\ PriorCT!SaveIsConfirmed'
      BY <1>0, <1>2, <2>2
         DEF CT!WindowInv, CT!MarkIsConfirmed, PriorCT!MarkIsConfirmed, CT!SaveIsConfirmed,
             PriorCT!SaveIsConfirmed
    <2> QED BY <2>5, <2>6, <2>7 DEF PriorCT!WindowInv
  <1>5. PriorIX!OrderInv'
    <2>1. IX!OrderInv
      BY <1>0, IndexerStates, IXP!OrderOfInv, ConcurrencyAssumption, EventsAssumption,
         KeyOfAssumption
    <2>2. PriorIX!E = IX!E /\ PriorIX!Statuses = IX!Statuses
      BY Constants DEF PriorIX!Statuses, IX!Statuses, PriorIX!Settled, IX!Settled
    <2>3. /\ priorSt' \in [PriorIX!E -> PriorIX!Statuses]
          /\ priorPrev' \in [PriorIX!E -> PriorIX!E \union {0}]
      BY <1>2, <2>1, <2>2 DEF IX!OrderInv
    <2>4. /\ priorStopped' \in BOOLEAN
          /\ \A e \in PriorIX!E : priorSt'[e] \in {"failed", "skipped"} => priorStopped'
      BY <1>2, <1>3, <2>1, <2>2, Zenon DEF IX!OrderInv
    <2>5. PriorIX!QueuedBehindPrev' /\ PriorIX!SettledInOrder' /\ PriorIX!KeyOrder'
      BY <1>2, <2>1, <2>2
         DEF IX!OrderInv, IX!QueuedBehindPrev, PriorIX!QueuedBehindPrev, IX!SettledInOrder,
             PriorIX!SettledInOrder, IX!KeyOrder, PriorIX!KeyOrder, IX!Key, PriorIX!Key,
             IX!Settled, PriorIX!Settled, IX!Started, PriorIX!Started
    <2> QED BY <2>3, <2>4, <2>5 DEF PriorIX!OrderInv
  <1>6. PriorTakenInTurn'
    <2>1. ASSUME NEW e \in IX!E, NEW f \in IX!E, st[f] # "new", e < f
          PROVE  first <= f /\ (first <= e => st[e] # "new")
      <3>1. /\ e \in Nat /\ f \in Nat /\ pos \in Nat /\ first \in Nat
        BY <1>0, WindowFacts, Constants DEF IX!IInv, IX!TypeOK
      <3>2. first <= f /\ f <= pos
        BY <1>0, <2>1, <3>1 DEF TakenSoFar, IX!IInv, IX!TakenInOrder
      <3> QED BY <1>0, <2>1, <3>1, <3>2 DEF TakenSoFar
    <2> QED BY <1>2, <2>1 DEF PriorTakenInTurn
  <1>7. HandledIsAcked'
    BY <1>0, <1>1, <1>2 DEF HandledIsAcked
  <1>8. OneWriter'
    BY <1>2 DEF OneWriter
  <1>9. KeyPrefixHandled'
    BY <1>0, <1>1 DEF KeyPrefixHandled
  <1> QED BY <1>1, <1>4, <1>5, <1>6, <1>7, <1>8, <1>9 DEF IInv

-------------------------------------------------------------------------------
(* The invariant *)

(* The first run starts in the invariant.                                   *)
LEMMA InitInv == Init => IInv
  <1> SUFFICES ASSUME Init PROVE IInv
    OBVIOUS
  <1>1. CTP!Init /\ PriorCTP!Init /\ IXP!Init /\ PriorIXP!Init
    BY DEF Init, CT!Init, CTP!Init, PriorCT!Init, PriorCTP!Init, IX!Init, IXP!Init,
           PriorIX!Init, PriorIXP!Init, IX!E, IXP!E, PriorIX!E, PriorIXP!E, IX!Keys, IXP!Keys,
           PriorIX!Keys, PriorIXP!Keys
  <1>2. CT!WindowInv /\ CT!IInv
    BY <1>1, CTP!InitInv, TrackerStates, StreamAssumption, BoundsAssumption DEF CTP!IInv
  <1>3. PriorCT!WindowInv
    BY <1>1, PriorCTP!InitInv, PriorTrackerStates, StreamAssumption, BoundsAssumption
       DEF PriorCTP!IInv
  <1>4. IX!IInv /\ PriorIX!OrderInv
    BY <1>1, IXP!InitInv, PriorIXP!InitInv, PriorIXP!OrderOfInv, IndexerStates,
       PriorIndexerStates, ConcurrencyAssumption, EventsAssumption, KeyOfAssumption
  <1>5. /\ first = 1 /\ pulled = 0 /\ tracked = <<>> /\ doneSet = {} /\ mark = 0
        /\ flush = "none" /\ stored = 0 /\ acked = {} /\ priorSavePromise = "none"
        /\ main = "pulling" /\ pos = 0
        /\ st = [e \in IX!E |-> "new"] /\ priorSt = [e \in IX!E |-> "new"]
    BY Constants DEF Init, CT!Init, PriorCT!Init, IX!Init, PriorIX!Init
  <1>6. CT!CursorCoversOnlyAcked /\ CT!DoneAreDelivered /\ CT!WatermarkIsTight
    BY <1>5, Constants DEF CT!CursorCoversOnlyAcked, CT!AckedUpTo, CT!DoneAreDelivered,
                           CT!WatermarkIsTight
  <1>7. CT!Confirmed = 0
    <2>1. tracked = <<>> /\ pulled = 0
      BY <1>5
    <2>2. Len(tracked) = 0
      BY <2>1
    <2>3. \A a, b \in Nat : a = 0 /\ b = 0 => a - b = 0
      OBVIOUS
    <2> QED BY <2>1, <2>2, <2>3 DEF CT!Confirmed
  <1>8. /\ TakenSoFar /\ PriorTakenInTurn /\ HandledIsAcked /\ TrackedIsHandled
        /\ OneWriter /\ KeyPrefixHandled /\ EndIsClean
    BY <1>2, <1>5, <1>6, <1>7
       DEF TakenSoFar, PriorTakenInTurn, HandledIsAcked, TrackedIsHandled, OneWriter,
           KeyPrefixHandled, EndIsClean
  <1> QED BY <1>2, <1>3, <1>4, <1>6, <1>8 DEF IInv

(* Every step of Runner keeps the invariant.                                *)
LEMMA NextInv == IInv /\ [Next]_vars => IInv'
  <1> SUFFICES ASSUME IInv, [Next]_vars PROVE IInv'
    OBVIOUS
  <1>1. CASE (\E n \in 1..MaxBatch : PullBatch(n)) \/ FlushAtEnd \/ FlushEnds \/ SaveLoop
    BY <1>1, OwnTrackerStep
  <1>2. CASE TakeEvent
    BY <1>2, TakeStep
  <1>3. CASE Callback
    <2>1. CASE WithAcks(IX!Granted)
      BY <1>3, <2>1, TakeStep DEF Callback
    <2>2. ASSUME NEW e \in IX!E, WithAcks(IX!Work(e))
          PROVE  IInv'
      BY <1>3, <2>2, WorkStep DEF Callback
    <2>3. CASE /\ \/ \E k \in IX!Keys : IX!ForgetTail(k)
                  \/ IX!StreamEnds \/ IX!StreamThrows \/ IX!Finish
               /\ UNCHANGED trackerVars
      BY <1>3, <2>3, EndStep DEF Callback
    <2> QED BY <1>3, <2>1, <2>2, <2>3 DEF Callback
  <1>4. CASE PriorWorks
    BY <1>4, PriorWorksStep
  <1>5. CASE PriorSaveLoop
    BY <1>5, PriorSaveLoopStep
  <1>6. CASE Restart
    BY <1>6, RestartStep
  <1>7. CASE RunAgain
    BY <1>7, RunAgainStep
  <1>8. CASE Quiesced \/ UNCHANGED vars
    <2>1. UNCHANGED vars
      BY <1>8 DEF Quiesced, IX!Quiesced, IX!vars, indexerVars, vars
    <2> QED BY <2>1, StutterStep
  <1> QED BY <1>1, <1>2, <1>3, <1>4, <1>5, <1>6, <1>7, <1>8 DEF Next

(* The inductive invariant holds in every reachable state of the runner.    *)
THEOREM Invariance == Spec => []IInv
  <1> QED BY InitInv, NextInv, PTL DEF Spec

(* Over crashes, reruns and what an ended run leaves at work, no event is   *)
(* handled before every earlier event of its key (LexIndexer's chains and   *)
(* CommitTracker's cursor together).                                        *)
THEOREM KeysAreHandledInOrder == Spec => []KeyPrefixHandled
  <1>1. IInv => KeyPrefixHandled
    BY DEF IInv
  <1> QED BY <1>1, Invariance, PTL

(* Two trackers over one store, saving in any order, never leave it with a  *)
(* cursor that covers an event that was not acknowledged.                   *)
THEOREM SharedStoreIsSafe == Spec => []CT!CursorCoversOnlyAcked
  <1>1. IInv => CT!CursorCoversOnlyAcked
    BY DEF IInv
  <1> QED BY <1>1, Invariance, PTL

(* The stored cursor stays below every event in hand that is unhandled, so  *)
(* that a crash, wherever it comes, makes the next run redeliver it.        *)
THEOREM UnhandledAreRedelivered == Spec => []CursorBelowUnhandled
  <1>1. ASSUME IInv
        PROVE  CursorBelowUnhandled
    <2>0. /\ CT!WindowInv /\ CT!CursorCoversOnlyAcked /\ OneWriter /\ TrackedIsHandled
      BY <1>1 DEF IInv
    <2> SUFFICES ASSUME NEW e \in first..pulled, st[e] # "ok",
                        priorMain = "aborted" => Stream[e] \notin acked
                 PROVE  stored < Stream[e]
      BY DEF CursorBelowUnhandled
    <2>1. e \in IX!E /\ e \in Nat /\ Stream[e] \in Nat /\ stored \in Nat /\ mark \in Nat
      BY <2>0, WindowFacts, Constants
    <2>2. CASE priorMain = "aborted"
      <3>1. ~ (Stream[e] <= stored)
        BY <2>0, <2>1, <2>2, Constants DEF CT!CursorCoversOnlyAcked, CT!AckedUpTo
      <3> QED BY <2>1, <3>1
    <2>3. CASE priorMain # "aborted"
      <3>1. CT!StoredIsBehind
        BY <2>0, <2>3 DEF OneWriter, CT!IInv
      <3>2. CASE mark = 0
        BY <2>0, <2>1, <3>1, <3>2, WindowFacts, Constants DEF CT!StoredIsBehind
      <3>3. CASE mark # 0
        <4>1. CT!Confirmed >= first /\ mark = Stream[CT!Confirmed]
          BY <2>0, <3>3 DEF CT!WindowInv, CT!MarkIsConfirmed
        <4>2. CT!Confirmed < e /\ CT!Confirmed \in IX!E
          BY <2>0, <2>1, <4>1, WindowFacts, Constants DEF TrackedIsHandled
        <4>3. mark < Stream[e] /\ stored <= mark
          BY <2>1, <3>1, <3>3, <4>1, <4>2, Constants DEF CT!StoredIsBehind
        <4> QED BY <2>1, <4>3
      <3> QED BY <3>2, <3>3
    <2> QED BY <2>2, <2>3
  <1> QED BY <1>1, Invariance, PTL

(* A run that returned and flushed has left the cursor at its last event:   *)
(* what it took it handled, so that nothing waits in the tracker.           *)
THEOREM CleanRunsAreDurable == Spec => []CleanRunIsDurable
  <1>1. ASSUME IInv
        PROVE  CleanRunIsDurable
    <2>0. /\ CT!WindowInv /\ IX!IInv /\ OneWriter /\ TakenSoFar /\ TrackedIsHandled /\ EndIsClean
      BY <1>1 DEF IInv
    <2> SUFFICES ASSUME main = "returned", flush = "done", pulled >= first,
                        priorMain # "aborted"
                 PROVE  stored = Stream[pulled]
      BY DEF CleanRunIsDurable
    <2>1. ~ stopped /\ pos = pulled
      BY <2>0 DEF EndIsClean, IX!IInv, IX!EndIsQuiet
    <2>2. first \in Nat /\ first >= 1 /\ pulled \in Nat /\ pulled <= Len(Stream)
      BY <2>0, WindowFacts
    <2>3. ASSUME NEW e \in first..pulled
          PROVE  st[e] = "ok"
      <3>1. e \in IX!E /\ st[e] \in IX!Statuses
        BY <2>0, <2>2, Constants DEF IX!IInv, IX!TypeOK
      <3>2. st[e] # "new"
        BY <2>0, <2>1 DEF TakenSoFar
      <3>3. st[e] \notin {"failed", "skipped", "dropped"}
        BY <2>0, <2>1, <3>1 DEF IX!IInv, IX!FailureIsKnown
      <3>4. st[e] \notin {"queued", "running"}
        BY <2>0, <3>1 DEF IX!IInv, IX!EndIsQuiet, IX!Outstanding
      <3> QED BY <3>1, <3>2, <3>3, <3>4 DEF IX!Statuses, IX!Settled
    <2>4. CT!Confirmed = pulled
      <3>1. /\ CT!Confirmed \in Nat /\ first <= CT!Confirmed + 1 /\ CT!Confirmed <= pulled
        BY <2>0, WindowFacts
      <3>2. SUFFICES ASSUME CT!Confirmed < pulled PROVE FALSE
        BY <2>2, <3>1
      <3>3. tracked \in Seq(CT!Seqs) /\ Len(tracked) \in Nat /\ Len(tracked) >= 1
        BY <2>0, <2>2, <3>1, <3>2 DEF CT!WindowInv, CT!TypeOK, CT!Confirmed
      <3>4. tracked[1] = Stream[CT!Confirmed + 1] /\ tracked # <<>>
        BY <2>0, <3>3 DEF CT!WindowInv, CT!TrackedIsWindow
      <3>5. CT!Confirmed + 1 \in first..pulled /\ CT!Confirmed + 1 \in IX!E
        BY <2>2, <3>1, <3>2, Constants
      <3>6. Stream[CT!Confirmed + 1] \in doneSet
        BY <2>0, <2>3, <3>1, <3>5 DEF TrackedIsHandled
      <3> QED BY <2>0, <3>4, <3>6 DEF OneWriter, CT!WatermarkIsTight
    <2>5. mark = Stream[pulled] /\ mark # 0
      BY <2>0, <2>2, <2>4, Constants DEF CT!WindowInv, CT!MarkIsConfirmed
    <2> QED BY <2>0, <2>5 DEF EndIsClean
  <1> QED BY <1>1, Invariance, PTL
==============================================================================
