---------------------------- MODULE CommitTracker ----------------------------
(****************************************************************************)
(* The cursor side of a run: trackedStream (run-tracker.ts) registers every *)
(* pulled event with a CommitTracker (execute/commit-tracker.ts), the       *)
(* consumer acknowledges events in any order, and the tracker persists the  *)
(* highest contiguously acknowledged seq through a CursorStore with at most *)
(* one save in flight.  The store may fail, and the process may die and     *)
(* start a new run from the cursor the store kept.                          *)
(*                                                                          *)
(* A promise callback of the code runs to completion, so one action here is *)
(* one synchronous stretch of the code: an ack with everything it triggers, *)
(* or one continuation of the save loop.                                    *)
(****************************************************************************)
EXTENDS Naturals, Sequences

CONSTANTS
    Stream,         \* the seqs of the events the source offers, ascending
    MaxBatch,       \* largest batch the source yields
    MaxFails,       \* how many saves may fail
    MaxRestarts,    \* how many times the process may be restarted
    SyncThrow       \* whether store.save may throw instead of rejecting

ASSUME StreamAssumption ==
    /\ Stream \in Seq(Nat \ {0})
    /\ \A i, j \in 1..Len(Stream) : i < j => Stream[i] < Stream[j]

ASSUME BoundsAssumption ==
    /\ MaxBatch \in Nat \ {0}
    /\ MaxFails \in Nat
    /\ MaxRestarts \in Nat
    /\ SyncThrow \in BOOLEAN

VARIABLES
    first,          \* index in Stream of the first event of this run
    pulled,         \* index in Stream of the last event pulled
    tracked,        \* pulled seqs not yet in the confirmed prefix, in order
    doneSet,        \* acknowledged seqs that wait for an earlier one
    mark,           \* the watermark; 0 is the code's undefined
    savePromise,    \* "none", "pending", or "stuck": rejected but never cleared
    saving,         \* argument of the store.save in flight
    applied,        \* whether the store has already made that save durable
    flush,          \* flush(): "none", "awaiting" the save loop, which has then "resolved"
                    \* or "rejected", and what flush() itself came to: "done" or "failed"
    flushMark,      \* ghost: the watermark when flush() was called
    stored,         \* the seq in the store; 0 is the code's undefined
    acked,          \* ghost: every seq some run has acknowledged
    fails,          \* saves that failed so far
    restarts        \* restarts so far

trackerVars == <<tracked, doneSet, mark>>
saveVars    == <<savePromise, saving, applied, fails>>
vars == <<first, pulled, tracked, doneSet, mark, savePromise, saving, applied,
          flush, flushMark, stored, acked, fails, restarts>>

N       == Len(Stream)
Seqs    == {Stream[i] : i \in 1..N}
Cursors == Seqs \union {0}

TypeOK ==
    /\ first \in 1..(N + 1)
    /\ pulled \in 0..N
    /\ tracked \in Seq(Seqs)
    /\ doneSet \subseteq Seqs
    /\ mark \in Cursors
    /\ savePromise \in {"none", "pending", "stuck"}
    /\ saving \in Cursors
    /\ applied \in BOOLEAN
    /\ flush \in {"none", "awaiting", "resolved", "rejected", "done", "failed"}
    /\ flushMark \in Cursors
    /\ stored \in Cursors
    /\ acked \subseteq Seqs
    /\ fails \in 0..MaxFails
    /\ restarts \in 0..MaxRestarts

Init ==
    /\ first = 1 /\ pulled = 0
    /\ tracked = <<>> /\ doneSet = {} /\ mark = 0
    /\ savePromise = "none" /\ saving = 0 /\ applied = FALSE
    /\ flush = "none" /\ flushMark = 0
    /\ stored = 0 /\ acked = {}
    /\ fails = 0 /\ restarts = 0

-------------------------------------------------------------------------------
(* The save loop.  runSaveLoop calls store.save before its first await, so  *)
(* the call is part of the step that schedules it.  If that call throws,    *)
(* the `finally` clears savePromise before scheduleSave assigns the already *)
(* rejected promise to it, and nothing clears it again.                     *)

StartSaveLoop ==
    \/ /\ savePromise' = "pending" /\ saving' = mark' /\ applied' = FALSE
       /\ UNCHANGED fails
    \/ /\ SyncThrow /\ fails < MaxFails
       /\ savePromise' = "stuck" /\ fails' = fails + 1
       /\ UNCHANGED <<saving, applied>>

(* Mutant: a run that has acknowledged nothing saves, too. *)
ScheduleSaveUnmarked ==
    IF savePromise = "none" THEN StartSaveLoop ELSE UNCHANGED saveVars

ScheduleSave ==
    IF mark' # 0 /\ savePromise = "none"
    THEN StartSaveLoop
    ELSE UNCHANGED saveVars

-------------------------------------------------------------------------------
(* trackedStream: pull the next batch and track all of it before yielding.  *)
Pull(n) ==
    /\ flush = "none"
    /\ pulled + n <= N
    /\ tracked' = tracked \o SubSeq(Stream, pulled + 1, pulled + n)
    /\ pulled' = pulled + n
    /\ UNCHANGED <<first, doneSet, mark, savePromise, saving, applied, flush,
                   flushMark, stored, acked, fails, restarts>>

(* The events an ack can name: those this run has handed to the consumer.   *)
Delivered == {Stream[i] : i \in first..pulled}

(* Mutants: the prefix ends at the highest acknowledged seq, over gaps; or  *)
(* an `if` where done() has its `while`.                                    *)
HighestDone(k, t, d) ==
    /\ k \in 0..Len(t)
    /\ k > 0 => t[k] \in d
    /\ \A i \in (k + 1)..Len(t) : t[i] \notin d

HeadOnly(k, t, d) == k = IF t # <<>> /\ t[1] \in d THEN 1 ELSE 0

(* k is the number of leading entries of t that are in d: where done()'s    *)
(* loop stops.                                                              *)
IsConfirmedPrefix(k, t, d) ==
    /\ k \in 0..Len(t)
    /\ \A i \in 1..k : t[i] \in d
    /\ k < Len(t) => t[k + 1] \notin d

(* ack(evt): done() moves the watermark over the contiguous prefix, trims   *)
(* it, and schedules a save.  A consumer may ack after flush() and may ack  *)
(* an event twice.                                                          *)
Done(s) ==
    /\ s \in Delivered
    /\ acked' = acked \union {s}
    /\ \E k \in 0..Len(tracked) :
         LET d == doneSet \union {s} IN
         /\ IsConfirmedPrefix(k, tracked, d)
         /\ mark' = IF k = 0 THEN mark ELSE tracked[k]
         /\ doneSet' = d \ {tracked[i] : i \in 1..k}
         /\ tracked' = SubSeq(tracked, k + 1, Len(tracked))
    /\ ScheduleSave
    /\ UNCHANGED <<first, pulled, flush, flushMark, stored, restarts>>

(* flush(): schedule a save for the current mark and await the save loop,   *)
(* or whatever savePromise is.                                              *)
Flush ==
    /\ flush = "none"
    /\ UNCHANGED mark
    /\ ScheduleSave
    /\ flushMark' = mark
    /\ flush' = CASE savePromise' = "none"    -> "resolved"
                  [] savePromise' = "pending" -> "awaiting"
                  [] savePromise' = "stuck"   -> "rejected"
    /\ UNCHANGED <<first, pulled, tracked, doneSet, stored, acked, restarts>>

(* What flush() awaits has settled, and its continuation runs: a callback   *)
(* of its own, acks and a new save may come before it.                      *)
FlushSettles ==
    /\ flush \in {"resolved", "rejected"}
    /\ flush' = IF flush = "resolved" THEN "done" ELSE "failed"
    /\ UNCHANGED <<first, pulled, trackerVars, saveVars, flushMark, stored, acked, restarts>>

(* The store makes the save in flight durable; the answer is still to come. *)
SaveApplies ==
    /\ savePromise = "pending" /\ ~applied
    /\ applied' = TRUE
    /\ stored' = saving
    /\ UNCHANGED <<first, pulled, trackerVars, savePromise, saving, flush, flushMark,
                   acked, fails, restarts>>

(* Mutants: the save loop ends after one save, whatever the mark; or its    *)
(* condition is inverted.                                                   *)
SaveResolvesOnce ==
    /\ savePromise = "pending" /\ applied
    /\ applied' = FALSE /\ saving' = 0 /\ savePromise' = "none"
    /\ flush' = IF flush = "awaiting" THEN "resolved" ELSE flush
    /\ UNCHANGED <<first, pulled, trackerVars, flushMark, stored, acked, fails, restarts>>

SaveResolvesInverted ==
    /\ savePromise = "pending" /\ applied
    /\ applied' = FALSE
    /\ IF saving = mark
       THEN saving' = mark /\ UNCHANGED <<savePromise, flush>>
       ELSE /\ saving' = 0 /\ savePromise' = "none"
            /\ flush' = IF flush = "awaiting" THEN "resolved" ELSE flush
    /\ UNCHANGED <<first, pulled, trackerVars, flushMark, stored, acked, fails, restarts>>

(* The save loop after its await: save again if the mark has moved, else    *)
(* end, which resolves what a flush() awaits.                               *)
SaveResolves ==
    /\ savePromise = "pending" /\ applied
    /\ applied' = FALSE
    /\ IF saving # mark
       THEN saving' = mark /\ UNCHANGED <<savePromise, flush>>
       ELSE /\ saving' = 0
            /\ savePromise' = "none"
            /\ flush' = IF flush = "awaiting" THEN "resolved" ELSE flush
    /\ UNCHANGED <<first, pulled, trackerVars, flushMark, stored, acked, fails, restarts>>

(* store.save rejects, whether or not the value reached the store.          *)
SaveRejects ==
    /\ savePromise = "pending" /\ fails < MaxFails
    /\ fails' = fails + 1
    /\ savePromise' = "none" /\ saving' = 0 /\ applied' = FALSE
    /\ flush' = IF flush = "awaiting" THEN "rejected" ELSE flush
    /\ UNCHANGED <<first, pulled, trackerVars, flushMark, stored, acked, restarts>>

(* The process dies, or the run ended and the application starts another:   *)
(* a new tracker, and the source resumes after the stored cursor.           *)
Restart ==
    /\ restarts < MaxRestarts
    /\ restarts' = restarts + 1
    /\ \E p \in 0..N :
         /\ \A i \in 1..N : Stream[i] <= stored <=> i <= p
         /\ first' = p + 1 /\ pulled' = p
    /\ tracked' = <<>> /\ doneSet' = {} /\ mark' = 0
    /\ savePromise' = "none" /\ saving' = 0 /\ applied' = FALSE
    /\ flush' = "none" /\ flushMark' = 0
    /\ UNCHANGED <<stored, acked, fails>>

Next ==
    \/ \E n \in 1..MaxBatch : Pull(n)
    \/ \E s \in Seqs : Done(s)
    \/ Flush
    \/ FlushSettles
    \/ SaveApplies
    \/ SaveResolves
    \/ SaveRejects
    \/ Restart

Spec == Init /\ [][Next]_vars

(* The event loop runs every callback that is ready and a store answers     *)
(* every save; nothing obliges the consumer to ack or the run to end.       *)
FairSpec == Spec /\ WF_vars(SaveApplies) /\ WF_vars(SaveResolves) /\ WF_vars(FlushSettles)

-------------------------------------------------------------------------------
(* Safety *)

(* A cursor in the store covers acknowledged events only: whatever crash or *)
(* failed save comes next, no unacknowledged event is skipped on resume.    *)
(* This is what CommitTracker.done's contiguous prefix is for.              *)
AckedUpTo(c) == \A i \in 1..N : Stream[i] <= c => Stream[i] \in acked
CursorCoversOnlyAcked == AckedUpTo(stored)

(* The watermark is as far as the acks allow: the oldest tracked event is   *)
(* not acknowledged in this run (done() stops only there).                  *)
WatermarkIsTight == tracked # <<>> => tracked[1] \notin doneSet

(* Why both hold, as an inductive invariant.  Confirmed is the index in     *)
(* Stream of the last event of the confirmed prefix.                        *)
Confirmed == pulled - Len(tracked)

TrackedIsWindow ==
    /\ Len(tracked) <= pulled - (first - 1)
    /\ \A i \in 1..Len(tracked) : tracked[i] = Stream[Confirmed + i]

ConfirmedAreAcked ==
    /\ \A i \in 1..Confirmed : Stream[i] \in acked
    /\ doneSet \subseteq acked

MarkIsConfirmed ==
    \/ mark = 0 /\ Confirmed = first - 1
    \/ Confirmed >= first /\ mark = Stream[Confirmed]

StoredIsBehind ==
    /\ mark # 0 => stored <= mark
    /\ mark = 0 => \A i \in first..N : Stream[i] > stored

(* A save in flight names a watermark of this run.                          *)
SaveIsConfirmed == savePromise = "pending" => saving # 0 /\ mark # 0 /\ saving <= mark

SaveIsAhead ==
    savePromise = "pending" => stored <= saving /\ (applied => saving = stored)

(* While flush() waits it is the current save loop it waits for, which does *)
(* not end before the watermark of the call is in the store.                *)
FlushIsCovered ==
    /\ flush = "awaiting" => savePromise = "pending" /\ flushMark <= mark
    /\ flush \in {"resolved", "done"} => flushMark <= stored

(* The inductive invariant behind the theorems, in two parts.  The tracked  *)
(* seqs are the stream's window after the confirmed prefix, all of that     *)
(* prefix is acknowledged, and saving <= mark: this a tracker keeps up      *)
(* whatever else writes to its store.  While nothing else does, besides,    *)
(* stored <= saving, and the store keeps what a flush() waited for.         *)
WindowInv ==
    /\ TypeOK
    /\ TrackedIsWindow
    /\ ConfirmedAreAcked
    /\ MarkIsConfirmed
    /\ SaveIsConfirmed

IInv == WindowInv /\ StoredIsBehind /\ SaveIsAhead /\ FlushIsCovered

(* Besides IInv, WatermarkIsTight rests on this: an ack that waits names an  *)
(* event that was pulled, so the next batch finds none of its seqs there.    *)
DoneAreDelivered == doneSet \subseteq Delivered

(* Action properties *)

(* flush() resolves only when the store holds the watermark of its call, or *)
(* a later one, whatever saves failed before it and whatever acks arrive    *)
(* while it waits.  (An ack between the end of the save loop and flush()'s  *)
(* continuation moves the watermark past what is stored by then.)           *)
FlushResolvesDurable ==
    [][flush # "done" /\ flush' = "done" => stored' >= flushMark]_vars

(* The cursor in the store never moves back, over saves, failures and       *)
(* restarts (one tracker at a time; the next run starts from the store).    *)
CursorNeverRegresses == [][stored' >= stored]_vars

(* flush()'s comment: "Ensure a save covering the current mark is           *)
(* scheduled, then wait for drain."  After it is called a save is in flight *)
(* unless the store already holds the mark.                                 *)
FlushSchedulesSave ==
    [][flush = "none" /\ flush' # "none" =>
          savePromise' = "pending" \/ mark' \in {0, stored'}]_vars

(* Liveness *)

(* While the save loop runs, every watermark reaches the store though saves *)
(* coalesce, unless a save fails or the process dies on the way.            *)
WatermarkIsSaved ==
    \A s \in Seqs, f \in 0..MaxFails, r \in 0..MaxRestarts :
        (mark = s /\ savePromise = "pending" /\ fails = f /\ restarts = r)
            ~> (stored >= s \/ fails > f \/ restarts > r)

(* The tracker implements the abstract cursor. *)
Abstract == INSTANCE AtLeastOnce WITH handled <- acked, cursor <- stored
ImplementsAtLeastOnce == Abstract!Spec
==============================================================================
