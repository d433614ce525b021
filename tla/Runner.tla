-------------------------------- MODULE Runner --------------------------------
(****************************************************************************)
(* A JetstreamRunner run (runner.ts, #drive): the source's batches go       *)
(* through trackedStream into LexIndexer.run, whose acks move the           *)
(* CommitTracker's watermark, and flush() is awaited once run() has ended,  *)
(* whatever its outcome.  The process may die at any point; the next run    *)
(* starts from the cursor in the store.  So does a run that the same        *)
(* process starts after one that failed, and then handlers the failed run   *)
(* left behind work on, over a tracker of their own and the same store.     *)
(* Composes CommitTracker and LexIndexer, twice: an ack of the one is a     *)
(* Done of the other, in the same step.                                     *)
(****************************************************************************)
EXTENDS Naturals, Sequences, FiniteSets

CONSTANTS
    Stream, MaxBatch, MaxFails, MaxRestarts, SyncThrow,     \* CommitTracker
    Events, Concurrency, KeyOfThrows                        \* LexIndexer

(* Both sides see the same events: Stream[i] is the seq of Events[i].       *)
ASSUME SameEvents == Len(Stream) = Len(Events)

(* What CommitTracker and LexIndexer assume of their constants. *)
ASSUME StreamAssumption ==
    /\ Stream \in Seq(Nat \ {0})
    /\ \A i, j \in 1..Len(Stream) : i < j => Stream[i] < Stream[j]
ASSUME BoundsAssumption ==
    /\ MaxBatch \in Nat \ {0}
    /\ MaxFails \in Nat
    /\ MaxRestarts \in Nat
    /\ SyncThrow \in BOOLEAN
ASSUME ConcurrencyAssumption == Concurrency \in Nat \ {0}
ASSUME EventsAssumption ==
    Events \in Seq([key : {Events[i].key : i \in 1..Len(Events)}, handler : BOOLEAN])
ASSUME KeyOfAssumption == KeyOfThrows \in BOOLEAN

VARIABLES
    first, pulled, tracked, doneSet, mark, savePromise, saving, applied, flush, flushMark,
    stored, acked, fails, restarts,
    main, pos, inFlight, stopped, firstError, st, tail, prev,
    (* the same of the run before it in this process, which has ended *)
    priorFirst, priorPulled, priorTracked, priorDoneSet, priorMark, priorSavePromise,
    priorSaving, priorApplied, priorFlush, priorFlushMark,
    priorMain, priorPos, priorInFlight, priorStopped, priorFirstError, priorSt,
    priorTail, priorPrev

ownVars     == <<first, pulled, tracked, doneSet, mark, savePromise, saving, applied, flush,
                 flushMark>>
storeVars   == <<stored, acked, fails, restarts>>
trackerVars == <<ownVars, storeVars>>
indexerVars == <<main, pos, inFlight, stopped, firstError, st, tail, prev>>
priorTrackerVars == <<priorFirst, priorPulled, priorTracked, priorDoneSet, priorMark,
                      priorSavePromise, priorSaving, priorApplied, priorFlush, priorFlushMark>>
priorIndexerVars == <<priorMain, priorPos, priorInFlight, priorStopped, priorFirstError,
                      priorSt, priorTail, priorPrev>>
priorVars == <<priorTrackerVars, priorIndexerVars>>
vars == <<trackerVars, indexerVars, priorVars>>

CT == INSTANCE CommitTracker
IX == INSTANCE LexIndexer

PriorCT == INSTANCE CommitTracker WITH
    first <- priorFirst, pulled <- priorPulled, tracked <- priorTracked,
    doneSet <- priorDoneSet, mark <- priorMark, savePromise <- priorSavePromise,
    saving <- priorSaving, applied <- priorApplied, flush <- priorFlush,
    flushMark <- priorFlushMark
PriorIX == INSTANCE LexIndexer WITH
    main <- priorMain, pos <- priorPos, inFlight <- priorInFlight,
    stopped <- priorStopped, firstError <- priorFirstError, st <- priorSt,
    tail <- priorTail, prev <- priorPrev

(* No run before this one is as one that has taken no event.               *)
Init == CT!Init /\ IX!Init /\ PriorCT!Init /\ PriorIX!Init

(* run() is inside `for (const evt of batch.events)`: no other callback     *)
(* runs before it awaits something.                                         *)
MidBatch == main = "pulling" /\ pos < pulled

(* The source yields a batch: all of it is tracked before run() sees it.    *)
PullBatch(n) ==
    /\ main = "pulling" /\ pos = pulled
    /\ CT!Pull(n)
    /\ UNCHANGED <<indexerVars, priorVars>>

(* Mutant: every settled event is acknowledged, failed or skipped too. *)
WithAcksOfAll(step) ==
    /\ step
    /\ LET new == {e \in IX!E : st[e] \notin IX!Settled /\ st'[e] \in IX!Settled} IN
         IF new = {}
         THEN UNCHANGED trackerVars
         ELSE \E e \in new : CT!Done(Stream[e])

(* An indexer step with the acks it makes: none, or one event's.            *)
WithAcks(step) ==
    /\ step
    /\ LET new == {e \in IX!E : st[e] # "ok" /\ st'[e] = "ok"} IN
         IF new = {}
         THEN UNCHANGED trackerVars
         ELSE \E e \in new : CT!Done(Stream[e])

TakeEvent == pos < pulled /\ WithAcks(IX!Take) /\ UNCHANGED priorVars

Callback ==
    /\ ~MidBatch
    /\ \/ WithAcks(IX!Granted)
       \/ \E e \in IX!E : WithAcks(IX!Work(e))
       \/ /\ \/ \E k \in IX!Keys : IX!ForgetTail(k)
             \/ IX!StreamEnds
             \/ IX!StreamThrows
             \/ IX!Finish
          /\ UNCHANGED trackerVars
    /\ UNCHANGED priorVars

(* finally { await ts.flush() } *)
FlushAtEnd ==
    /\ main \in IX!Ended
    /\ CT!Flush
    /\ UNCHANGED <<indexerVars, priorVars>>

(* flush() returns or throws, and so the runner's promise settles. *)
FlushEnds ==
    /\ CT!FlushSettles
    /\ UNCHANGED <<indexerVars, priorVars>>

SaveLoop ==
    /\ \/ CT!SaveApplies
       \/ ~MidBatch /\ (CT!SaveResolves \/ CT!SaveRejects)
    /\ UNCHANGED <<indexerVars, priorVars>>

(* Handlers the run before left behind complete, and those queued behind    *)
(* them still run unless it had stopped: acks go to that run's tracker.     *)
PriorWorks ==
    /\ ~MidBatch
    /\ \E e \in IX!E :
         /\ PriorIX!Work(e)
         /\ IF priorSt'[e] = "ok"
            THEN PriorCT!Done(Stream[e])
            ELSE UNCHANGED <<priorTrackerVars, storeVars>>
    /\ UNCHANGED <<ownVars, indexerVars>>

PriorSaveLoop ==
    /\ \/ PriorCT!SaveApplies
       \/ ~MidBatch /\ (PriorCT!SaveResolves \/ PriorCT!SaveRejects)
    /\ UNCHANGED <<ownVars, indexerVars, priorIndexerVars>>

NewRun == CT!Restart /\ IX!RunAgain(pulled')

(* The process dies, or a run ended and left nothing behind: a new one runs *)
(* from the stored cursor.                                                  *)
Restart ==
    /\ NewRun
    /\ PriorCT!Restart /\ PriorIX!RunAgain(priorPulled')

(* What the callbacks of the ended run read is kept; what only its run()    *)
(* read is not.                                                             *)
BecomesPrior ==
    /\ priorFirst' = first /\ priorPulled' = pulled
    /\ priorTracked' = tracked /\ priorDoneSet' = doneSet /\ priorMark' = mark
    /\ priorSavePromise' = savePromise /\ priorSaving' = saving
    /\ priorApplied' = applied /\ priorFlush' = "done" /\ priorFlushMark' = 0
    /\ priorMain' = "aborted" /\ priorPos' = 0 /\ priorFirstError' = 0
    /\ priorInFlight' = Cardinality(IX!Outstanding(st))
    /\ priorStopped' = stopped /\ priorSt' = st /\ priorPrev' = prev
    /\ priorTail' = [k \in IX!Keys |-> 0]

PriorIsQuiet == IX!Outstanding(priorSt) = {} /\ priorSavePromise # "pending"

(* The runner's promise has settled, and the application runs it again over *)
(* the same store while handlers or a save of the run that ended are under  *)
(* way.  One run before the last is followed (a bound).                     *)
RunAgain ==
    /\ flush \in {"done", "failed"}
    /\ IX!Outstanding(st) # {} \/ savePromise = "pending"
    /\ PriorIsQuiet
    /\ NewRun
    /\ BecomesPrior

Quiesced ==
    /\ flush \in {"done", "failed"} /\ savePromise # "pending"
    /\ IX!Quiesced
    /\ PriorIsQuiet
    /\ UNCHANGED <<trackerVars, priorVars>>

Next ==
    \/ \E n \in 1..MaxBatch : PullBatch(n)
    \/ TakeEvent
    \/ Callback
    \/ FlushAtEnd
    \/ FlushEnds
    \/ SaveLoop
    \/ PriorWorks
    \/ PriorSaveLoop
    \/ Restart
    \/ RunAgain
    \/ Quiesced

Spec == Init /\ [][Next]_vars

(* Handlers, the store and the event loop make progress, and the source     *)
(* delivers or ends; nothing is assumed of crashes and failures.            *)
FairSpec ==
    /\ Spec
    /\ WF_vars(\E n \in 1..MaxBatch : PullBatch(n))
    /\ WF_vars(TakeEvent)
    /\ WF_vars(Callback)
    /\ WF_vars(FlushAtEnd)
    /\ WF_vars(FlushEnds)
    /\ WF_vars(SaveLoop)

-------------------------------------------------------------------------------
(* The stored cursor stays below every event this run has in hand: pulled   *)
(* and not dispatched, waiting, running, failed, skipped or dropped.  While *)
(* what a run before it left behind saves to the same store, too, in any    *)
(* order, that is: every event in hand that no run has handled.             *)
CursorBelowUnhandled ==
    \A e \in first..pulled :
        st[e] # "ok" /\ (priorMain = "aborted" => Stream[e] \notin acked) => stored < Stream[e]

(* Over crashes, reruns and overlapping runs, an event is handled only when *)
(* every earlier event of its key has been handled: skipping after a        *)
(* failure and resuming from the cursor never reorders a key.               *)
KeyPrefixHandled ==
    \A e, f \in IX!E :
        e < f /\ IX!Key(e) = IX!Key(f) /\ Stream[f] \in acked => Stream[e] \in acked

(* A run that returned and flushed has left the cursor at its last event    *)
(* (unless a run before it was cut short in the same process: what that one *)
(* left running may save its own, lower, watermark over it).                *)
CleanRunIsDurable ==
    main = "returned" /\ flush = "done" /\ pulled >= first /\ priorMain # "aborted"
        => stored = Stream[pulled]

(* flush() happens at the end of every run: once run() has ended, the       *)
(* runner's promise settles, unless the process dies first.                 *)
RunnerSettles ==
    \A r \in 0..MaxRestarts :
        (main \in IX!Ended /\ restarts = r) ~> (flush \in {"done", "failed"} \/ restarts > r)

-------------------------------------------------------------------------------
(* The inductive invariant (Runner_proofs): why the safety properties hold. *)
(* run() has taken the events from `first` to `pos`, each in its turn, and  *)
(* has none of those the tracker has not registered.                        *)
TakenSoFar ==
    /\ first <= pos + 1 /\ pos <= pulled
    /\ main \in {"waiting", "granted"} => first <= pos
    /\ \A e \in IX!E : st[e] # "new" => first <= e
    /\ \A e \in first..pos : st[e] = "new" => e = pos /\ main \in {"waiting", "granted"}

(* The same of a run that has ended, of which `first` and statuses are kept. *)
PriorTakenInTurn ==
    \A e, f \in IX!E : priorSt[f] # "new" /\ e < f =>
        priorFirst <= f /\ (priorFirst <= e => priorSt[e] # "new")

HandledIsAcked == \A e \in IX!E : st[e] = "ok" \/ priorSt[e] = "ok" => Stream[e] \in acked

(* What the tracker has confirmed or waits to confirm is what this run has   *)
(* handled.                                                                  *)
TrackedIsHandled ==
    /\ \A i \in first..CT!Confirmed : st[i] = "ok"
    /\ \A d \in doneSet : \E e \in IX!E : st[e] = "ok" /\ d = Stream[e]
    /\ \A e \in IX!E : st[e] = "ok" => e <= CT!Confirmed \/ Stream[e] \in doneSet

(* Two trackers write to the store only after a run was cut short: until     *)
(* then the tracker's own invariant holds in full.                           *)
OneWriter ==
    priorMain # "aborted" =>
        /\ priorSavePromise # "pending" /\ priorSt = [e \in IX!E |-> "new"]
        /\ CT!IInv /\ CT!DoneAreDelivered /\ CT!WatermarkIsTight

(* flush() is for the end.  A run that ended without a failure took all it   *)
(* pulled, and what flush() left in the store is its watermark.              *)
EndIsClean ==
    /\ flush # "none" => main \in IX!Ended
    /\ main \in {"settling", "returned"} => stopped \/ pos = pulled
    /\ main = "returned" /\ flush \in {"resolved", "done"} /\ priorMain # "aborted"
         => mark \in {0, stored}

IInv ==
    /\ CT!WindowInv /\ PriorCT!WindowInv /\ CT!CursorCoversOnlyAcked
    /\ IX!IInv /\ PriorIX!OrderInv
    /\ TakenSoFar /\ PriorTakenInTurn /\ HandledIsAcked /\ TrackedIsHandled
    /\ OneWriter /\ KeyPrefixHandled /\ EndIsClean
==============================================================================
