------------------------------ MODULE LexIndexer ------------------------------
(****************************************************************************)
(* The event processor: LexIndexer.run (lex-indexer.ts) pulls events from   *)
(* the batch stream, holds each one until a concurrency slot is free, runs  *)
(* its handler, and keeps the events of one key in order by chaining each   *)
(* behind the key's tail promise.  The first handler error stops the run:   *)
(* what was dispatched before it settles or is skipped, and run() throws.   *)
(*                                                                          *)
(* One action is one synchronous stretch of the code.  Events are numbered  *)
(* by their place in the stream.  A batch of several events is a stretch of *)
(* Take steps with no other step between them, so single-event batches (the *)
(* live stream's) show every interleaving.                                  *)
(****************************************************************************)
EXTENDS Naturals, Sequences, FiniteSets

CONSTANTS
    Events,         \* the stream: records [key, handler], see HasHandler
    Concurrency,    \* the concurrency option, after Math.max(1, ...)
    KeyOfThrows     \* whether a custom keyOf may throw

ASSUME ConcurrencyAssumption == Concurrency \in Nat \ {0}
ASSUME EventsAssumption ==
    Events \in Seq([key : {Events[i].key : i \in 1..Len(Events)}, handler : BOOLEAN])
ASSUME KeyOfAssumption == KeyOfThrows \in BOOLEAN

VARIABLES
    main,           \* where run() is, see Main
    pos,            \* the last event taken from the stream
    inFlight,       \* slots taken
    stopped,        \* set by the first failure
    firstError,     \* the event whose failure run() will throw (0: none)
    st,             \* what became of each event, see Statuses
    tail,           \* keyTails: the last event chained for a key (0: no entry)
    prev            \* the event a queued event waits for

vars == <<main, pos, inFlight, stopped, firstError, st, tail, prev>>

E    == 1..Len(Events)
Keys == {Events[e].key : e \in E}
Key(e) == Events[e].key

(* "pulling" awaits the stream, "waiting" a slot, "granted" was given one   *)
(* and awaits its continuation, "settling" awaits Promise.allSettled; the   *)
(* others are run()'s outcomes, "aborted" the throws that skip the wait.    *)
Main == {"pulling", "waiting", "granted", "settling", "returned", "threw", "aborted"}
Ended == {"returned", "threw", "aborted"}

Outstanding(s) == {e \in E : s[e] \in {"queued", "running"}}
Settled  == {"ok", "failed", "skipped"}
Statuses == {"new", "dropped", "queued", "running"} \union Settled

TypeOK ==
    /\ main \in Main
    /\ pos \in 0..Len(Events)
    /\ inFlight \in 0..Concurrency
    /\ stopped \in BOOLEAN
    /\ firstError \in E \union {0}
    /\ st \in [E -> Statuses]
    /\ tail \in [Keys -> E \union {0}]
    /\ prev \in [E -> E \union {0}]

Init ==
    /\ main = "pulling" /\ pos = 0
    /\ inFlight = 0 /\ stopped = FALSE /\ firstError = 0
    /\ st = [e \in E |-> "new"]
    /\ tail = [k \in Keys |-> 0]
    /\ prev = [e \in E |-> 0]

(* A new run() over the stream after its first p events. *)
RunAgain(p) ==
    /\ main' = "pulling" /\ pos' = p
    /\ inFlight' = 0 /\ stopped' = FALSE /\ firstError' = 0
    /\ st' = [e \in E |-> "new"]
    /\ tail' = [k \in Keys |-> 0]
    /\ prev' = [e \in E |-> 0]

-------------------------------------------------------------------------------
(* What a handler call may come to: events without a handler are done at    *)
(* once; a handler completes or throws at once, or returns a promise.       *)
HasHandler(e) == Events[e].handler
Outcomes(e) == IF HasHandler(e) THEN {"ok", "failed", "running"} ELSE {"ok"}

(* Mutant: a release that wakes nobody. *)
SettleSilently(e, how, held, m) ==
    /\ st' = [st EXCEPT ![e] = how]
    /\ stopped' = (stopped \/ how = "failed")
    /\ firstError' = IF how = "failed" /\ firstError = 0 THEN e ELSE firstError
    /\ inFlight' = held - 1
    /\ main' = m

(* settle(): record the outcome; the first error stops the run; then        *)
(* release the slot, waking run() if it waits for one.  `held` is inFlight  *)
(* with e's own slot in it.                                                 *)
Settle(e, how, held, m) ==
    /\ st' = [st EXCEPT ![e] = how]
    /\ stopped' = (stopped \/ how = "failed")
    /\ firstError' = IF how = "failed" /\ firstError = 0 THEN e ELSE firstError
    /\ inFlight' = held - 1
    /\ main' = IF m = "waiting" THEN "granted" ELSE m

(* The handler runs now: settle if it finished, else hold the slot.         *)
Call(e, held, m) ==
    \E how \in Outcomes(e) :
      IF how = "running"
      THEN /\ st' = [st EXCEPT ![e] = "running"]
           /\ inFlight' = held
           /\ main' = m
           /\ UNCHANGED <<stopped, firstError>>
      ELSE Settle(e, how, held, m)

(* dispatch(evt), from run() only and never when stopped: call the handler  *)
(* if the key has no tail, keeping a pending one as the tail; else chain    *)
(* the event behind the tail.                                               *)
Dispatch(e, held) ==
    IF tail[Key(e)] = 0
    THEN /\ Call(e, held, "pulling")
         /\ tail' = IF st'[e] = "running" THEN [tail EXCEPT ![Key(e)] = e] ELSE tail
         /\ UNCHANGED prev
    ELSE /\ st' = [st EXCEPT ![e] = "queued"]
         /\ prev' = [prev EXCEPT ![e] = tail[Key(e)]]
         /\ tail' = [tail EXCEPT ![Key(e)] = e]
         /\ inFlight' = held
         /\ main' = "pulling"
         /\ UNCHANGED <<stopped, firstError>>

(* A custom keyOf that throws ends run() at once, with the slot taken.      *)
KeyThrows(e, held) ==
    /\ KeyOfThrows
    /\ st' = [st EXCEPT ![e] = "dropped"]
    /\ inFlight' = held
    /\ main' = "aborted"
    /\ UNCHANGED <<stopped, firstError, tail, prev>>

(* The main loop stops pulling: event e, already taken, is dropped.         *)
BreakOut(e) ==
    /\ st' = [st EXCEPT ![e] = "dropped"]
    /\ main' = "settling"
    /\ UNCHANGED <<inFlight, stopped, firstError, tail, prev>>

-------------------------------------------------------------------------------
(* Mutant: a slot more than there are. *)
TakeOneMore ==
    /\ main = "pulling"
    /\ pos < Len(Events)
    /\ pos' = pos + 1
    /\ IF stopped THEN BreakOut(pos + 1)
       ELSE IF inFlight <= Concurrency
            THEN Dispatch(pos + 1, inFlight + 1)
            ELSE /\ main' = "waiting"
                 /\ UNCHANGED <<inFlight, stopped, firstError, st, tail, prev>>

(* The stream delivers the next event. *)
Take ==
    /\ main = "pulling"
    /\ pos < Len(Events)
    /\ pos' = pos + 1
    /\ IF stopped THEN BreakOut(pos + 1)
       ELSE IF inFlight < Concurrency
            THEN \/ Dispatch(pos + 1, inFlight + 1)
                 \/ KeyThrows(pos + 1, inFlight + 1)
            ELSE /\ main' = "waiting"
                 /\ UNCHANGED <<inFlight, stopped, firstError, st, tail, prev>>

(* Mutant: the slot is not counted after the wait. *)
GrantedUncounted ==
    /\ main = "granted"
    /\ IF stopped THEN BreakOut(pos) ELSE Dispatch(pos, inFlight)
    /\ UNCHANGED pos

(* The continuation of `await acquireSlot()`: the slot is counted here, not *)
(* when it was released, and given back if the run stopped meanwhile.       *)
Granted ==
    /\ main = "granted"
    /\ IF stopped THEN BreakOut(pos)
       ELSE \/ Dispatch(pos, inFlight + 1)
            \/ KeyThrows(pos, inFlight + 1)
    /\ UNCHANGED pos

(* A pending handler's promise settles. *)
HandlerSettles(e) ==
    /\ st[e] = "running"
    /\ \E how \in {"ok", "failed"} : Settle(e, how, inFlight, main)
    /\ UNCHANGED <<pos, tail, prev>>

(* Mutants: a queued event runs although the run stopped; an event behind a *)
(* failed one never runs (the chain without its catch).                     *)
RunQueuedAnyway(e) ==
    /\ st[e] = "queued"
    /\ st[prev[e]] \in Settled
    /\ Call(e, inFlight, main)
    /\ UNCHANGED <<pos, tail, prev>>

RunQueuedAfterOk(e) ==
    /\ st[e] = "queued"
    /\ st[prev[e]] = "ok"
    /\ IF stopped
       THEN Settle(e, "skipped", inFlight, main)
       ELSE Call(e, inFlight, main)
    /\ UNCHANGED <<pos, tail, prev>>

(* The callback of a queued event, once the event before it has settled: a  *)
(* run stopped meanwhile skips it, without an ack.                          *)
RunQueued(e) ==
    /\ st[e] = "queued"
    /\ st[prev[e]] \in Settled
    /\ IF stopped
       THEN Settle(e, "skipped", inFlight, main)
       ELSE Call(e, inFlight, main)
    /\ UNCHANGED <<pos, tail, prev>>

(* Mutant: any settled event of the key clears the tail. *)
ForgetAnyTail(k) ==
    /\ tail[k] # 0
    /\ \E e \in E : Key(e) = k /\ st[e] \in Settled
    /\ tail' = [tail EXCEPT ![k] = 0]
    /\ UNCHANGED <<main, pos, inFlight, stopped, firstError, st, prev>>

(* run.finally: a settled tail that is still the tail leaves keyTails.      *)
ForgetTail(k) ==
    /\ tail[k] # 0
    /\ st[tail[k]] \in Settled
    /\ tail' = [tail EXCEPT ![k] = 0]
    /\ UNCHANGED <<main, pos, inFlight, stopped, firstError, st, prev>>

(* The stream ends (the archive is exhausted, or the signal aborted it). *)
StreamEnds ==
    /\ main = "pulling"
    /\ main' = "settling"
    /\ UNCHANGED <<pos, inFlight, stopped, firstError, st, tail, prev>>

(* The stream throws a fatal error: run() throws it at once. *)
StreamThrows ==
    /\ main = "pulling"
    /\ main' = "aborted"
    /\ UNCHANGED <<pos, inFlight, stopped, firstError, st, tail, prev>>

(* Mutant: run() ends without allSettled. *)
FinishAtOnce ==
    /\ main = "settling"
    /\ main' = IF firstError = 0 THEN "returned" ELSE "threw"
    /\ UNCHANGED <<pos, inFlight, stopped, firstError, st, tail, prev>>

(* allSettled over the key tails, then throw the first error or return. *)
Finish ==
    /\ main = "settling"
    /\ \A k \in Keys : tail[k] # 0 => st[tail[k]] \in Settled
    /\ main' = IF firstError = 0 THEN "returned" ELSE "threw"
    /\ UNCHANGED <<pos, inFlight, stopped, firstError, st, tail, prev>>

Work(e) == HandlerSettles(e) \/ RunQueued(e)

Step ==
    \/ Take \/ Granted \/ StreamEnds \/ StreamThrows \/ Finish
    \/ \E e \in E : HandlerSettles(e)
    \/ \E e \in E : RunQueued(e)
    \/ \E k \in Keys : ForgetTail(k)

(* Nothing is left to run: the one place the system may stop. *)
Quiesced ==
    /\ main \in Ended
    /\ Outstanding(st) = {}
    /\ \A k \in Keys : tail[k] = 0
    /\ UNCHANGED vars

Next == Step \/ Quiesced

Spec == Init /\ [][Next]_vars

(* Handlers settle and ready callbacks run; the stream may stay quiet.      *)
FairSpec ==
    /\ Spec
    /\ \A e \in E : WF_vars(Work(e))
    /\ WF_vars(Granted) /\ WF_vars(Finish)

(* The stream, besides, does not stay quiet: it delivers, ends or throws.   *)
FlowingSpec == FairSpec /\ WF_vars(Take \/ StreamEnds \/ StreamThrows)

-------------------------------------------------------------------------------
(* The events run() has acknowledged: settle() acks success and nothing else. *)
Acked == {e \in E : st[e] = "ok"}
Started(e) == st[e] \in {"running", "ok", "failed"}

(* Slots are neither leaked nor given twice: every dispatched event that    *)
(* has not settled holds exactly one, through skips, failures and waits     *)
(* (the slot of a keyOf that threw is the one exception, its run is over).  *)
SlotsMatch ==
    \/ inFlight = Cardinality(Outstanding(st))
    \/ KeyOfThrows /\ main = "aborted"

(* Per-key order, over the synchronous fast path, chained events and events *)
(* chained behind a tail that settled but is not forgotten yet: an event's  *)
(* handler starts only after every earlier event of its key succeeded.      *)
KeyOrder ==
    \A e, f \in E :
        e < f /\ Key(e) = Key(f) /\ Started(f) /\ st[e] # "new" => st[e] = "ok"

(* After a handler failed no other starts, on any key: what run() throws is *)
(* followed by no side effect but those already under way.  (A stream or    *)
(* keyOf that throws does not set stopped; nothing is said of those.)       *)
NoStartAfterStop == [][stopped => \A e \in E : Started(e)' => Started(e)]_vars

(* run() returns only when every event it took succeeded, and throws a      *)
(* handler's error only when nothing is outstanding and that event is not   *)
(* acknowledged.                                                            *)
OutcomeIsTrue ==
    /\ main = "returned" => \A e \in E : st[e] \in {"new", "ok"}
    /\ main = "threw" => Outstanding(st) = {} /\ st[firstError] = "failed"

(* Liveness *)

(* A run at its concurrency limit gets its slot: no lost wakeup. *)
SlotIsGranted == main = "waiting" ~> main # "waiting"

(* A handler's error ends the run.  "fails fast: first handler error        *)
(* rejects run" (lex-indexer-run.test.ts): it does while the stream moves.  *)
HandlerErrorRejectsRun == stopped ~> main \in Ended

-------------------------------------------------------------------------------
(* The inductive invariant (LexIndexer_proofs): why the properties above     *)
(* hold.  A slot is counted for every outstanding event, and for the one     *)
(* whose keyOf threw.                                                        *)
SlotsCounted ==
    \/ inFlight = Cardinality(Outstanding(st))
    \/ /\ KeyOfThrows /\ main = "aborted"
       /\ inFlight = Cardinality(Outstanding(st)) + 1

(* The event run() holds is untouched, and so are those it has not taken.    *)
TakenInOrder ==
    /\ main \in {"waiting", "granted"} => pos # 0 /\ st[pos] = "new"
    /\ main = "granted" => inFlight < Concurrency
    /\ \A e \in E : e > pos => st[e] = "new"

(* `stopped` and `firstError` tell of a failed event; only a stopped run     *)
(* skips, and nothing is dropped while run() still takes events.             *)
FailureIsKnown ==
    /\ stopped <=> firstError # 0
    /\ firstError # 0 => st[firstError] = "failed"
    /\ \A e \in E :
         /\ st[e] \in {"failed", "skipped"} => stopped
         /\ st[e] = "dropped" => /\ stopped \/ main = "aborted"
                                 /\ main \notin {"pulling", "waiting", "granted"}

(* A key's tail is its last dispatched event, no outstanding event of the    *)
(* key is without one, and a queued event waits for the one just before it.  *)
TailIsLast ==
    /\ \A e \in Outstanding(st) : tail[Key(e)] # 0
    /\ \A k \in Keys : tail[k] # 0 =>
         /\ Key(tail[k]) = k /\ st[tail[k]] \notin {"new", "dropped"}
         /\ \A f \in E : Key(f) = k /\ tail[k] < f => st[f] \in {"new", "dropped"}

QueuedBehindPrev ==
    \A e \in E : st[e] = "queued" =>
      /\ prev[e] # 0 /\ prev[e] < e
      /\ Key(prev[e]) = Key(e) /\ st[prev[e]] \notin {"new", "dropped"}
      /\ \A f \in E : Key(f) = Key(e) /\ prev[e] < f /\ f < e => st[f] = "new"

(* The events of a key settle in their order. *)
SettledInOrder ==
    \A e, f \in E :
        e < f /\ Key(e) = Key(f) /\ st[f] \in Settled => st[e] \in Settled \union {"new"}

(* Nothing is outstanding once run() has returned or thrown an error of a    *)
(* handler, and it returns only if there was none.                           *)
EndIsQuiet ==
    /\ main \in {"returned", "threw"} => Outstanding(st) = {}
    /\ main = "returned" => ~stopped
    /\ main = "threw" => stopped

IInv ==
    /\ TypeOK /\ SlotsCounted /\ TakenInOrder /\ FailureIsKnown /\ TailIsLast
    /\ QueuedBehindPrev /\ SettledInOrder /\ KeyOrder /\ EndIsQuiet

(* The part of it that keeps a key's order, and outlives run(): the handlers *)
(* and chained events of a run that has ended go on by it.                   *)
OrderInv ==
    /\ st \in [E -> Statuses] /\ prev \in [E -> E \union {0}] /\ stopped \in BOOLEAN
    /\ \A e \in E : st[e] \in {"failed", "skipped"} => stopped
    /\ QueuedBehindPrev /\ SettledInOrder /\ KeyOrder
==============================================================================
