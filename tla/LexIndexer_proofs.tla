-------------------------- MODULE LexIndexer_proofs --------------------------
(* Proofs about LexIndexer, for every stream, concurrency and keyOf.        *)
EXTENDS LexIndexer, FiniteSetTheorems, TLAPS

(* Facts about the constants every step uses.                               *)
LEMMA EventFacts ==
    /\ Len(Events) \in Nat
    /\ Concurrency \in Nat /\ Concurrency >= 1
    /\ \A e \in E : e \in Nat /\ 1 <= e /\ e <= Len(Events)
    /\ \A e \in E : Key(e) \in Keys
    /\ \A p \in 0..Len(Events) : p # 0 => p \in E
    /\ \A p \in 0..Len(Events) : p < Len(Events) => p + 1 \in E
  <1>1. Len(Events) \in Nat
    BY EventsAssumption
  <1>2. \A e \in E : Key(e) \in Keys
    BY DEF Key, Keys
  <1> QED BY <1>1, <1>2, ConcurrencyAssumption DEF E

(* An event dispatched and not settled.                                     *)
Pending(x) == x \in {"queued", "running"}

(* The count of outstanding events follows the status of one event.         *)
LEMMA OutstandingCount ==
    ASSUME NEW s, NEW t, NEW e \in E, \A g \in E : g # e => t[g] = s[g]
    PROVE  /\ Cardinality(Outstanding(s)) \in Nat
           /\ Cardinality(Outstanding(t)) \in Nat
           /\ Pending(s[e]) /\ ~ Pending(t[e]) =>
                Cardinality(Outstanding(s)) = Cardinality(Outstanding(t)) + 1
           /\ ~ Pending(s[e]) /\ Pending(t[e]) =>
                Cardinality(Outstanding(t)) = Cardinality(Outstanding(s)) + 1
           /\ (Pending(s[e]) <=> Pending(t[e])) =>
                Cardinality(Outstanding(t)) = Cardinality(Outstanding(s))
  <1>1. IsFiniteSet(E)
    BY EventFacts, FS_Interval DEF E
  <1>2. Outstanding(s) \subseteq E /\ Outstanding(t) \subseteq E
    BY DEF Outstanding
  <1>3. /\ IsFiniteSet(Outstanding(s)) /\ IsFiniteSet(Outstanding(t))
        /\ Cardinality(Outstanding(s)) \in Nat /\ Cardinality(Outstanding(t)) \in Nat
    BY <1>1, <1>2, FS_Subset, FS_CardinalityType
  <1>4. /\ Pending(s[e]) <=> e \in Outstanding(s)
        /\ Pending(t[e]) <=> e \in Outstanding(t)
        /\ Outstanding(t) \ {e} = Outstanding(s) \ {e}
    BY DEF Outstanding, Pending
  <1>5. \A S \in {Outstanding(s), Outstanding(t)} :
          Cardinality(S \ {e}) = IF e \in S THEN Cardinality(S) - 1 ELSE Cardinality(S)
    <2>1. ASSUME NEW S, IsFiniteSet(S)
          PROVE  Cardinality(S \ {e})
                   = IF e \in S THEN Cardinality(S) - 1 ELSE Cardinality(S)
      BY <2>1, FS_RemoveElement, Zenon
    <2> QED BY <1>3, <2>1
  <1> DEFINE a == Cardinality(Outstanding(s))
             b == Cardinality(Outstanding(t))
             c == Cardinality(Outstanding(s) \ {e})
  <1>6. /\ c = IF e \in Outstanding(s) THEN a - 1 ELSE a
        /\ c = IF e \in Outstanding(t) THEN b - 1 ELSE b
    BY <1>4, <1>5, Zenon
  <1>7. a \in Nat /\ b \in Nat
    BY <1>3
  <1> HIDE DEF a, b, c
  <1>8. /\ Pending(s[e]) /\ ~ Pending(t[e]) => a = b + 1
        /\ ~ Pending(s[e]) /\ Pending(t[e]) => b = a + 1
        /\ (Pending(s[e]) <=> Pending(t[e])) => b = a
    BY <1>4, <1>6, <1>7
  <1> QED BY <1>7, <1>8, Zenon DEF a, b

(* Before run() the invariant holds.                                        *)
LEMMA InitInv == Init => IInv
  <1> SUFFICES ASSUME Init PROVE IInv
    OBVIOUS
  <1>1. Outstanding(st) = {} /\ Cardinality(Outstanding(st)) = 0
    BY FS_EmptySet DEF Init, Outstanding
  <1>2. /\ main = "pulling" /\ pos = 0 /\ inFlight = 0 /\ firstError = 0
        /\ stopped = FALSE
        /\ \A e \in E : st[e] = "new" /\ prev[e] = 0
        /\ \A k \in Keys : tail[k] = 0
    BY DEF Init
  <1>3. /\ st \in [E -> Statuses] /\ tail \in [Keys -> E \union {0}]
        /\ prev \in [E -> E \union {0}]
    BY DEF Init, Statuses
  <1>4. TypeOK
    <2>1. pos \in 0..Len(Events) /\ inFlight \in 0..Concurrency
      BY <1>2, EventFacts
    <2>2. main \in Main /\ firstError \in E \union {0}
      BY <1>2 DEF Main
    <2>3. stopped \in BOOLEAN
      BY <1>2, Zenon
    <2> QED BY <2>1, <2>2, <2>3, <1>3 DEF TypeOK
  <1> QED
    BY <1>1, <1>2, <1>4
       DEF IInv, SlotsCounted, TakenInOrder, FailureIsKnown, TailIsLast,
           QueuedBehindPrev, SettledInOrder, KeyOrder, EndIsQuiet, Started, Settled

(* The part of the invariant that keeps a key's order. *)
LEMMA OrderOfInv == IInv => OrderInv
  BY DEF IInv, TypeOK, FailureIsKnown, OrderInv

(* When a queued event's turn comes, or while an event runs, the earlier    *)
(* events of its key have settled; in a run that did not stop, they         *)
(* succeeded.                                                               *)
LEMMA Turn ==
    ASSUME OrderInv, NEW e \in E, Pending(st[e]),
           st[e] = "queued" => st[prev[e]] \in Settled
    PROVE  \A g \in E : g < e /\ Key(g) = Key(e) =>
             /\ st[g] \in Settled \union {"new"}
             /\ st[e] = "running" \/ ~ stopped => st[g] \in {"ok", "new"}
  <1> SUFFICES ASSUME NEW g \in E, g < e, Key(g) = Key(e), st[g] # "new"
               PROVE  /\ st[g] \in Settled
                      /\ st[e] = "running" \/ ~ stopped => st[g] = "ok"
    BY DEF Settled
  <1>1. CASE st[e] = "running"
    BY <1>1 DEF OrderInv, KeyOrder, Started, Settled
  <1>2. CASE st[e] = "queued"
    <2>1. /\ prev[e] \in E /\ prev[e] < e /\ Key(prev[e]) = Key(e)
          /\ \A f \in E : Key(f) = Key(e) /\ prev[e] < f /\ f < e => st[f] = "new"
      BY <1>2 DEF OrderInv, QueuedBehindPrev
    <2>2. g = prev[e] \/ g < prev[e]
      <3>1. g \in Nat /\ prev[e] \in Nat
        BY <2>1, EventFacts
      <3> QED BY <2>1, <3>1
    <2>3. st[g] \in Settled
      <3>1. st[prev[e]] \in Settled
        BY <1>2
      <3>2. g < prev[e] => st[g] \in Settled \union {"new"}
        BY <2>1, <3>1 DEF OrderInv, SettledInOrder
      <3> QED BY <2>2, <3>1, <3>2
    <2>4. ~ stopped => st[g] = "ok"
      BY <1>2, <2>1, <2>3 DEF OrderInv, Settled
    <2> QED BY <1>2, <2>3, <2>4
  <1> QED BY <1>1, <1>2 DEF Pending

(* An outstanding event is called in its turn, settles or is skipped: its    *)
(* key stays in order, in a run that goes on and in one that has ended.      *)
LEMMA OrderStep ==
    ASSUME OrderInv, NEW e \in E, Pending(st[e]),
           st[e] = "queued" => st[prev[e]] \in Settled,
           NEW how \in Settled \union {"running"},
           how # "skipped" => st[e] = "running" \/ ~ stopped,
           st' = [st EXCEPT ![e] = how], prev' = prev,
           stopped' \in BOOLEAN, stopped => stopped',
           how \in {"failed", "skipped"} => stopped'
    PROVE  OrderInv'
  <1>1. /\ how \in Statuses /\ st' \in [E -> Statuses]
        /\ \A g \in E : st'[g] = IF g = e THEN how ELSE st[g]
    BY DEF OrderInv, Statuses
  <1>2. \A g \in E : st'[g] \in {"failed", "skipped"} => stopped'
    BY <1>1 DEF OrderInv
  <1>3. QueuedBehindPrev'
    BY <1>1 DEF OrderInv, QueuedBehindPrev, Pending, Settled
  <1>4. SettledInOrder'
    <2>1. how = "running" => ~ (st[e] \in Settled)
      BY DEF Pending, Settled
    <2> QED BY <1>1, <2>1, Turn DEF OrderInv, SettledInOrder, Settled, Pending
  <1>5. KeyOrder'
    BY <1>1, Turn DEF OrderInv, KeyOrder, Started, Settled, Pending
  <1>6. prev' \in [E -> E \union {0}]
    BY DEF OrderInv
  <1> QED BY <1>1, <1>2, <1>3, <1>4, <1>5, <1>6 DEF OrderInv

(* What a step of Work(e) does to the statuses and to `stopped`.            *)
LEMMA WorkFacts ==
    ASSUME NEW e \in E, Work(e)
    PROVE  /\ Pending(st[e]) /\ (st[e] = "queued" => st[prev[e]] \in Settled)
           /\ prev' = prev /\ tail' = tail /\ pos' = pos
           /\ main' \in {main, "granted"} /\ (main' # main => main = "waiting")
           /\ \E how \in Settled \union {"running"} :
                /\ st' = [st EXCEPT ![e] = how]
                /\ how # "skipped" => st[e] = "running" \/ ~ stopped
                /\ stopped' = stopped \/ stopped' = (stopped \/ how = "failed")
                /\ how = "failed" => stopped' = (stopped \/ how = "failed")
                /\ how = "skipped" => stopped
  <1>1. ASSUME NEW how, Settle(e, how, inFlight, main)
        PROVE  /\ st' = [st EXCEPT ![e] = how]
               /\ stopped' = (stopped \/ how = "failed")
               /\ main' \in {main, "granted"} /\ (main' # main => main = "waiting")
    BY <1>1 DEF Settle
  <1>2. CASE HandlerSettles(e)
    <2>1. PICK how \in {"ok", "failed"} : Settle(e, how, inFlight, main)
      BY <1>2 DEF HandlerSettles
    <2>2. st[e] = "running" /\ UNCHANGED <<pos, tail, prev>>
      BY <1>2 DEF HandlerSettles
    <2>3. how \in Settled \union {"running"} /\ how # "skipped"
      BY DEF Settled
    <2> QED BY <1>1, <2>1, <2>2, <2>3 DEF Pending
  <1>3. CASE RunQueued(e)
    <2>1. /\ st[e] = "queued" /\ st[prev[e]] \in Settled /\ Pending(st[e])
          /\ UNCHANGED <<pos, tail, prev>>
      BY <1>3 DEF RunQueued, Pending
    <2>2. CASE stopped
      <3>1. Settle(e, "skipped", inFlight, main) /\ "skipped" \in Settled \union {"running"}
        BY <1>3, <2>2 DEF RunQueued, Settled
      <3> QED BY <1>1, <2>1, <2>2, <3>1
    <2>3. CASE ~ stopped
      <3>1. PICK how \in Outcomes(e) :
              IF how = "running"
              THEN /\ st' = [st EXCEPT ![e] = "running"]
                   /\ inFlight' = inFlight
                   /\ main' = main
                   /\ UNCHANGED <<stopped, firstError>>
              ELSE Settle(e, how, inFlight, main)
        BY <1>3, <2>3 DEF RunQueued, Call
      <3>2. how \in Settled \union {"running"} /\ how # "skipped"
        BY DEF Settled, Outcomes
      <3>3. CASE how = "running"
        <4>1. /\ st' = [st EXCEPT ![e] = "running"] /\ main' = main
              /\ stopped' = stopped
          BY <3>1, <3>3
        <4> QED BY <2>1, <2>3, <3>2, <3>3, <4>1
      <3>4. CASE how # "running"
        <4>1. Settle(e, how, inFlight, main)
          BY <3>1, <3>4
        <4> QED BY <1>1, <2>1, <2>3, <3>2, <4>1
      <3> QED BY <3>3, <3>4
    <2> QED BY <2>2, <2>3
  <1> QED BY <1>2, <1>3 DEF Work

(* The handlers and chained events of a run keep the order of its keys.     *)
LEMMA WorkKeepsOrder ==
    ASSUME OrderInv, NEW e \in E, Work(e)
    PROVE  OrderInv' /\ (stopped => stopped')
  <1>1. PICK how \in Settled \union {"running"} :
          /\ st' = [st EXCEPT ![e] = how]
          /\ how # "skipped" => st[e] = "running" \/ ~ stopped
          /\ stopped' = stopped \/ stopped' = (stopped \/ how = "failed")
          /\ how = "failed" => stopped' = (stopped \/ how = "failed")
          /\ how = "skipped" => stopped
    BY WorkFacts
  <1>2. stopped \in BOOLEAN
    BY DEF OrderInv
  <1>3. stopped' \in BOOLEAN /\ (stopped => stopped')
    <2>1. CASE stopped' = stopped
      BY <1>2, <2>1, Zenon
    <2>2. CASE stopped' = (stopped \/ how = "failed")
      BY <2>2, Zenon
    <2> QED BY <1>1, <2>1, <2>2
  <1>4. how \in {"failed", "skipped"} => stopped'
    <2>1. how = "failed" => stopped'
      BY <1>1, Zenon
    <2>2. how = "skipped" => stopped'
      BY <1>1, <1>3, Zenon
    <2> QED BY <2>1, <2>2
  <1>5. /\ Pending(st[e]) /\ (st[e] = "queued" => st[prev[e]] \in Settled)
        /\ prev' = prev
    BY WorkFacts
  <1> QED BY <1>1, <1>3, <1>4, <1>5, OrderStep

(* An outstanding event settles: the step of HandlerSettles, and of         *)
(* RunQueued when the handler returns at once or the run has stopped.       *)
LEMMA SettleStep ==
    ASSUME IInv, NEW e \in E, Pending(st[e]), NEW how \in Settled,
           st[e] = "queued" => st[prev[e]] \in Settled,
           how = "skipped" => stopped,
           how # "skipped" => st[e] = "running" \/ ~ stopped,
           Settle(e, how, inFlight, main), UNCHANGED <<pos, tail, prev>>
    PROVE  IInv'
  <1>1. /\ st' = [st EXCEPT ![e] = how]
        /\ firstError' = (IF how = "failed" /\ firstError = 0 THEN e ELSE firstError)
        /\ inFlight' = inFlight - 1
        /\ main' = IF main = "waiting" THEN "granted" ELSE main
        /\ pos' = pos /\ tail' = tail /\ prev' = prev
    BY DEF Settle
  <1>s. stopped' \in BOOLEAN /\ (stopped' <=> stopped \/ how = "failed")
    BY Zenon DEF Settle
  <1>2. /\ st \in [E -> Statuses] /\ how \in Statuses /\ st' \in [E -> Statuses]
        /\ \A g \in E : st'[g] = IF g = e THEN how ELSE st[g]
    BY <1>1 DEF IInv, TypeOK, Statuses
  <1>3. /\ Cardinality(Outstanding(st)) = Cardinality(Outstanding(st')) + 1
        /\ Cardinality(Outstanding(st')) \in Nat
    <2>1. ~ Pending(how)
      BY DEF Pending, Settled
    <2> QED BY <1>2, <2>1, OutstandingCount
  <1>4. /\ inFlight \in 1..Concurrency /\ inFlight' \in 0..Concurrency
        /\ inFlight' < Concurrency
    BY <1>1, <1>3, EventFacts DEF IInv, TypeOK, SlotsCounted
  <1>5. TypeOK'
    <2>1. main' \in Main /\ firstError' \in E \union {0}
      BY <1>1 DEF IInv, TypeOK, Main
    <2> QED BY <1>1, <1>2, <1>4, <1>s, <2>1 DEF IInv, TypeOK
  <1>6. SlotsCounted'
    <2>1. main = "aborted" <=> main' = "aborted"
      BY <1>1
    <2>2. \/ inFlight' = Cardinality(Outstanding(st'))
          \/ /\ KeyOfThrows /\ main' = "aborted"
             /\ inFlight' = Cardinality(Outstanding(st')) + 1
      BY <1>1, <1>3, <1>4, <2>1 DEF IInv, SlotsCounted
    <2> QED BY <2>2 DEF SlotsCounted, Outstanding
  <1>7. TakenInOrder'
    BY <1>1, <1>2, <1>4 DEF IInv, TakenInOrder, Pending
  <1>8. FailureIsKnown'
    <2>1. stopped' <=> firstError' # 0
      BY <1>1, <1>s, EventFacts DEF IInv, TypeOK, FailureIsKnown
    <2>2. firstError' # 0 => st'[firstError'] = "failed"
      BY <1>1, <1>2 DEF IInv, TypeOK, FailureIsKnown, Pending
    <2>3. \A g \in E :
            /\ st'[g] \in {"failed", "skipped"} => stopped'
            /\ st'[g] = "dropped" => /\ stopped' \/ main' = "aborted"
                                     /\ main' \notin {"pulling", "waiting", "granted"}
      BY <1>1, <1>2, <1>s DEF IInv, TypeOK, FailureIsKnown, Settled
    <2> QED BY <2>1, <2>2, <2>3 DEF FailureIsKnown
  <1>9. TailIsLast'
    BY <1>1, <1>2 DEF IInv, TypeOK, TailIsLast, Pending, Settled, Outstanding
  <1>10. QueuedBehindPrev'
    BY <1>1, <1>2 DEF IInv, TypeOK, QueuedBehindPrev, Pending, Settled
  <1>11. SettledInOrder'
    BY <1>1, <1>2, OrderOfInv, Turn DEF IInv, SettledInOrder, Settled, Pending
  <1>12. KeyOrder'
    BY <1>1, <1>2, OrderOfInv, Turn DEF IInv, KeyOrder, Started, Settled, Pending
  <1>13. EndIsQuiet'
    BY <1>1, <1>2, <1>s DEF IInv, EndIsQuiet, Outstanding, Pending
  <1> QED
    BY <1>5, <1>6, <1>7, <1>8, <1>9, <1>10, <1>11, <1>12, <1>13 DEF IInv

(* A queued event's handler starts and returns a promise. *)
LEMMA StartStep ==
    ASSUME IInv, NEW e \in E, st[e] = "queued", st[prev[e]] \in Settled, ~ stopped,
           st' = [st EXCEPT ![e] = "running"],
           UNCHANGED <<main, pos, inFlight, stopped, firstError, tail, prev>>
    PROVE  IInv'
  <1>1. /\ main' = main /\ pos' = pos /\ inFlight' = inFlight
        /\ firstError' = firstError /\ tail' = tail /\ prev' = prev
    OBVIOUS
  <1>s. stopped' = stopped
    OBVIOUS
  <1>2. /\ st \in [E -> Statuses] /\ st' \in [E -> Statuses]
        /\ \A g \in E : st'[g] = IF g = e THEN "running" ELSE st[g]
    BY DEF IInv, TypeOK, Statuses
  <1>3. Cardinality(Outstanding(st')) = Cardinality(Outstanding(st))
    <2>1. Pending(st[e]) /\ Pending(st'[e])
      BY <1>2 DEF Pending
    <2> QED BY <1>2, <2>1, OutstandingCount
  <1>4. TypeOK'
    BY <1>1, <1>s, <1>2 DEF IInv, TypeOK
  <1>5. SlotsCounted'
    <2>1. \/ inFlight' = Cardinality(Outstanding(st'))
          \/ /\ KeyOfThrows /\ main' = "aborted"
             /\ inFlight' = Cardinality(Outstanding(st')) + 1
      BY <1>1, <1>3 DEF IInv, SlotsCounted
    <2> QED BY <2>1 DEF SlotsCounted, Outstanding
  <1>6. TakenInOrder'
    BY <1>1, <1>2 DEF IInv, TakenInOrder
  <1>7. FailureIsKnown'
    BY <1>1, <1>s, <1>2 DEF IInv, TypeOK, FailureIsKnown
  <1>8. TailIsLast'
    BY <1>1, <1>2 DEF IInv, TypeOK, TailIsLast, Outstanding
  <1>9. QueuedBehindPrev'
    BY <1>1, <1>2 DEF IInv, TypeOK, QueuedBehindPrev
  <1>10. SettledInOrder'
    BY <1>1, <1>2 DEF IInv, SettledInOrder, Settled
  <1>11. KeyOrder'
    <2>1. \A g \in E : g < e /\ Key(g) = Key(e) => st[g] \in {"ok", "new"}
      BY OrderOfInv, Turn DEF Pending
    <2> QED BY <1>1, <1>2, <2>1 DEF IInv, KeyOrder, Started
  <1>12. EndIsQuiet'
    BY <1>1, <1>s, <1>2 DEF IInv, EndIsQuiet, Outstanding
  <1> QED
    BY <1>4, <1>5, <1>6, <1>7, <1>8, <1>9, <1>10, <1>11, <1>12 DEF IInv

(* The event run() is about to deal with: taken, untouched, none after it   *)
(* taken.                                                                   *)
Current(e) ==
    /\ e \in E /\ st[e] = "new" /\ pos' = e /\ pos <= e
    /\ \A f \in E : e < f => st[f] = "new"
    /\ main \in {"pulling", "granted"}

(* In a run that did not stop, a key without a tail has no event behind     *)
(* which to wait: what it dispatched before has succeeded.                  *)
LEMMA FreeKey ==
    ASSUME IInv, NEW e, Current(e), ~ stopped, tail[Key(e)] = 0
    PROVE  \A g \in E : Key(g) = Key(e) => st[g] \in {"ok", "new"}
  BY DEF IInv, TypeOK, TailIsLast, FailureIsKnown, Current, Outstanding, Statuses, Settled

(* The slot counts of a dispatch whose event becomes outstanding, or is     *)
(* settled at once.                                                         *)
LEMMA TakenSlot ==
    ASSUME IInv, NEW e, Current(e), st' \in [E -> Statuses],
           \A f \in E : f # e => st'[f] = st[f]
    PROVE  /\ inFlight = Cardinality(Outstanding(st))
           /\ inFlight < Concurrency => inFlight + 1 \in 1..Concurrency
           /\ Pending(st'[e]) => inFlight + 1 = Cardinality(Outstanding(st'))
           /\ ~ Pending(st'[e]) => inFlight = Cardinality(Outstanding(st'))
  <1>1. /\ e \in E /\ ~ Pending(st[e]) /\ main # "aborted"
        /\ inFlight \in Nat
    BY DEF Current, Pending, IInv, TypeOK
  <1>2. inFlight = Cardinality(Outstanding(st))
    BY <1>1 DEF IInv, SlotsCounted
  <1>3. inFlight \in Nat /\ (inFlight < Concurrency => inFlight + 1 \in 1..Concurrency)
    BY <1>1, EventFacts
  <1>4. /\ Pending(st'[e]) =>
             Cardinality(Outstanding(st')) = Cardinality(Outstanding(st)) + 1
        /\ ~ Pending(st'[e]) => Cardinality(Outstanding(st')) = Cardinality(Outstanding(st))
    BY <1>1, OutstandingCount
  <1> QED BY <1>2, <1>3, <1>4

(* Dispatch chains the event behind its key's tail. *)
LEMMA ChainStep ==
    ASSUME IInv, NEW e, Current(e), ~ stopped, tail[Key(e)] # 0,
           inFlight < Concurrency, Dispatch(e, inFlight + 1)
    PROVE  IInv'
  <1>1. /\ main' = "pulling" /\ pos' = e /\ inFlight' = inFlight + 1
        /\ firstError' = firstError /\ st' = [st EXCEPT ![e] = "queued"]
        /\ tail' = [tail EXCEPT ![Key(e)] = e]
        /\ prev' = [prev EXCEPT ![e] = tail[Key(e)]]
        /\ e \in E /\ e \in Nat /\ Key(e) \in Keys
    BY EventFacts DEF Dispatch, Current
  <1>s. stopped' = stopped
    BY DEF Dispatch
  <1>2. /\ st \in [E -> Statuses] /\ st' \in [E -> Statuses]
        /\ \A g \in E : st'[g] = IF g = e THEN "queued" ELSE st[g]
    BY <1>1 DEF IInv, TypeOK, Statuses
  <1>3. /\ tail \in [Keys -> E \union {0}] /\ tail' \in [Keys -> E \union {0}]
        /\ \A k \in Keys : tail'[k] = IF k = Key(e) THEN e ELSE tail[k]
        /\ tail[Key(e)] \in E
    BY <1>1 DEF IInv, TypeOK
  <1>4. /\ prev' \in [E -> E \union {0}]
        /\ \A g \in E : prev'[g] = IF g = e THEN tail[Key(e)] ELSE prev[g]
    BY <1>1, <1>3 DEF IInv, TypeOK
  <1>5. inFlight' \in 0..Concurrency /\ inFlight' = Cardinality(Outstanding(st'))
    <2>1. Pending(st'[e])
      BY <1>1, <1>2 DEF Pending
    <2>2. \A f \in E : f # e => st'[f] = st[f]
      BY <1>2
    <2>3. /\ inFlight + 1 \in 1..Concurrency
          /\ inFlight + 1 = Cardinality(Outstanding(st'))
      BY <1>2, <2>1, <2>2, TakenSlot
    <2> QED BY <1>1, <2>3, EventFacts
  <1>6. TypeOK'
    BY <1>1, <1>s, <1>2, <1>3, <1>4, <1>5, EventFacts DEF IInv, TypeOK, Main
  <1>7. SlotsCounted'
    BY <1>5 DEF SlotsCounted, Outstanding
  <1>8. TakenInOrder'
    BY <1>1, <1>2, EventFacts DEF TakenInOrder, Current
  <1>9. FailureIsKnown'
    BY <1>1, <1>s, <1>2 DEF IInv, TypeOK, FailureIsKnown, Current
  <1>10. TailIsLast'
    BY <1>1, <1>2, <1>3, EventFacts DEF IInv, TypeOK, TailIsLast, Outstanding, Current
  <1>11. QueuedBehindPrev'
    <2>1. /\ tail[Key(e)] < e /\ Key(tail[Key(e)]) = Key(e)
          /\ st[tail[Key(e)]] \notin {"new", "dropped"}
          /\ \A f \in E : Key(f) = Key(e) /\ tail[Key(e)] < f => st[f] = "new"
      <3>1. /\ Key(tail[Key(e)]) = Key(e)
            /\ st[tail[Key(e)]] \notin {"new", "dropped"}
            /\ \A f \in E : Key(f) = Key(e) /\ tail[Key(e)] < f => st[f] \in {"new", "dropped"}
        BY <1>1, <1>3 DEF IInv, TailIsLast
      <3>2. \A f \in E : st[f] # "dropped"
        BY DEF IInv, FailureIsKnown, Current
      <3>3. tail[Key(e)] < e
        <4>1. tail[Key(e)] \in Nat /\ e \in Nat
          BY <1>1, <1>3, EventFacts
        <4> QED BY <3>1, <1>3, <4>1 DEF Current
      <3> QED BY <3>1, <3>2, <3>3
    <2>2. ASSUME NEW g \in E, g # e, st'[g] = "queued"
          PROVE  /\ prev'[g] # 0 /\ prev'[g] < g /\ Key(prev'[g]) = Key(g)
                 /\ st'[prev'[g]] \notin {"new", "dropped"}
                 /\ \A f \in E : Key(f) = Key(g) /\ prev'[g] < f /\ f < g => st'[f] = "new"
      <3>1. st[g] = "queued" /\ prev'[g] = prev[g] /\ prev[g] \in E
        BY <1>2, <1>4, <2>2 DEF IInv, TypeOK, QueuedBehindPrev
      <3>2. g < e
        BY <1>1, <2>2, <3>1, EventFacts DEF Current
      <3>3. \A f \in E : f < g => f # e
        BY <1>1, <3>2, EventFacts
      <3> QED BY <1>1, <1>2, <3>1, <3>3 DEF IInv, QueuedBehindPrev, Current
    <2>3. /\ prev'[e] = tail[Key(e)] /\ tail[Key(e)] # 0
          /\ st'[tail[Key(e)]] = st[tail[Key(e)]]
          /\ \A f \in E : f < e => st'[f] = st[f]
      BY <1>1, <1>2, <1>3, <1>4, <2>1, EventFacts
    <2> QED BY <2>1, <2>2, <2>3 DEF QueuedBehindPrev
  <1>12. SettledInOrder'
    BY <1>1, <1>2 DEF IInv, SettledInOrder, Settled, Current
  <1>13. KeyOrder'
    BY <1>1, <1>2 DEF IInv, KeyOrder, Started, Current
  <1>14. EndIsQuiet'
    BY <1>1 DEF EndIsQuiet
  <1> QED
    BY <1>6, <1>7, <1>8, <1>9, <1>10, <1>11, <1>12, <1>13, <1>14 DEF IInv

(* Dispatch calls the handler of the first event its key has to deal with:  *)
(* what the three outcomes have in common.                                  *)
LEMMA CallFacts ==
    ASSUME IInv, NEW e, Current(e), ~ stopped, tail[Key(e)] = 0,
           inFlight < Concurrency, Dispatch(e, inFlight + 1)
    PROVE  /\ e \in E /\ e \in Nat /\ Key(e) \in Keys
           /\ main' = "pulling" /\ pos' = e /\ prev' = prev
           /\ st \in [E -> Statuses] /\ st' \in [E -> Statuses]
           /\ st'[e] \in {"ok", "failed", "running"}
           /\ \A g \in E : g # e => st'[g] = st[g]
           /\ tail' = (IF st'[e] = "running" THEN [tail EXCEPT ![Key(e)] = e] ELSE tail)
           /\ firstError' = (IF st'[e] = "failed" THEN e ELSE 0)
           /\ stopped' \in BOOLEAN /\ (stopped' <=> st'[e] = "failed")
           /\ inFlight' = (IF st'[e] = "running" THEN inFlight + 1 ELSE inFlight)
  <1>1. /\ e \in E /\ e \in Nat /\ Key(e) \in Keys /\ pos' = e
        /\ st \in [E -> Statuses] /\ inFlight \in Nat
        /\ firstError = 0 /\ stopped \in BOOLEAN /\ ~ stopped
    BY EventFacts DEF Current, IInv, TypeOK, FailureIsKnown
  <1>2. /\ Call(e, inFlight + 1, "pulling") /\ prev' = prev
        /\ tail' = (IF st'[e] = "running" THEN [tail EXCEPT ![Key(e)] = e] ELSE tail)
    BY DEF Dispatch
  <1>3. PICK how \in Outcomes(e) :
          IF how = "running"
          THEN /\ st' = [st EXCEPT ![e] = "running"]
               /\ inFlight' = inFlight + 1
               /\ main' = "pulling"
               /\ UNCHANGED <<stopped, firstError>>
          ELSE Settle(e, how, inFlight + 1, "pulling")
    BY <1>2 DEF Call
  <1>4. how \in {"ok", "failed", "running"}
    BY DEF Outcomes
  <1>5. CASE how = "running"
    <2>1. st' \in [E -> Statuses] /\ st'[e] = "running" /\ \A g \in E : g # e => st'[g] = st[g]
      BY <1>1, <1>3, <1>5 DEF Statuses
    <2>2. stopped' = stopped /\ firstError' = 0 /\ inFlight' = inFlight + 1 /\ main' = "pulling"
      BY <1>1, <1>3, <1>5
    <2>3. stopped' \in BOOLEAN /\ (stopped' <=> st'[e] = "failed")
      <3>1. "running" # "failed"
        OBVIOUS
      <3> QED BY <1>1, <2>1, <2>2, <3>1, Zenon
    <2> QED BY <1>1, <1>2, <2>1, <2>2, <2>3
  <1>6. CASE how \in {"ok", "failed"}
    <2>1. Settle(e, how, inFlight + 1, "pulling")
      BY <1>3, <1>6
    <2>2. st' \in [E -> Statuses] /\ st'[e] = how /\ \A g \in E : g # e => st'[g] = st[g]
      BY <1>1, <1>6, <2>1 DEF Statuses, Settled, Settle
    <2>3. /\ firstError' = (IF how = "failed" THEN e ELSE 0)
          /\ inFlight' = inFlight /\ main' = "pulling"
      BY <1>1, <2>1 DEF Settle
    <2>4. stopped' \in BOOLEAN /\ (stopped' <=> st'[e] = "failed")
      BY <1>1, <2>1, <2>2, Zenon DEF Settle
    <2> QED BY <1>1, <1>2, <1>6, <2>2, <2>3, <2>4
  <1> QED BY <1>4, <1>5, <1>6

(* The fast path: no event of the key is before it, so its handler is called.*)
LEMMA CallStep ==
    ASSUME IInv, NEW e, Current(e), ~ stopped, tail[Key(e)] = 0,
           inFlight < Concurrency, Dispatch(e, inFlight + 1)
    PROVE  IInv'
  <1>1. /\ e \in E /\ e \in Nat /\ Key(e) \in Keys
        /\ main' = "pulling" /\ pos' = e /\ prev' = prev
        /\ st \in [E -> Statuses] /\ st' \in [E -> Statuses]
        /\ st'[e] \in {"ok", "failed", "running"}
        /\ \A g \in E : g # e => st'[g] = st[g]
        /\ firstError' = (IF st'[e] = "failed" THEN e ELSE 0)
        /\ stopped' \in BOOLEAN /\ (stopped' <=> st'[e] = "failed")
    BY CallFacts
  <1>2. /\ tail \in [Keys -> E \union {0}] /\ tail' \in [Keys -> E \union {0}]
        /\ \A k \in Keys : k # Key(e) => tail'[k] = tail[k]
        /\ st'[e] = "running" => tail'[Key(e)] = e
        /\ st'[e] # "running" => tail'[Key(e)] = 0
    <2>1. tail' = (IF st'[e] = "running" THEN [tail EXCEPT ![Key(e)] = e] ELSE tail)
      BY CallFacts
    <2> QED BY <1>1, <2>1 DEF IInv, TypeOK
  <1>3. inFlight' \in 0..Concurrency /\ inFlight' = Cardinality(Outstanding(st'))
    <2>1. Pending(st'[e]) <=> st'[e] = "running"
      BY <1>1 DEF Pending
    <2>2. /\ inFlight + 1 \in 1..Concurrency /\ inFlight \in Nat
          /\ st'[e] = "running" => inFlight + 1 = Cardinality(Outstanding(st'))
          /\ st'[e] # "running" => inFlight = Cardinality(Outstanding(st'))
      BY <1>1, <2>1, TakenSlot DEF IInv, TypeOK
    <2>3. inFlight' = (IF st'[e] = "running" THEN inFlight + 1 ELSE inFlight)
      BY CallFacts
    <2> QED BY <2>2, <2>3, EventFacts
  <1>4. \A g \in E : Key(g) = Key(e) => st[g] \in {"ok", "new"}
    BY FreeKey
  <1>5. \A f \in E : e < f => st[f] = "new"
    BY DEF Current
  <1>6. TypeOK'
    BY <1>1, <1>2, <1>3, EventFacts DEF IInv, TypeOK, Main
  <1>7. SlotsCounted'
    BY <1>3 DEF SlotsCounted, Outstanding
  <1>8. TakenInOrder'
    BY <1>1, <1>5, EventFacts DEF TakenInOrder
  <1>9. FailureIsKnown'
    <2>1. \A g \in E : st[g] \notin {"failed", "skipped", "dropped"}
      BY DEF IInv, FailureIsKnown, Current
    <2>2. stopped' <=> firstError' # 0
      BY <1>1, EventFacts
    <2>3. \A g \in E : st'[g] \in {"failed", "skipped"} => stopped'
      BY <1>1, <2>1
    <2> QED BY <1>1, <2>1, <2>2, <2>3 DEF FailureIsKnown
  <1>10. TailIsLast'
    <2>1. ASSUME NEW g \in Outstanding(st')
          PROVE  tail'[Key(g)] # 0
      <3>1. g \in E /\ Key(g) \in Keys /\ st'[g] \in {"queued", "running"}
        BY EventFacts DEF Outstanding
      <3>2. CASE g = e
        BY <1>1, <1>2, <3>1, <3>2, EventFacts
      <3>3. CASE g # e
        BY <1>1, <1>2, <1>4, <3>1, <3>3 DEF IInv, TailIsLast, Outstanding
      <3> QED BY <3>2, <3>3
    <2>2. ASSUME NEW k \in Keys, tail'[k] # 0
          PROVE  /\ Key(tail'[k]) = k /\ st'[tail'[k]] \notin {"new", "dropped"}
                 /\ \A f \in E : Key(f) = k /\ tail'[k] < f => st'[f] \in {"new", "dropped"}
      <3>1. CASE k = Key(e)
        BY <1>1, <1>2, <1>5, <2>2, <3>1, EventFacts
      <3>2. CASE k # Key(e)
        <4>1. tail'[k] = tail[k] /\ tail[k] \in E
          BY <1>2, <2>2, <3>2
        <4>2. /\ Key(tail[k]) = k /\ st[tail[k]] \notin {"new", "dropped"}
              /\ \A f \in E : Key(f) = k /\ tail[k] < f => st[f] \in {"new", "dropped"}
          BY <2>2, <4>1 DEF IInv, TailIsLast
        <4>3. tail[k] # e /\ \A f \in E : Key(f) = k => f # e
          BY <3>2, <4>2
        <4> QED BY <1>1, <4>1, <4>2, <4>3
      <3> QED BY <3>1, <3>2
    <2> QED BY <2>1, <2>2 DEF TailIsLast, Outstanding
  <1>11. QueuedBehindPrev'
    <2> SUFFICES ASSUME NEW g \in E, st'[g] = "queued"
                 PROVE  /\ prev[g] # 0 /\ prev[g] < g /\ Key(prev[g]) = Key(g)
                        /\ st'[prev[g]] \notin {"new", "dropped"}
                        /\ \A f \in E :
                             Key(f) = Key(g) /\ prev[g] < f /\ f < g => st'[f] = "new"
      BY <1>1 DEF QueuedBehindPrev
    <2>1. g # e /\ st[g] = "queued" /\ Key(g) # Key(e)
      BY <1>1, <1>4
    <2> QED BY <1>1, <2>1 DEF IInv, TypeOK, QueuedBehindPrev
  <1>12. SettledInOrder'
    BY <1>1, <1>4, <1>5 DEF IInv, SettledInOrder, Settled
  <1>13. KeyOrder'
    BY <1>1, <1>4, <1>5 DEF IInv, KeyOrder, Started
  <1>14. EndIsQuiet'
    BY <1>1 DEF EndIsQuiet
  <1> QED
    BY <1>6, <1>7, <1>8, <1>9, <1>10, <1>11, <1>12, <1>13, <1>14 DEF IInv

(* Dispatching an event that has its slot: at once, or behind its key's tail. *)
LEMMA DispatchStep ==
    ASSUME IInv, NEW e, Current(e), ~ stopped, inFlight < Concurrency,
           Dispatch(e, inFlight + 1)
    PROVE  IInv'
  BY CallStep, ChainStep

(* run() gives up the event it holds, because the run stopped or because    *)
(* keyOf threw (then its slot is counted and never given back).             *)
LEMMA DropStep ==
    ASSUME IInv, NEW e, Current(e),
           \/ stopped /\ BreakOut(e)
           \/ inFlight < Concurrency /\ KeyThrows(e, inFlight + 1)
    PROVE  IInv'
  <1>1. /\ e \in E /\ e \in Nat /\ pos' = e /\ st[e] = "new"
        /\ \A f \in E : e < f => st[f] = "new"
        /\ main' \in {"settling", "aborted"}
        /\ firstError' = firstError /\ tail' = tail /\ prev' = prev
        /\ st \in [E -> Statuses] /\ st' \in [E -> Statuses]
        /\ \A g \in E : st'[g] = IF g = e THEN "dropped" ELSE st[g]
    BY EventFacts DEF Current, BreakOut, KeyThrows, IInv, TypeOK, Statuses
  <1>2. stopped' = stopped /\ (stopped \/ main' = "aborted")
    BY DEF BreakOut, KeyThrows
  <1>3. inFlight' \in 0..Concurrency /\ SlotsCounted'
    <2>1. /\ inFlight = Cardinality(Outstanding(st'))
          /\ inFlight \in 0..Concurrency
          /\ inFlight < Concurrency => inFlight + 1 \in 1..Concurrency
      <3>1. ~ Pending(st'[e]) /\ \A g \in E : g # e => st'[g] = st[g]
        BY <1>1 DEF Pending
      <3> QED BY <1>1, <3>1, TakenSlot DEF IInv, TypeOK
    <2>2. \/ inFlight' = inFlight
          \/ /\ KeyOfThrows /\ main' = "aborted"
             /\ inFlight < Concurrency /\ inFlight' = inFlight + 1
      BY DEF BreakOut, KeyThrows
    <2>3. inFlight' \in 0..Concurrency
      BY <2>1, <2>2, EventFacts
    <2>4. \/ inFlight' = Cardinality(Outstanding(st'))
          \/ /\ KeyOfThrows /\ main' = "aborted"
             /\ inFlight' = Cardinality(Outstanding(st')) + 1
      BY <2>1, <2>2
    <2> QED BY <2>3, <2>4 DEF SlotsCounted, Outstanding
  <1>4. TypeOK'
    BY <1>1, <1>2, <1>3, EventFacts DEF IInv, TypeOK, Main
  <1>5. TakenInOrder'
    BY <1>1 DEF TakenInOrder
  <1>6. FailureIsKnown'
    BY <1>1, <1>2 DEF IInv, TypeOK, FailureIsKnown
  <1>7. TailIsLast'
    BY <1>1 DEF IInv, TypeOK, TailIsLast, Outstanding
  <1>8. QueuedBehindPrev'
    <2> SUFFICES ASSUME NEW g \in E, st'[g] = "queued"
                 PROVE  /\ prev[g] # 0 /\ prev[g] < g /\ Key(prev[g]) = Key(g)
                        /\ st'[prev[g]] \notin {"new", "dropped"}
                        /\ \A f \in E :
                             Key(f) = Key(g) /\ prev[g] < f /\ f < g => st'[f] = "new"
      BY <1>1 DEF QueuedBehindPrev
    <2>1. /\ g # e /\ st[g] = "queued" /\ prev[g] \in E /\ g < e
          /\ g \in Nat /\ \A f \in E : f \in Nat
      <3>1. g # e /\ st[g] = "queued" /\ g \in Nat
        BY <1>1, EventFacts
      <3> QED BY <1>1, <3>1, EventFacts DEF IInv, TypeOK, QueuedBehindPrev
    <2>2. \A f \in E : f < g => st'[f] = st[f]
      BY <1>1, <2>1
    <2> QED BY <1>1, <2>1, <2>2 DEF IInv, QueuedBehindPrev
  <1>9. SettledInOrder'
    BY <1>1 DEF IInv, SettledInOrder, Settled
  <1>10. KeyOrder'
    BY <1>1 DEF IInv, KeyOrder, Started
  <1>11. EndIsQuiet'
    BY <1>1 DEF EndIsQuiet
  <1> QED
    BY <1>3, <1>4, <1>5, <1>6, <1>7, <1>8, <1>9, <1>10, <1>11 DEF IInv

(* run() waits for a slot with the next event in hand. *)
LEMMA WaitStep ==
    ASSUME IInv, main = "pulling", pos < Len(Events), pos' = pos + 1, main' = "waiting",
           UNCHANGED <<inFlight, stopped, firstError, st, tail, prev>>
    PROVE  IInv'
  <1>1. stopped' = stopped
    OBVIOUS
  <1>2. /\ inFlight' = inFlight /\ firstError' = firstError /\ st' = st
        /\ tail' = tail /\ prev' = prev
    OBVIOUS
  <1>3. /\ pos \in Nat /\ pos + 1 \in E /\ pos' = pos + 1 /\ pos' \in 0..Len(Events)
    BY EventFacts DEF IInv, TypeOK
  <1>4. TypeOK'
    BY <1>1, <1>2, <1>3 DEF IInv, TypeOK, Main
  <1>5. TakenInOrder'
    BY <1>2, <1>3, EventFacts DEF IInv, TakenInOrder
  <1>6. SlotsCounted' /\ EndIsQuiet'
    BY <1>2 DEF IInv, SlotsCounted, EndIsQuiet, Outstanding
  <1>7. FailureIsKnown'
    BY <1>1, <1>2 DEF IInv, FailureIsKnown
  <1>8. TailIsLast' /\ QueuedBehindPrev' /\ SettledInOrder' /\ KeyOrder'
    BY <1>2 DEF IInv, TailIsLast, QueuedBehindPrev, SettledInOrder, KeyOrder,
                Outstanding, Started
  <1> QED BY <1>4, <1>5, <1>6, <1>7, <1>8 DEF IInv

(* The arrival of an event, up to the next await of run().                  *)
LEMMA TakeStep == ASSUME IInv, Take PROVE IInv'
  <1>1. /\ pos \in Nat /\ pos < Len(Events) /\ pos + 1 \in E /\ pos' = pos + 1
        /\ main = "pulling"
        /\ st[pos + 1] = "new" /\ \A f \in E : pos + 1 < f => st[f] = "new"
    BY EventFacts DEF Take, IInv, TypeOK, TakenInOrder
  <1>2. Current(pos + 1)
    BY <1>1 DEF Current
  <1>3. CASE stopped
    <2>1. BreakOut(pos + 1)
      BY <1>3 DEF Take
    <2> QED BY <1>2, <1>3, <2>1, DropStep
  <1>4. CASE ~ stopped /\ inFlight < Concurrency
    <2>1. Dispatch(pos + 1, inFlight + 1) \/ KeyThrows(pos + 1, inFlight + 1)
      BY <1>4 DEF Take
    <2> QED BY <1>2, <1>4, <2>1, DispatchStep, DropStep
  <1>5. CASE ~ stopped /\ ~ (inFlight < Concurrency)
    <2>1. /\ main' = "waiting"
          /\ UNCHANGED <<inFlight, stopped, firstError, st, tail, prev>>
      BY <1>5 DEF Take
    <2> QED BY <1>1, <2>1, WaitStep
  <1> QED BY <1>3, <1>4, <1>5

(* The continuation of the wait for a slot.                                 *)
LEMMA GrantedStep == ASSUME IInv, Granted PROVE IInv'
  <1>1. /\ pos \in E /\ pos \in Nat /\ pos' = pos /\ main = "granted"
        /\ inFlight < Concurrency
        /\ st[pos] = "new" /\ \A f \in E : pos < f => st[f] = "new"
    BY EventFacts DEF Granted, IInv, TypeOK, TakenInOrder
  <1>2. Current(pos)
    BY <1>1 DEF Current
  <1>3. CASE stopped
    <2>1. BreakOut(pos)
      BY <1>3 DEF Granted
    <2> QED BY <1>2, <1>3, <2>1, DropStep
  <1>4. CASE ~ stopped
    <2>1. Dispatch(pos, inFlight + 1) \/ KeyThrows(pos, inFlight + 1)
      BY <1>4 DEF Granted
    <2> QED BY <1>1, <1>2, <1>4, <2>1, DispatchStep, DropStep
  <1> QED BY <1>3, <1>4

(* A handler's promise settles.                                             *)
LEMMA HandlerSettlesStep == ASSUME IInv, NEW e \in E, HandlerSettles(e) PROVE IInv'
  <1>1. PICK how \in {"ok", "failed"} : Settle(e, how, inFlight, main)
    BY DEF HandlerSettles
  <1>2. st[e] = "running" /\ UNCHANGED <<pos, tail, prev>>
    BY DEF HandlerSettles
  <1> QED BY <1>1, <1>2, SettleStep DEF Pending, Settled

(* The turn of an event that was queued behind its key's tail.              *)
LEMMA RunQueuedStep == ASSUME IInv, NEW e \in E, RunQueued(e) PROVE IInv'
  <1>1. /\ st[e] = "queued" /\ Pending(st[e]) /\ st[prev[e]] \in Settled
        /\ UNCHANGED <<pos, tail, prev>>
    BY DEF RunQueued, Pending
  <1>2. CASE stopped
    <2>1. Settle(e, "skipped", inFlight, main)
      BY <1>2 DEF RunQueued
    <2>2. "skipped" \in Settled
      BY DEF Settled
    <2> QED BY <1>1, <1>2, <2>1, <2>2, SettleStep
  <1>3. CASE ~ stopped
    <2>1. PICK how \in Outcomes(e) :
            IF how = "running"
            THEN /\ st' = [st EXCEPT ![e] = "running"]
                 /\ inFlight' = inFlight
                 /\ main' = main
                 /\ UNCHANGED <<stopped, firstError>>
            ELSE Settle(e, how, inFlight, main)
      BY <1>3 DEF RunQueued, Call
    <2>2. CASE how = "running"
      BY <1>1, <1>3, <2>1, <2>2, StartStep
    <2>3. CASE how # "running"
      <3>1. how \in Settled /\ how # "skipped"
        BY <2>3 DEF Outcomes, Settled
      <3> QED BY <1>1, <1>3, <2>1, <2>3, <3>1, SettleStep
    <2> QED BY <2>2, <2>3
  <1> QED BY <1>2, <1>3

(* With every tail settled, nothing is outstanding: an outstanding event is *)
(* not behind its key's tail, and not before it either.                     *)
LEMMA SettledTail ==
    ASSUME IInv, NEW e \in Outstanding(st)
    PROVE  tail[Key(e)] # 0 /\ st[tail[Key(e)]] \notin Settled
  <1>1. /\ e \in E /\ Key(e) \in Keys /\ st[e] \in {"queued", "running"}
        /\ tail[Key(e)] # 0 /\ tail[Key(e)] \in E /\ e \in Nat /\ tail[Key(e)] \in Nat
    BY EventFacts DEF Outstanding, IInv, TypeOK, TailIsLast
  <1>2. Key(tail[Key(e)]) = Key(e) /\ ~ (tail[Key(e)] < e)
    BY <1>1 DEF IInv, TailIsLast
  <1>3. CASE tail[Key(e)] = e
    BY <1>1, <1>3 DEF Settled
  <1>4. CASE e < tail[Key(e)]
    BY <1>1, <1>2, <1>4 DEF IInv, SettledInOrder, Settled
  <1> QED BY <1>1, <1>2, <1>3, <1>4

(* run.finally drops the tail of a key nobody queued behind.                *)
LEMMA ForgetTailStep == ASSUME IInv, NEW k \in Keys, ForgetTail(k) PROVE IInv'
  <1>1. stopped' = stopped
    BY DEF ForgetTail
  <1>2. /\ main' = main /\ pos' = pos /\ inFlight' = inFlight /\ firstError' = firstError
        /\ st' = st /\ prev' = prev /\ tail' = [tail EXCEPT ![k] = 0]
        /\ tail[k] # 0 /\ st[tail[k]] \in Settled
    BY DEF ForgetTail
  <1>3. /\ tail \in [Keys -> E \union {0}] /\ tail' \in [Keys -> E \union {0}]
        /\ \A l \in Keys : tail'[l] = IF l = k THEN 0 ELSE tail[l]
    BY <1>2 DEF IInv, TypeOK
  <1>4. TypeOK'
    BY <1>1, <1>2, <1>3 DEF IInv, TypeOK
  <1>5. TailIsLast'
    <2>1. \A e \in Outstanding(st) : Key(e) \in Keys /\ Key(e) # k
      BY <1>2, SettledTail, EventFacts DEF Outstanding
    <2> QED BY <1>2, <1>3, <2>1 DEF IInv, TailIsLast, Outstanding
  <1>6. FailureIsKnown'
    BY <1>1, <1>2 DEF IInv, FailureIsKnown
  <1>7. SlotsCounted' /\ TakenInOrder'
    BY <1>2 DEF IInv, SlotsCounted, TakenInOrder, Outstanding
  <1>8. QueuedBehindPrev' /\ SettledInOrder' /\ KeyOrder'
    BY <1>2 DEF IInv, QueuedBehindPrev, SettledInOrder, KeyOrder, Started
  <1>9. EndIsQuiet'
    BY <1>1, <1>2 DEF IInv, EndIsQuiet, Outstanding
  <1> QED BY <1>4, <1>5, <1>6, <1>7, <1>8, <1>9 DEF IInv

(* run() over the same stream again, from a later event.                    *)
LEMMA RunAgainInv ==
    ASSUME NEW p \in 0..Len(Events), RunAgain(p)
    PROVE  IInv' /\ OrderInv'
  <1>1. /\ main' = "pulling" /\ pos' = p /\ inFlight' = 0 /\ firstError' = 0
        /\ st' = [e \in E |-> "new"] /\ prev' = [e \in E |-> 0]
        /\ tail' = [k \in Keys |-> 0]
    BY DEF RunAgain
  <1>2. stopped' \in BOOLEAN /\ ~ stopped'
    BY Zenon DEF RunAgain
  <1>3. Outstanding(st') = {} /\ Cardinality(Outstanding(st')) = 0
    BY <1>1, FS_EmptySet DEF Outstanding
  <1>4. /\ \A e \in E : st'[e] = "new" /\ prev'[e] = 0
        /\ \A k \in Keys : tail'[k] = 0
    BY <1>1
  <1>5. TypeOK'
    <2>1. pos' \in 0..Len(Events) /\ inFlight' \in 0..Concurrency
      BY <1>1, EventFacts
    <2>2. main' \in Main /\ firstError' \in E \union {0}
      BY <1>1 DEF Main
    <2>3. /\ st' \in [E -> Statuses] /\ tail' \in [Keys -> E \union {0}]
          /\ prev' \in [E -> E \union {0}]
      BY <1>1 DEF Statuses
    <2> QED BY <1>2, <2>1, <2>2, <2>3 DEF TypeOK
  <1>6. SlotsCounted' /\ TakenInOrder'
    BY <1>1, <1>3, <1>4 DEF SlotsCounted, TakenInOrder, Outstanding
  <1>7. FailureIsKnown'
    BY <1>1, <1>2, <1>4 DEF FailureIsKnown
  <1>8. TailIsLast' /\ QueuedBehindPrev' /\ SettledInOrder' /\ KeyOrder' /\ EndIsQuiet'
    BY <1>1, <1>4
       DEF TailIsLast, QueuedBehindPrev, SettledInOrder, KeyOrder, EndIsQuiet,
           Outstanding, Started, Settled
  <1> QED BY <1>5, <1>6, <1>7, <1>8 DEF IInv, OrderInv, TypeOK, FailureIsKnown

(* What becomes of the event run() takes or has held: it is dispatched or   *)
(* dropped, or held for a slot; no other event changes.                     *)
LEMMA TakeFacts ==
    ASSUME IInv, NEW e, \/ Take /\ e = pos + 1
                        \/ Granted /\ e = pos
    PROVE  /\ e \in E /\ st[e] = "new" /\ pos' = e
           /\ \A g \in E : g # e => st'[g] = st[g]
           /\ st'[e] = "new" <=> main' = "waiting"
           /\ main' \in {"pulling", "waiting", "settling", "aborted"}
           /\ main' = "settling" => stopped'
  <1>1. /\ e \in E /\ st[e] = "new" /\ pos' = e /\ st \in [E -> Statuses]
    BY EventFacts DEF Take, Granted, IInv, TypeOK, TakenInOrder
  <1>2. ASSUME NEW held, Dispatch(e, held)
        PROVE  /\ \A g \in E : g # e => st'[g] = st[g]
               /\ st'[e] # "new" /\ main' = "pulling"
    <2>1. CASE tail[Key(e)] = 0
      <3>1. PICK how \in Outcomes(e) :
              /\ st' = [st EXCEPT ![e] = how]
              /\ main' = "pulling"
        <4>1. Call(e, held, "pulling")
          BY <1>2, <2>1 DEF Dispatch
        <4> QED BY <4>1 DEF Call, Settle
      <3> QED BY <1>1, <3>1 DEF Outcomes
    <2>2. CASE tail[Key(e)] # 0
      BY <1>1, <1>2, <2>2 DEF Dispatch
    <2> QED BY <2>1, <2>2
  <1>3. ASSUME NEW held, KeyThrows(e, held)
        PROVE  /\ \A g \in E : g # e => st'[g] = st[g]
               /\ st'[e] # "new" /\ main' = "aborted"
    BY <1>1, <1>3 DEF KeyThrows
  <1>4. ASSUME BreakOut(e), stopped
        PROVE  /\ \A g \in E : g # e => st'[g] = st[g]
               /\ st'[e] # "new" /\ main' = "settling" /\ stopped'
    <2>1. stopped'
      BY <1>4, Zenon DEF BreakOut
    <2> QED BY <1>1, <1>4, <2>1 DEF BreakOut
  <1>5. CASE Take /\ e = pos + 1
    <2>1. \/ stopped /\ BreakOut(e)
          \/ \E held : Dispatch(e, held) \/ KeyThrows(e, held)
          \/ main' = "waiting" /\ st' = st
      BY <1>5 DEF Take
    <2>2. CASE main' = "waiting" /\ st' = st
      BY <1>1, <2>2
    <2>3. CASE \E held : Dispatch(e, held) \/ KeyThrows(e, held)
      BY <1>1, <1>2, <1>3, <2>3
    <2> QED BY <1>1, <1>4, <2>1, <2>2, <2>3
  <1>6. CASE Granted /\ e = pos
    <2>1. \/ stopped /\ BreakOut(e)
          \/ \E held : Dispatch(e, held) \/ KeyThrows(e, held)
      BY <1>6 DEF Granted
    <2>2. CASE \E held : Dispatch(e, held) \/ KeyThrows(e, held)
      BY <1>1, <1>2, <1>3, <2>2
    <2> QED BY <1>1, <1>4, <2>1, <2>2
  <1> QED BY <1>5, <1>6

(* The steps that move run() only: the stream ends or throws, the run ends. *)
LEMMA EndStep ==
    ASSUME IInv, StreamEnds \/ StreamThrows \/ Finish
    PROVE  IInv'
  <1>1. stopped' = stopped
    BY DEF StreamEnds, StreamThrows, Finish
  <1>2. /\ pos' = pos /\ inFlight' = inFlight /\ firstError' = firstError
        /\ st' = st /\ prev' = prev /\ tail' = tail
        /\ main' \in {"settling", "aborted", "returned", "threw"}
        /\ main \in {"pulling", "settling"}
    BY DEF StreamEnds, StreamThrows, Finish
  <1>3. TypeOK'
    BY <1>1, <1>2 DEF IInv, TypeOK, Main
  <1>4. SlotsCounted' /\ TakenInOrder'
    BY <1>2 DEF IInv, SlotsCounted, TakenInOrder, Outstanding
  <1>5. FailureIsKnown'
    BY <1>1, <1>2 DEF IInv, FailureIsKnown
  <1>6. TailIsLast' /\ QueuedBehindPrev' /\ SettledInOrder' /\ KeyOrder'
    BY <1>2 DEF IInv, TailIsLast, QueuedBehindPrev, SettledInOrder, KeyOrder,
                Outstanding, Started
  <1>7. EndIsQuiet'
    <2>1. CASE main' \in {"returned", "threw"}
      <3>1. Finish
        BY <2>1 DEF StreamEnds, StreamThrows, Finish
      <3>2. Outstanding(st) = {}
        <4>1. \A e \in Outstanding(st) : Key(e) \in Keys
          BY EventFacts DEF Outstanding
        <4> QED BY <3>1, <4>1, SettledTail DEF Finish
      <3>3. main' = IF firstError = 0 THEN "returned" ELSE "threw"
        BY <3>1 DEF Finish
      <3>4. main' = "returned" <=> ~ stopped
        BY <2>1, <3>3 DEF IInv, FailureIsKnown
      <3> QED BY <1>1, <1>2, <2>1, <3>2, <3>3, <3>4 DEF EndIsQuiet, Outstanding
    <2> QED BY <2>1 DEF EndIsQuiet
  <1> QED BY <1>3, <1>4, <1>5, <1>6, <1>7 DEF IInv

(* A step that leaves the processor alone.                                  *)
LEMMA StutterStep == ASSUME IInv, UNCHANGED vars PROVE IInv'
  <1>1. stopped' = stopped
    BY DEF vars
  <1>2. /\ main' = main /\ pos' = pos /\ inFlight' = inFlight /\ firstError' = firstError
        /\ st' = st /\ prev' = prev /\ tail' = tail
    BY DEF vars
  <1>3. TypeOK' /\ SlotsCounted' /\ TakenInOrder'
    BY <1>1, <1>2 DEF IInv, TypeOK, SlotsCounted, TakenInOrder, Outstanding
  <1>4. FailureIsKnown'
    BY <1>1, <1>2 DEF IInv, FailureIsKnown
  <1>5. TailIsLast' /\ QueuedBehindPrev' /\ SettledInOrder' /\ KeyOrder'
    BY <1>2 DEF IInv, TailIsLast, QueuedBehindPrev, SettledInOrder, KeyOrder,
                Outstanding, Started
  <1>6. EndIsQuiet'
    BY <1>1, <1>2 DEF IInv, EndIsQuiet, Outstanding
  <1> QED BY <1>3, <1>4, <1>5, <1>6 DEF IInv

(* Every step of the processor preserves the invariant.                     *)
LEMMA NextInv == IInv /\ [Next]_vars => IInv'
  <1> SUFFICES ASSUME IInv, [Next]_vars PROVE IInv'
    OBVIOUS
  <1>1. CASE Take
    BY <1>1, TakeStep
  <1>2. CASE Granted
    BY <1>2, GrantedStep
  <1>3. CASE StreamEnds \/ StreamThrows \/ Finish
    BY <1>3, EndStep
  <1>4. ASSUME NEW e \in E, HandlerSettles(e) PROVE IInv'
    BY <1>4, HandlerSettlesStep
  <1>5. ASSUME NEW e \in E, RunQueued(e) PROVE IInv'
    BY <1>5, RunQueuedStep
  <1>6. ASSUME NEW k \in Keys, ForgetTail(k) PROVE IInv'
    BY <1>6, ForgetTailStep
  <1>7. CASE UNCHANGED vars
    BY <1>7, StutterStep
  <1>8. CASE Quiesced
    <2>1. UNCHANGED vars
      BY <1>8 DEF Quiesced
    <2> QED BY <2>1, StutterStep
  <1> QED
    BY <1>1, <1>2, <1>3, <1>4, <1>5, <1>6, <1>7, <1>8 DEF Next, Step

-------------------------------------------------------------------------------
(* The inductive invariant holds of every behaviour of run().               *)
THEOREM Invariance == Spec => []IInv
  BY InitInv, NextInv, PTL DEF Spec

(* Every variable of run() keeps its type; in particular the slots taken    *)
(* never exceed the concurrency, and a release never makes them negative.   *)
THEOREM TypeCorrect == Spec => []TypeOK
  <1>1. IInv => TypeOK
    BY DEF IInv
  <1> QED BY <1>1, Invariance, PTL

(* Every dispatched event that has not settled holds exactly one slot: no   *)
(* path of dispatch, settle or skip leaks one or gives one back twice.      *)
THEOREM SlotsAreExact == Spec => []SlotsMatch
  <1>1. IInv => SlotsMatch
    BY DEF IInv, SlotsCounted, SlotsMatch
  <1> QED BY <1>1, Invariance, PTL

(* A handler starts only after every earlier event of its key succeeded.    *)
THEOREM KeysAreOrdered == Spec => []KeyOrder
  <1>1. IInv => KeyOrder
    BY DEF IInv
  <1> QED BY <1>1, Invariance, PTL

(* run() returns only when all it took succeeded, and throws a handler's    *)
(* error only when nothing is outstanding and that event did fail.          *)
THEOREM OutcomesAreTrue == Spec => []OutcomeIsTrue
  <1>1. IInv => OutcomeIsTrue
    <2> SUFFICES ASSUME IInv PROVE OutcomeIsTrue
      OBVIOUS
    <2>1. main = "returned" => \A e \in E : st[e] \in {"new", "ok"}
      <3> SUFFICES ASSUME main = "returned", NEW e \in E PROVE st[e] \in {"new", "ok"}
        OBVIOUS
      <3>1. ~ stopped /\ Outstanding(st) = {} /\ st[e] \in Statuses
        BY DEF IInv, EndIsQuiet, TypeOK
      <3> QED BY <3>1 DEF IInv, FailureIsKnown, Statuses, Settled, Outstanding
    <2>2. main = "threw" => Outstanding(st) = {} /\ st[firstError] = "failed"
      BY DEF IInv, EndIsQuiet, FailureIsKnown
    <2> QED BY <2>1, <2>2 DEF OutcomeIsTrue
  <1> QED BY <1>1, Invariance, PTL

(* After a failure no step starts another handler, on any key.              *)
LEMMA StoppedStep ==
    IInv /\ [Next]_vars => (stopped => \A e \in E : Started(e)' => Started(e))
  <1> SUFFICES ASSUME IInv, [Next]_vars, stopped, NEW e \in E, Started(e)'
               PROVE  Started(e)
    OBVIOUS
  <1>1. st'[e] \in {"running", "ok", "failed"} /\ st \in [E -> Statuses]
    BY DEF Started, IInv, TypeOK
  <1>2. CASE st'[e] = st[e]
    BY <1>1, <1>2 DEF Started
  <1>3. ASSUME NEW g, BreakOut(g) PROVE Started(e)
    BY <1>1, <1>3 DEF BreakOut, Started
  <1>4. CASE Take \/ Granted
    <2>1. CASE st' = st
      BY <1>2, <2>1
    <2> QED BY <1>3, <1>4, <2>1 DEF Take, Granted
  <1>5. ASSUME NEW g \in E, HandlerSettles(g) PROVE Started(e)
    BY <1>1, <1>5 DEF HandlerSettles, Settle, Started
  <1>6. ASSUME NEW g \in E, RunQueued(g) PROVE Started(e)
    BY <1>1, <1>6 DEF RunQueued, Settle, Started
  <1>7. CASE UNCHANGED st
    BY <1>2, <1>7
  <1> QED
    BY <1>4, <1>5, <1>6, <1>7
       DEF Next, Step, Quiesced, StreamEnds, StreamThrows, Finish, ForgetTail, vars

(* Once a handler has failed, no step starts another: what is queued is skipped
   (lex-indexer.ts, the check of `stopped` in the chained callback). `stopped`
   is set by failures only: an abort leaves queued events to run.           *)
THEOREM NothingStartsAfterStop == Spec => NoStartAfterStop
  BY Invariance, StoppedStep, PTL DEF Spec, NoStartAfterStop

==============================================================================
