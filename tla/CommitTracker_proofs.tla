------------------------ MODULE CommitTracker_proofs -------------------------
(* Proofs about CommitTracker, for every stream, batch size and bound.      *)
EXTENDS CommitTracker, SequenceTheorems, TLAPS

(* Facts about the stream every step uses: its seqs are positive naturals   *)
(* and increase with the index.                                             *)
LEMMA StreamFacts ==
    /\ N \in Nat
    /\ \A i \in 1..N : Stream[i] \in Seqs /\ Stream[i] \in Nat /\ Stream[i] > 0
    /\ \A i, j \in 1..N : i < j => Stream[i] < Stream[j]
    /\ \A s \in Seqs : s \in Nat /\ s > 0 /\ s \in Cursors
    /\ \A s \in Cursors : s \in Nat /\ (s # 0 => s \in Seqs)
    /\ 0 \in Cursors
  <1>1. N \in Nat /\ \A i \in 1..N : Stream[i] \in Nat \ {0}
    BY StreamAssumption, ElementOfSeq, LenProperties DEF N
  <1>2. \A i, j \in 1..N : i < j => Stream[i] < Stream[j]
    BY StreamAssumption DEF N
  <1> QED BY <1>1, <1>2 DEF Seqs, Cursors

(* A new tracker's list of tracked seqs is a sequence of seqs.              *)
LEMMA EmptyTracked == <<>> \in Seq(Seqs) /\ Len(<<>>) = 0
  BY EmptySeq

(* The index arithmetic every step uses, as one fact.                       *)
IndexFacts ==
    /\ Len(tracked) \in Nat /\ Confirmed \in Nat
    /\ first - 1 <= Confirmed /\ Confirmed <= pulled /\ pulled <= N
    /\ first \in Nat /\ first >= 1 /\ pulled \in Nat /\ N \in Nat
    /\ mark \in Nat /\ saving \in Nat /\ stored \in Nat
    /\ pulled = Confirmed + Len(tracked)

(* They follow from the shape of the window.                                *)
LEMMA InvFacts == ASSUME WindowInv PROVE IndexFacts
  BY StreamFacts, LenProperties
     DEF WindowInv, TypeOK, TrackedIsWindow, Confirmed, IndexFacts

(* Pulling appends the next stretch of the stream to tracked.               *)
LEMMA PullWindow ==
    ASSUME WindowInv, NEW n \in 1..MaxBatch, Pull(n)
    PROVE  /\ tracked' \in Seq(Seqs)
           /\ Len(tracked') = Len(tracked) + n
           /\ Confirmed' = Confirmed
           /\ \A i \in 1..Len(tracked') : tracked'[i] = Stream[Confirmed' + i]
  <1> DEFINE b == SubSeq(Stream, pulled + 1, pulled + n)
  <1>1. /\ pulled \in Nat /\ n \in Nat /\ pulled + n <= N
        /\ tracked \in Seq(Seqs) /\ Len(tracked) \in Nat
    BY StreamFacts, BoundsAssumption, LenProperties DEF WindowInv, TypeOK, Pull
  <1>2. /\ b \in Seq(Seqs) /\ Len(b) = n
        /\ \A i \in 1..n : b[i] = Stream[pulled + i]
    <2>1. \A i \in (pulled + 1)..(pulled + n) : Stream[i] \in Seqs
      BY <1>1, StreamFacts
    <2> QED BY <1>1, <2>1, SubSeqProperties
  <1>3. tracked' = tracked \o b /\ pulled' = pulled + n
    BY DEF Pull
  <1> HIDE DEF b
  <1>4. /\ tracked' \in Seq(Seqs) /\ Len(tracked') = Len(tracked) + n
        /\ \A i \in 1..Len(tracked') :
             tracked'[i] = IF i <= Len(tracked) THEN tracked[i] ELSE b[i - Len(tracked)]
    <2>1. /\ tracked \o b \in Seq(Seqs) /\ Len(tracked \o b) = Len(tracked) + Len(b)
          /\ \A i \in 1..(Len(tracked) + Len(b)) :
               (tracked \o b)[i] = IF i <= Len(tracked) THEN tracked[i]
                                                        ELSE b[i - Len(tracked)]
      BY <1>1, <1>2, ConcatProperties
    <2> QED BY <2>1, <1>2, <1>3
  <1>5. Confirmed' = Confirmed
    BY <1>1, <1>3, <1>4 DEF Confirmed
  <1>6. ASSUME NEW i \in 1..Len(tracked')
        PROVE  tracked'[i] = Stream[Confirmed' + i]
    <2>1. CASE i <= Len(tracked)
      BY <2>1, <1>1, <1>4, <1>5 DEF WindowInv, TrackedIsWindow
    <2>2. CASE i > Len(tracked)
      <3>1. i - Len(tracked) \in 1..n
        BY <2>2, <1>1, <1>4
      <3>2. tracked'[i] = Stream[pulled + (i - Len(tracked))]
        BY <2>2, <3>1, <1>1, <1>2, <1>4
      <3>3. pulled + (i - Len(tracked)) = Confirmed + i
        BY <1>1 DEF Confirmed
      <3> QED BY <3>2, <3>3, <1>5
    <2> QED BY <2>1, <2>2, <1>1, <1>4
  <1> QED BY <1>4, <1>5, <1>6

(* A new tracker over an empty store satisfies the invariant.               *)
LEMMA InitInv == Init => IInv
  <1> SUFFICES ASSUME Init PROVE IInv
    OBVIOUS
  <1>1. TypeOK
    <2>1. tracked \in Seq(Seqs)
      BY EmptyTracked DEF Init
    <2>2. /\ first = 1 /\ pulled = 0 /\ doneSet = {} /\ mark = 0
          /\ savePromise = "none" /\ saving = 0 /\ applied = FALSE /\ flush = "none"
          /\ flushMark = 0 /\ stored = 0 /\ acked = {} /\ fails = 0 /\ restarts = 0
      BY DEF Init
    <2>3. applied \in BOOLEAN
      BY <2>2, Zenon
    <2>4. /\ first \in 1..(N + 1) /\ pulled \in 0..N
          /\ fails \in 0..MaxFails /\ restarts \in 0..MaxRestarts
      BY <2>2, StreamFacts, BoundsAssumption
    <2> QED BY <2>1, <2>2, <2>3, <2>4, StreamFacts DEF TypeOK
  <1>2. Confirmed = 0 /\ first = 1 /\ Len(tracked) = 0
    <2>1. Len(tracked) = 0
      BY EmptyTracked DEF Init
    <2>2. pulled = 0 /\ first = 1
      BY DEF Init
    <2> QED BY <2>1, <2>2 DEF Confirmed
  <1>3. StoredIsBehind /\ FlushIsCovered
    BY StreamFacts DEF Init, StoredIsBehind, FlushIsCovered
  <1> QED
    BY <1>1, <1>2, <1>3 DEF Init, IInv, TrackedIsWindow, ConfirmedAreAcked,
                            MarkIsConfirmed, SaveIsConfirmed, SaveIsAhead,
                            WindowInv

(* trackedStream tracks a batch: the window grows at its end, nothing else moves. *)
LEMMA PullStep ==
    ASSUME WindowInv, NEW n \in 1..MaxBatch, Pull(n)
    PROVE  WindowInv'
  <1>1. /\ n \in Nat /\ pulled + n <= N /\ pulled' = pulled + n
        /\ UNCHANGED <<first, doneSet, mark, savePromise, saving, applied, flush,
                       flushMark, stored, acked, fails, restarts>>
    BY BoundsAssumption DEF Pull
  <1>2. TypeOK'
    BY <1>1, PullWindow, InvFacts DEF WindowInv, TypeOK, IndexFacts
  <1>3. TrackedIsWindow'
    <2>1. Len(tracked') = Len(tracked) + n
      BY PullWindow
    <2>2. Len(tracked) <= pulled - (first - 1)
      BY DEF WindowInv, TrackedIsWindow
    <2>3. Len(tracked') <= pulled' - (first' - 1)
      BY <1>1, <2>1, <2>2, InvFacts DEF IndexFacts
    <2> QED BY <2>3, PullWindow DEF TrackedIsWindow
  <1>4. ConfirmedAreAcked' /\ MarkIsConfirmed'
    BY <1>1, PullWindow DEF WindowInv, ConfirmedAreAcked, MarkIsConfirmed
  <1>5. SaveIsConfirmed'
    BY <1>1 DEF WindowInv, SaveIsConfirmed
  <1> QED BY <1>2, <1>3, <1>4, <1>5 DEF WindowInv

(* What an ack does to the tracked window and the watermark.                *)
LEMMA DoneWindow ==
    ASSUME WindowInv, NEW s \in Seqs, Done(s)
    PROVE  /\ tracked' \in Seq(Seqs) /\ TrackedIsWindow'
           /\ ConfirmedAreAcked' /\ MarkIsConfirmed'
           /\ mark' \in Cursors /\ doneSet' \subseteq Seqs
           /\ mark <= mark' /\ (mark' = mark \/ \E i \in first..N : mark' = Stream[i])
  <1>1. PICK k \in 0..Len(tracked) :
          /\ IsConfirmedPrefix(k, tracked, doneSet \union {s})
          /\ mark' = IF k = 0 THEN mark ELSE tracked[k]
          /\ doneSet' = (doneSet \union {s}) \ {tracked[i] : i \in 1..k}
          /\ tracked' = SubSeq(tracked, k + 1, Len(tracked))
    BY DEF Done
  <1>2. /\ first' = first /\ pulled' = pulled /\ stored' = stored
        /\ acked' = acked \union {s}
    BY DEF Done
  <1>3. /\ k \in Nat /\ k <= Len(tracked) /\ Len(tracked) \in Nat
        /\ tracked \in Seq(Seqs) /\ doneSet \subseteq Seqs /\ doneSet \subseteq acked
        /\ \A i \in 1..Len(tracked) : tracked[i] \in Seqs /\ tracked[i] = Stream[Confirmed + i]
    <2>1. Len(tracked) \in Nat
      BY InvFacts DEF IndexFacts
    <2>2. /\ tracked \in Seq(Seqs) /\ doneSet \subseteq Seqs /\ doneSet \subseteq acked
          /\ \A i \in 1..Len(tracked) : tracked[i] = Stream[Confirmed + i]
      BY DEF WindowInv, TypeOK, TrackedIsWindow, ConfirmedAreAcked
    <2>3. \A i \in 1..Len(tracked) : tracked[i] \in Seqs
      BY <2>2, ElementOfSeq
    <2> QED BY <2>1, <2>2, <2>3
  <1>4. /\ tracked' \in Seq(Seqs)
        /\ Len(tracked') = Len(tracked) - k
        /\ \A i \in 1..Len(tracked') : tracked'[i] = tracked[k + i]
    <2>1. \A i \in (k + 1)..Len(tracked) : tracked[i] \in Seqs
      BY <1>3
    <2>2. /\ tracked' \in Seq(Seqs)
          /\ Len(tracked') = IF k + 1 <= Len(tracked) THEN Len(tracked) - (k + 1) + 1 ELSE 0
          /\ \A i \in 1..(Len(tracked) - (k + 1) + 1) : tracked'[i] = tracked[(k + 1) + i - 1]
      BY <1>1, <1>3, <2>1, SubSeqProperties
    <2>3. Len(tracked') = Len(tracked) - k
      BY <1>3, <2>2
    <2>4. ASSUME NEW i \in 1..Len(tracked')
          PROVE  tracked'[i] = tracked[k + i]
      <3>1. i \in 1..(Len(tracked) - (k + 1) + 1) /\ (k + 1) + i - 1 = k + i
        BY <1>3, <2>3
      <3> QED BY <2>2, <3>1
    <2> QED BY <2>2, <2>3, <2>4
  <1>5. Confirmed' = Confirmed + k
    BY <1>2, <1>3, <1>4, InvFacts DEF Confirmed, IndexFacts
  <1>6. TrackedIsWindow'
    <2>1. Len(tracked') <= pulled' - (first' - 1)
      <3>1. Len(tracked') = Len(tracked) - k
        BY <1>4
      <3>2. first' = first /\ pulled' = pulled
        BY <1>2
      <3> QED BY <1>3, <3>1, <3>2, InvFacts DEF IndexFacts
    <2>2. ASSUME NEW i \in 1..Len(tracked')
          PROVE  tracked'[i] = Stream[Confirmed' + i]
      <3>1. k + i \in 1..Len(tracked) /\ Confirmed + (k + i) = Confirmed' + i
        BY <1>3, <1>4, <1>5, InvFacts DEF IndexFacts
      <3> QED BY <3>1, <1>3, <1>4
    <2> QED BY <2>1, <2>2 DEF TrackedIsWindow
  <1>7. ConfirmedAreAcked'
    <2>1. ASSUME NEW i \in 1..Confirmed'
          PROVE  Stream[i] \in acked'
      <3>1. CASE i <= Confirmed
        BY <3>1, <1>2, InvFacts DEF WindowInv, ConfirmedAreAcked, IndexFacts
      <3>2. CASE i > Confirmed
        <4>1. /\ i - Confirmed \in 1..k /\ i - Confirmed \in 1..Len(tracked)
              /\ Confirmed + (i - Confirmed) = i
          BY <3>2, <1>3, <1>5, InvFacts DEF IndexFacts
        <4>2. tracked[i - Confirmed] \in doneSet \union {s}
          BY <4>1, <1>1 DEF IsConfirmedPrefix
        <4> QED BY <4>1, <4>2, <1>2, <1>3
      <3> QED BY <3>1, <3>2, <1>3, <1>5, InvFacts DEF IndexFacts
    <2> QED BY <2>1, <1>1, <1>2, <1>3 DEF ConfirmedAreAcked
  <1>8. /\ k = 0 => mark' = mark
        /\ k > 0 => mark' = Stream[Confirmed + k] /\ Confirmed + k \in first..N
    <2>1. k > 0 => k \in 1..Len(tracked)
      BY <1>3
    <2>2. Confirmed + k <= N /\ (k > 0 => Confirmed + k >= first)
      BY <1>3, InvFacts DEF IndexFacts
    <2> QED BY <1>1, <1>3, <2>1, <2>2, InvFacts DEF IndexFacts
  <1>9. MarkIsConfirmed'
    BY <1>2, <1>3, <1>5, <1>8, InvFacts DEF WindowInv, MarkIsConfirmed, IndexFacts
  <1>10. /\ mark <= mark' /\ mark' \in Cursors
         /\ mark' = mark \/ \E i \in first..N : mark' = Stream[i]
    <2>1. CASE k = 0
      BY <2>1, <1>8, InvFacts DEF WindowInv, TypeOK, IndexFacts
    <2>2. CASE k > 0
      <3>1. mark' \in Nat /\ mark' \in Cursors /\ mark \in Nat
        BY <2>2, <1>8, InvFacts, StreamFacts DEF IndexFacts
      <3>2. CASE mark = 0
        BY <3>1, <3>2, <2>2, <1>8
      <3>3. CASE mark # 0
        <4>1. mark = Stream[Confirmed] /\ Confirmed >= first
          BY <3>3 DEF WindowInv, MarkIsConfirmed
        <4>2. Confirmed \in 1..N /\ Confirmed + k \in 1..N /\ Confirmed < Confirmed + k
          BY <4>1, <2>2, <1>3, <1>8, InvFacts DEF IndexFacts
        <4>3. mark < mark'
          BY <4>1, <4>2, <2>2, <1>8, StreamFacts
        <4> QED BY <4>3, <3>1, <2>2, <1>8
      <3> QED BY <3>2, <3>3
    <2> QED BY <2>1, <2>2, <1>3
  <1> QED BY <1>1, <1>3, <1>4, <1>6, <1>7, <1>9, <1>10

(* Which events an ack confirms, and which acks then still wait.            *)
LEMMA DoneEffect ==
    ASSUME WindowInv, NEW s \in Seqs, Done(s)
    PROVE  /\ Confirmed \in Nat /\ Confirmed' \in Nat
           /\ Confirmed <= Confirmed' /\ Confirmed' <= N
           /\ \A i \in (Confirmed + 1)..Confirmed' : Stream[i] \in doneSet \union {s}
           /\ doneSet' \subseteq doneSet \union {s}
           /\ \A d \in doneSet \union {s} :
                d \in doneSet' \/ \E i \in (Confirmed + 1)..Confirmed' : d = Stream[i]
  <1>1. PICK k \in 0..Len(tracked) :
          /\ IsConfirmedPrefix(k, tracked, doneSet \union {s})
          /\ doneSet' = (doneSet \union {s}) \ {tracked[i] : i \in 1..k}
          /\ tracked' = SubSeq(tracked, k + 1, Len(tracked))
    BY DEF Done
  <1>2. /\ IndexFacts /\ k \in Nat /\ k <= Len(tracked) /\ tracked \in Seq(Seqs)
        /\ \A i \in 1..Len(tracked) : tracked[i] \in Seqs /\ tracked[i] = Stream[Confirmed + i]
    BY InvFacts, ElementOfSeq DEF WindowInv, TypeOK, TrackedIsWindow, IndexFacts
  <1>3. Len(tracked') = Len(tracked) - k
    <2>1. \A i \in (k + 1)..Len(tracked) : tracked[i] \in Seqs
      BY <1>2 DEF IndexFacts
    <2>2. Len(tracked') = IF k + 1 <= Len(tracked) THEN Len(tracked) - (k + 1) + 1 ELSE 0
      BY <1>1, <1>2, <2>1, SubSeqProperties DEF IndexFacts
    <2> QED BY <1>2, <2>2 DEF IndexFacts
  <1>4. Confirmed' = Confirmed + k
    <2>1. pulled' = pulled
      BY DEF Done
    <2> QED BY <1>2, <1>3, <2>1 DEF Confirmed, IndexFacts
  <1>5. \A i \in 1..k : tracked[i] \in doneSet \union {s} /\ tracked[i] = Stream[Confirmed + i]
    BY <1>1, <1>2 DEF IsConfirmedPrefix
  <1>6. ASSUME NEW i \in (Confirmed + 1)..Confirmed'
        PROVE  Stream[i] \in doneSet \union {s}
    <2>1. i - Confirmed \in 1..k /\ Confirmed + (i - Confirmed) = i
      BY <1>2, <1>4 DEF IndexFacts
    <2>2. Stream[Confirmed + (i - Confirmed)] \in doneSet \union {s}
      BY <1>5, <2>1
    <2> QED BY <2>1, <2>2
  <1>7. ASSUME NEW d \in doneSet \union {s}, d \notin doneSet'
        PROVE  \E i \in (Confirmed + 1)..Confirmed' : d = Stream[i]
    <2>1. PICK i \in 1..k : d = tracked[i]
      BY <1>1, <1>7
    <2>2. Confirmed + i \in (Confirmed + 1)..Confirmed' /\ d = Stream[Confirmed + i]
      BY <1>2, <1>4, <1>5, <2>1 DEF IndexFacts
    <2> QED BY <2>2
  <1>8. /\ Confirmed \in Nat /\ Confirmed' \in Nat
        /\ Confirmed <= Confirmed' /\ Confirmed' <= N
    BY <1>2, <1>4 DEF IndexFacts
  <1> QED BY <1>1, <1>6, <1>7, <1>8

(* Scheduling a save keeps saving <= mark when the mark only grew, and an   *)
(* idle tracker has nothing to save.                                        *)
LEMMA ScheduleSaveStep ==
    ASSUME WindowInv, ScheduleSave, mark <= mark', mark' \in Cursors
    PROVE  /\ SaveIsConfirmed'
           /\ savePromise' \in {"none", "pending", "stuck"}
           /\ saving' \in Cursors /\ applied' \in BOOLEAN /\ fails' \in 0..MaxFails
           /\ savePromise' = "none" => mark' = 0
           /\ savePromise' = "pending" =>
                \/ savePromise = "pending" /\ saving' = saving /\ applied' = applied
                \/ saving' = mark' /\ ~ applied'
  <1>1. /\ mark' \in Nat /\ mark \in Nat /\ saving \in Nat
        /\ fails \in Nat /\ MaxFails \in Nat
    BY StreamFacts, InvFacts, BoundsAssumption DEF WindowInv, TypeOK, IndexFacts
  <1>2. CASE mark' # 0 /\ savePromise = "none"
    <2>1. StartSaveLoop
      BY <1>2 DEF ScheduleSave
    <2>2. CASE /\ savePromise' = "pending" /\ saving' = mark' /\ applied' = FALSE
               /\ UNCHANGED fails
      <3>1. ~ applied' /\ applied' \in BOOLEAN /\ savePromise' = "pending"
        BY <2>2, Zenon
      <3> QED BY <1>1, <1>2, <2>2, <3>1 DEF SaveIsConfirmed, WindowInv, TypeOK
    <2>3. CASE /\ fails < MaxFails /\ savePromise' = "stuck" /\ fails' = fails + 1
               /\ UNCHANGED <<saving, applied>>
      BY <1>1, <1>2, <2>3 DEF SaveIsConfirmed, WindowInv, TypeOK
    <2> QED BY <2>1, <2>2, <2>3 DEF StartSaveLoop
  <1>3. CASE ~(mark' # 0 /\ savePromise = "none")
    <2>1. UNCHANGED <<savePromise, saving, applied, fails>>
      BY <1>3 DEF ScheduleSave, saveVars
    <2> QED BY <1>1, <1>3, <2>1 DEF SaveIsConfirmed, WindowInv, TypeOK
  <1> QED BY <1>2, <1>3

(* An ack. *)
LEMMA DoneStep ==
    ASSUME WindowInv, NEW s \in Seqs, Done(s)
    PROVE  WindowInv'
  <1>1. /\ ScheduleSave
        /\ UNCHANGED <<first, pulled, flush, flushMark, stored, restarts>>
        /\ acked' = acked \union {s}
    BY DEF Done
  <1>2. /\ SaveIsConfirmed' /\ savePromise' \in {"none", "pending", "stuck"}
        /\ saving' \in Cursors /\ applied' \in BOOLEAN /\ fails' \in 0..MaxFails
    BY <1>1, DoneWindow, ScheduleSaveStep
  <1>3. TypeOK'
    BY <1>1, <1>2, DoneWindow DEF WindowInv, TypeOK
  <1> QED BY <1>2, <1>3, DoneWindow DEF WindowInv

(* The call of flush(), which waits for nothing only if there is no mark.   *)
LEMMA FlushStep ==
    ASSUME WindowInv, Flush
    PROVE  WindowInv' /\ flush' # "done" /\ (flush' = "resolved" => mark' = 0)
  <1>1. /\ ScheduleSave
        /\ UNCHANGED <<first, pulled, tracked, doneSet, mark, stored, acked, restarts>>
        /\ flushMark' = mark
        /\ flush' = CASE savePromise' = "none"    -> "resolved"
                      [] savePromise' = "pending" -> "awaiting"
                      [] savePromise' = "stuck"   -> "rejected"
    BY DEF Flush
  <1>2. ConfirmedAreAcked' /\ MarkIsConfirmed' /\ TrackedIsWindow'
    BY <1>1 DEF WindowInv, ConfirmedAreAcked, MarkIsConfirmed, TrackedIsWindow, Confirmed
  <1>3. mark <= mark' /\ mark' \in Cursors
    BY <1>1, InvFacts DEF WindowInv, TypeOK, IndexFacts
  <1>4. /\ SaveIsConfirmed' /\ savePromise' \in {"none", "pending", "stuck"}
        /\ saving' \in Cursors /\ applied' \in BOOLEAN /\ fails' \in 0..MaxFails
        /\ savePromise' = "none" => mark' = 0
    BY <1>1, <1>3, ScheduleSaveStep
  <1>5. flush' \in {"awaiting", "resolved", "rejected"} /\ (flush' = "resolved" => mark' = 0)
    BY <1>1, <1>4
  <1>6. TypeOK'
    BY <1>1, <1>3, <1>4, <1>5 DEF WindowInv, TypeOK
  <1> QED BY <1>2, <1>4, <1>5, <1>6 DEF WindowInv

(* The store's answers to a save, and flush()'s continuation.               *)
LEMMA SaveSteps ==
    ASSUME WindowInv, SaveApplies \/ SaveResolves \/ SaveRejects \/ FlushSettles
    PROVE  WindowInv'
  <1>1. UNCHANGED <<first, pulled, tracked, doneSet, mark, flushMark, acked, restarts>>
    BY DEF SaveApplies, SaveResolves, SaveRejects, FlushSettles, trackerVars
  <1>2. ConfirmedAreAcked' /\ MarkIsConfirmed' /\ TrackedIsWindow'
    BY <1>1 DEF WindowInv, ConfirmedAreAcked, MarkIsConfirmed, TrackedIsWindow, Confirmed
  <1>3. /\ mark \in Nat /\ saving \in Nat /\ mark \in Cursors /\ saving \in Cursors
        /\ fails \in Nat /\ MaxFails \in Nat /\ 0 \in Cursors
    BY InvFacts, StreamFacts, BoundsAssumption DEF WindowInv, TypeOK, IndexFacts
  <1>4. CASE SaveApplies
    <2>1. /\ stored' = saving /\ applied' = TRUE
          /\ UNCHANGED <<savePromise, saving, flush, fails>>
      BY <1>4 DEF SaveApplies
    <2>2. TypeOK' /\ SaveIsConfirmed'
      BY <1>1, <1>3, <2>1 DEF WindowInv, TypeOK, SaveIsConfirmed
    <2> QED BY <1>2, <2>2 DEF WindowInv
  <1>5. CASE SaveResolves
    <2>1. /\ savePromise = "pending" /\ stored' = stored /\ fails' = fails
          /\ applied' = FALSE
          /\ \/ saving' = mark /\ savePromise' = savePromise /\ flush' = flush
             \/ saving' = 0 /\ savePromise' = "none" /\ flush' \in {flush, "resolved"}
      BY <1>5 DEF SaveResolves
    <2>2. SaveIsConfirmed'
      BY <1>1, <1>3, <2>1 DEF WindowInv, SaveIsConfirmed
    <2>3. TypeOK'
      BY <1>1, <1>3, <2>1 DEF WindowInv, TypeOK
    <2> QED BY <1>2, <2>2, <2>3 DEF WindowInv
  <1>6. CASE SaveRejects
    <2>1. /\ fails' \in 0..MaxFails /\ savePromise' = "none" /\ saving' = 0
          /\ applied' = FALSE /\ stored' = stored /\ flush' \in {flush, "rejected"}
      BY <1>3, <1>6 DEF SaveRejects
    <2>2. TypeOK' /\ SaveIsConfirmed'
      BY <1>1, <1>3, <2>1 DEF WindowInv, TypeOK, SaveIsConfirmed
    <2> QED BY <1>2, <2>2 DEF WindowInv
  <1>7. CASE FlushSettles
    <2>1. /\ UNCHANGED <<savePromise, saving, applied, fails, stored>>
          /\ flush' \in {"done", "failed"}
      BY <1>7 DEF FlushSettles, saveVars
    <2>2. TypeOK' /\ SaveIsConfirmed'
      BY <1>1, <2>1 DEF WindowInv, TypeOK, SaveIsConfirmed
    <2> QED BY <1>2, <2>2 DEF WindowInv
  <1> QED BY <1>4, <1>5, <1>6, <1>7

(* All events up to the watermark are acknowledged, and so a save that is   *)
(* in flight names no event that is not.                                    *)
LEMMA MarkIsAcked ==
    ASSUME WindowInv
    PROVE  AckedUpTo(mark) /\ (savePromise = "pending" => AckedUpTo(saving))
  <1>0. IndexFacts
    BY InvFacts
  <1>1. ASSUME NEW i \in 1..N, Stream[i] <= mark
        PROVE  Stream[i] \in acked
    <2>1. mark # 0 /\ Stream[i] \in Nat
      BY <1>0, <1>1, StreamFacts DEF IndexFacts
    <2>2. mark = Stream[Confirmed] /\ Confirmed \in 1..N
      BY <1>0, <2>1 DEF WindowInv, MarkIsConfirmed, IndexFacts
    <2>3. ~(Confirmed < i)
      <3>1. Confirmed < i => mark < Stream[i]
        BY <2>2, StreamFacts
      <3> QED BY <3>1, <1>0, <1>1, <2>1 DEF IndexFacts
    <2> QED BY <1>0, <2>2, <2>3 DEF WindowInv, ConfirmedAreAcked, IndexFacts
  <1>2. ASSUME NEW i \in 1..N, savePromise = "pending", Stream[i] <= saving
        PROVE  Stream[i] <= mark
    <2>1. Stream[i] \in Nat /\ saving <= mark
      BY <1>2, StreamFacts DEF WindowInv, SaveIsConfirmed
    <2> QED BY <1>0, <1>2, <2>1 DEF IndexFacts
  <1> QED BY <1>1, <1>2 DEF AckedUpTo

(* What the store holds is acknowledged, where one tracker writes to it.    *)
LEMMA StoredIsAcked ==
    ASSUME IInv
    PROVE  AckedUpTo(stored)
  <1>0. IndexFacts /\ AckedUpTo(mark)
    BY InvFacts, MarkIsAcked DEF IInv
  <1> SUFFICES ASSUME NEW i \in 1..N, Stream[i] <= stored
               PROVE  Stream[i] \in acked
    BY DEF AckedUpTo
  <1>1. Stream[i] \in Nat /\ i \in Nat
    BY StreamFacts
  <1>2. CASE mark = 0
    <2>1. Confirmed = first - 1
      BY <1>0, <1>2, StreamFacts DEF IInv, WindowInv, MarkIsConfirmed, IndexFacts
    <2>2. ~(i \in first..N)
      BY <1>0, <1>1, <1>2 DEF IInv, StoredIsBehind, IndexFacts
    <2> QED BY <1>0, <1>1, <2>1, <2>2 DEF IInv, WindowInv, ConfirmedAreAcked, IndexFacts
  <1>3. CASE mark # 0
    <2>1. stored <= mark
      BY <1>3 DEF IInv, StoredIsBehind
    <2> QED BY <1>0, <1>1, <2>1 DEF AckedUpTo, IndexFacts
  <1> QED BY <1>2, <1>3

(* A new tracker over a store that holds a cursor as it should be.          *)
LEMMA RestartStep ==
    ASSUME WindowInv, AckedUpTo(stored), Restart
    PROVE  WindowInv' /\ StoredIsBehind' /\ SaveIsAhead' /\ FlushIsCovered'
           /\ pulled' \in 0..N
           /\ first' = pulled' + 1 /\ Confirmed' = pulled' /\ doneSet' = {}
  <1>1. PICK p \in 0..N :
          /\ \A i \in 1..N : Stream[i] <= stored <=> i <= p
          /\ first' = p + 1 /\ pulled' = p
    BY DEF Restart
  <1>2. /\ restarts < MaxRestarts /\ restarts' = restarts + 1
        /\ tracked' = <<>> /\ doneSet' = {} /\ mark' = 0
        /\ savePromise' = "none" /\ saving' = 0 /\ applied' = FALSE
        /\ flush' = "none" /\ flushMark' = 0 /\ stored' = stored /\ acked' = acked /\ fails' = fails
    BY DEF Restart
  <1>3. p \in Nat /\ p <= N /\ N \in Nat
    BY StreamFacts
  <1>4. Len(tracked') = 0 /\ tracked' \in Seq(Seqs) /\ Confirmed' = p
    BY <1>1, <1>2, <1>3, EmptyTracked DEF Confirmed
  <1>5. TypeOK'
    <2>1. first' \in 1..(N + 1) /\ pulled' \in 0..N
      BY <1>1, <1>3
    <2>2. restarts' \in 0..MaxRestarts
      BY <1>2, BoundsAssumption DEF WindowInv, TypeOK
    <2> QED BY <1>2, <1>4, <2>1, <2>2, StreamFacts DEF WindowInv, TypeOK
  <1>6. ConfirmedAreAcked'
    BY <1>1, <1>2, <1>3, <1>4 DEF ConfirmedAreAcked, AckedUpTo
  <1>7. StoredIsBehind' /\ SaveIsAhead' /\ FlushIsCovered'
    <2>1. StoredIsBehind' /\ SaveIsAhead'
      BY <1>1, <1>2, <1>3, InvFacts, StreamFacts DEF StoredIsBehind, SaveIsAhead, N, IndexFacts
    <2>2. FlushIsCovered'
      BY <1>2 DEF FlushIsCovered
    <2> QED BY <2>1, <2>2
  <1> QED
    BY <1>1, <1>2, <1>3, <1>4, <1>5, <1>6, <1>7
       DEF WindowInv, TrackedIsWindow, MarkIsConfirmed, SaveIsConfirmed

(* What another tracker over the same store does leaves this one's window   *)
(* as it is.                                                                *)
LEMMA OtherTrackerStep ==
    ASSUME WindowInv,
           UNCHANGED <<first, pulled, tracked, doneSet, mark, savePromise, saving, applied,
                       flush, flushMark>>,
           acked \subseteq acked', acked' \subseteq Seqs, stored' \in Cursors,
           fails' \in 0..MaxFails, restarts' \in 0..MaxRestarts
    PROVE  WindowInv' /\ UNCHANGED Confirmed
  BY DEF WindowInv, TypeOK, TrackedIsWindow, ConfirmedAreAcked, MarkIsConfirmed,
         SaveIsConfirmed, Confirmed

(* A step of the one tracker keeps its window.                              *)
LEMMA WindowStep ==
    ASSUME WindowInv, Next, Restart => AckedUpTo(stored)
    PROVE  WindowInv'
  <1>1. ASSUME NEW n \in 1..MaxBatch, Pull(n) PROVE WindowInv'
    BY <1>1, PullStep
  <1>2. ASSUME NEW s \in Seqs, Done(s) PROVE WindowInv'
    BY <1>2, DoneStep
  <1>3. CASE Flush
    BY <1>3, FlushStep
  <1>4. CASE SaveApplies \/ SaveResolves \/ SaveRejects \/ FlushSettles
    BY <1>4, SaveSteps
  <1>5. CASE Restart
    BY <1>5, RestartStep
  <1> QED BY <1>1, <1>2, <1>3, <1>4, <1>5 DEF Next

(* ... and stored <= saving <= mark.                                        *)
LEMMA BehindStep ==
    ASSUME IInv, Next
    PROVE  StoredIsBehind' /\ SaveIsAhead'
  <1>0. IndexFacts /\ WindowInv /\ StoredIsBehind /\ SaveIsAhead
    BY InvFacts DEF IInv
  <1>1. ASSUME NEW n \in 1..MaxBatch, Pull(n)
        PROVE  StoredIsBehind' /\ SaveIsAhead'
    BY <1>0, <1>1 DEF Pull, StoredIsBehind, SaveIsAhead
  <1>2. ASSUME ScheduleSave, UNCHANGED <<first, stored>>, mark <= mark', mark' \in Cursors,
               mark' = mark \/ \E i \in first..N : mark' = Stream[i]
        PROVE  StoredIsBehind' /\ SaveIsAhead'
    <2>1. StoredIsBehind'
      BY <1>0, <1>2, StreamFacts DEF StoredIsBehind, IndexFacts
    <2>2. \/ savePromise' # "pending"
          \/ savePromise = "pending" /\ saving' = saving /\ applied' = applied
          \/ saving' = mark' /\ ~ applied'
      BY <1>0, <1>2, ScheduleSaveStep
    <2>3. savePromise' = "pending" => saving' # 0
      BY <1>0, <1>2, ScheduleSaveStep DEF SaveIsConfirmed
    <2>4. CASE savePromise = "pending" /\ saving' = saving /\ applied' = applied
      <3>1. stored' = stored /\ saving' = saving /\ applied' = applied
            /\ savePromise = "pending"
        BY <1>2, <2>4
      <3>2. SaveIsAhead'
        BY <1>0, <3>1, Zenon DEF SaveIsAhead
      <3> QED BY <2>1, <3>2
    <2>5. CASE saving' = mark' /\ ~ applied'
      BY <1>2, <2>1, <2>3, <2>5 DEF SaveIsAhead, StoredIsBehind
    <2> QED BY <2>1, <2>2, <2>4, <2>5 DEF SaveIsAhead
  <1>3. ASSUME NEW s \in Seqs, Done(s)
        PROVE  StoredIsBehind' /\ SaveIsAhead'
    <2>1. ScheduleSave /\ UNCHANGED <<first, stored>>
      BY <1>3 DEF Done
    <2> QED BY <1>0, <1>2, <1>3, <2>1, DoneWindow
  <1>4. CASE Flush
    <2>1. ScheduleSave /\ UNCHANGED <<first, stored>> /\ mark' = mark
      BY <1>4 DEF Flush
    <2>2. mark <= mark' /\ mark' \in Cursors
      BY <1>0, <2>1 DEF WindowInv, TypeOK, IndexFacts
    <2> QED BY <1>2, <2>1, <2>2
  <1>5. CASE SaveApplies
    BY <1>0, <1>5
       DEF SaveApplies, trackerVars, WindowInv, SaveIsConfirmed, StoredIsBehind, SaveIsAhead,
           IndexFacts
  <1>6. CASE SaveResolves
    <2>1. /\ savePromise = "pending" /\ applied /\ applied' = FALSE
          /\ UNCHANGED <<first, mark, stored>>
          /\ savePromise' = "none" \/ saving' = mark
      BY <1>6 DEF SaveResolves, trackerVars
    <2>2. ~ applied' /\ mark # 0
      BY <1>0, <2>1, Zenon DEF WindowInv, SaveIsConfirmed
    <2> QED BY <1>0, <2>1, <2>2 DEF StoredIsBehind, SaveIsAhead
  <1>7. CASE SaveRejects
    BY <1>0, <1>7 DEF SaveRejects, trackerVars, StoredIsBehind, SaveIsAhead
  <1>8. CASE Restart
    BY <1>0, <1>8, StoredIsAcked, RestartStep
  <1>9. CASE FlushSettles
    BY <1>0, <1>9 DEF FlushSettles, trackerVars, saveVars, StoredIsBehind, SaveIsAhead
  <1> QED BY <1>1, <1>3, <1>4, <1>5, <1>6, <1>7, <1>8, <1>9 DEF Next

(* ... and what a flush() waited for is in the store.                       *)
LEMMA CoveredStep ==
    ASSUME IInv, Next
    PROVE  FlushIsCovered'
  <1>0. /\ IndexFacts /\ WindowInv /\ StoredIsBehind /\ SaveIsAhead /\ FlushIsCovered
        /\ flushMark \in Nat
    BY InvFacts, StreamFacts DEF IInv, WindowInv, TypeOK
  <1>1. CASE \E n \in 1..MaxBatch : Pull(n)
    BY <1>0, <1>1 DEF Pull, FlushIsCovered
  <1>2. ASSUME NEW s \in Seqs, Done(s)
        PROVE  FlushIsCovered'
    <2>1. ScheduleSave /\ UNCHANGED <<flush, flushMark, stored>>
      BY <1>2 DEF Done
    <2>2. mark <= mark' /\ mark' \in Nat
      BY <1>0, <1>2, DoneWindow, StreamFacts
    <2>3. savePromise = "pending" => savePromise' = "pending"
      BY <2>1 DEF ScheduleSave, saveVars
    <2> QED BY <1>0, <2>1, <2>2, <2>3 DEF FlushIsCovered, IndexFacts
  <1>3. CASE Flush
    <2>1. /\ UNCHANGED <<mark, stored>> /\ flushMark' = mark
          /\ flush' \in {"resolved", "awaiting", "rejected"}
          /\ flush' = "awaiting" => savePromise' = "pending"
      <3>1. savePromise' \in {"none", "pending", "stuck"}
        BY <1>0, <1>3, FlushStep DEF WindowInv, TypeOK
      <3> QED BY <1>3, <3>1 DEF Flush
    <2>2. flush' = "resolved" => flushMark' = 0
      BY <1>0, <1>3, <2>1, FlushStep
    <2> QED BY <1>0, <2>1, <2>2 DEF FlushIsCovered, IndexFacts
  <1>4. CASE FlushSettles
    BY <1>0, <1>4 DEF FlushSettles, trackerVars, saveVars, FlushIsCovered
  <1>5. CASE SaveApplies
    BY <1>0, <1>5 DEF SaveApplies, trackerVars, FlushIsCovered, SaveIsAhead, IndexFacts
  <1>6. CASE SaveResolves
    BY <1>0, <1>6 DEF SaveResolves, trackerVars, FlushIsCovered, SaveIsAhead, IndexFacts
  <1>7. CASE SaveRejects
    BY <1>0, <1>7 DEF SaveRejects, trackerVars, FlushIsCovered
  <1>8. CASE Restart
    BY <1>0, <1>8, StoredIsAcked, RestartStep
  <1> QED BY <1>1, <1>2, <1>3, <1>4, <1>5, <1>6, <1>7, <1>8 DEF Next

(* Nothing moves. *)
LEMMA StutterStep ==
    ASSUME IInv, UNCHANGED vars
    PROVE  IInv'
  BY DEF vars, IInv, WindowInv, TypeOK, TrackedIsWindow, ConfirmedAreAcked, MarkIsConfirmed,
         StoredIsBehind, SaveIsConfirmed, SaveIsAhead, FlushIsCovered, Confirmed

(* Every step of the specification keeps the inductive invariant.           *)
LEMMA NextInv ==
    ASSUME IInv, [Next]_vars
    PROVE  IInv'
  <1>1. CASE Next
    <2>1. WindowInv /\ AckedUpTo(stored)
      BY StoredIsAcked DEF IInv
    <2> QED BY <1>1, <2>1, WindowStep, BehindStep, CoveredStep DEF IInv
  <1>2. CASE UNCHANGED vars
    BY <1>2, StutterStep
  <1> QED BY <1>1, <1>2

(* The inductive invariant holds in every reachable state.                  *)
THEOREM Invariance == Spec => []IInv
  <1>1. Init => IInv
    BY InitInv
  <1>2. IInv /\ [Next]_vars => IInv'
    BY NextInv
  <1> QED BY <1>1, <1>2, PTL DEF Spec

(* Every variable of the tracker keeps its type.                            *)
THEOREM TypeCorrect == Spec => []TypeOK
  <1>1. IInv => TypeOK
    BY DEF IInv, WindowInv
  <1> QED BY <1>1, Invariance, PTL

(* The cursor in the store never covers an event that was not acknowledged, *)
(* whatever batches, acks, failures and restarts there are.                 *)
THEOREM DurableCursorIsSafe == Spec => []CursorCoversOnlyAcked
  <1>1. IInv => CursorCoversOnlyAcked
    BY StoredIsAcked DEF CursorCoversOnlyAcked
  <1> QED BY <1>1, Invariance, PTL

(* A step moves the stored cursor forward or leaves it, and the events it   *)
(* newly covers are acknowledged.                                           *)
LEMMA StoredStep ==
    ASSUME IInv, [Next]_vars
    PROVE  /\ stored' >= stored
           /\ stored' # stored => UNCHANGED acked
  <1>1. stored \in Nat
    BY InvFacts DEF IInv, IndexFacts
  <1>2. CASE SaveApplies
    BY <1>2, InvFacts DEF SaveApplies, IInv, SaveIsAhead, IndexFacts
  <1>3. CASE ~SaveApplies
    <2>1. UNCHANGED stored
      BY <1>3 DEF Next, vars, Pull, Done, Flush, FlushSettles, SaveResolves, SaveRejects, Restart
    <2> QED BY <2>1, <1>1
  <1> QED BY <1>2, <1>3

(* The stored cursor never regresses.                                       *)
THEOREM CursorIsMonotonic == Spec => CursorNeverRegresses
  <1>1. IInv /\ [Next]_vars => [stored' >= stored]_vars
    BY StoredStep
  <1> QED BY <1>1, Invariance, PTL DEF Spec, CursorNeverRegresses

(* flush() resolves only when the store holds the watermark of its call or  *)
(* a later one: the save loop it awaits ends only there, and what comes     *)
(* between that end and flush()'s continuation moves the store forward only. *)
THEOREM FlushIsDurable == Spec => FlushResolvesDurable
  <1>1. ASSUME IInv, [Next]_vars, flush # "done", flush' = "done"
        PROVE  stored' >= flushMark
    <2>1. CASE FlushSettles
      <3>1. flush = "resolved" /\ stored' = stored
        BY <1>1, <2>1 DEF FlushSettles
      <3>2. flushMark <= stored /\ flushMark \in Nat /\ stored \in Nat
        BY <1>1, <3>1, InvFacts, StreamFacts
           DEF IInv, FlushIsCovered, WindowInv, TypeOK, IndexFacts
      <3> QED BY <3>1, <3>2
    <2>2. CASE ~FlushSettles
      <3>1. ~Flush
        BY <1>1, FlushStep DEF IInv, WindowInv, TypeOK, Flush
      <3> QED BY <1>1, <2>2, <3>1
                 DEF Next, vars, Pull, Done, SaveApplies, SaveResolves, SaveRejects, Restart
    <2> QED BY <2>1, <2>2
  <1>2. IInv /\ [Next]_vars =>
          [flush # "done" /\ flush' = "done" => stored' >= flushMark]_vars
    BY <1>1
  <1> QED BY <1>2, Invariance, PTL DEF Spec, FlushResolvesDurable

(* The tracker, its save loop, failures and restarts implement the abstract *)
(* cursor: acks are Handle steps, a save the store applies is an Advance.   *)
THEOREM Refinement == Spec => ImplementsAtLeastOnce
  <1>1. Init => Abstract!Init
    BY DEF Init, Abstract!Init
  <1>2. ASSUME IInv, IInv', [Next]_vars
        PROVE  [Abstract!Next]_(Abstract!vars)
    <2>1. CASE \E s \in Seqs : Done(s)
      <3>1. PICK s \in Seqs : acked' = acked \union {s} /\ stored' = stored
        BY <2>1 DEF Done
      <3> QED BY <3>1 DEF Abstract!Next, Abstract!Handle, Abstract!Offered, Seqs, N
    <2>2. CASE SaveApplies
      <3>1. CASE stored' = stored
        BY <3>1, <2>2 DEF SaveApplies, Abstract!vars
      <3>2. CASE stored' # stored
        <4>1. stored' = saving /\ saving \in Seqs /\ stored < saving /\ UNCHANGED acked
          <5>1. stored' = saving /\ savePromise = "pending" /\ UNCHANGED acked
            BY <2>2 DEF SaveApplies
          <5>2. saving # 0 /\ stored <= saving /\ saving \in Seqs
            BY <5>1, <1>2, StreamFacts DEF IInv, WindowInv, SaveIsConfirmed, SaveIsAhead, TypeOK
          <5>3. stored \in Nat /\ saving \in Nat
            BY <1>2, InvFacts DEF IInv, IndexFacts
          <5> QED BY <5>1, <5>2, <5>3, <3>2
        <4>2. stored' \in Seqs /\ stored' > stored
          BY <4>1, <1>2, InvFacts DEF IInv, IndexFacts
        <4>3. \A i \in 1..N : Stream[i] <= stored' => Stream[i] \in acked
          <5>1. AckedUpTo(saving)
            BY <2>2, <1>2, MarkIsAcked DEF IInv, SaveApplies
          <5> QED BY <5>1, <4>1 DEF AckedUpTo
        <4> QED
          BY <4>1, <4>2, <4>3
             DEF Abstract!Next, Abstract!Advance, Abstract!HandledUpTo,
                 Abstract!Offered, Seqs, N
      <3> QED BY <3>1, <3>2
    <2>3. CASE ~(\E s \in Seqs : Done(s)) /\ ~SaveApplies
      BY <1>2, <2>3
         DEF Next, vars, Pull, Flush, FlushSettles, SaveResolves, SaveRejects, Restart,
             Abstract!vars
    <2> QED BY <2>1, <2>2, <2>3
  <1>3. IInv /\ IInv' /\ [Next]_vars => [Abstract!Next]_(Abstract!vars)
    BY <1>2
  <1> QED
    BY <1>1, <1>3, Invariance, PTL DEF Spec, ImplementsAtLeastOnce, Abstract!Spec

(* A step keeps the watermark tight: done() stops at the first unconfirmed  *)
(* event, and a batch brings seqs no ack has named yet.                     *)
LEMMA TightStep ==
    ASSUME WindowInv, DoneAreDelivered, WatermarkIsTight, [Next]_vars
    PROVE  DoneAreDelivered' /\ WatermarkIsTight'
  <1>0. /\ IndexFacts /\ tracked \in Seq(Seqs)
        /\ \A i \in 1..N : Stream[i] \in Nat
        /\ \A d \in doneSet : \E i \in first..pulled : d = Stream[i]
    BY InvFacts, StreamFacts DEF WindowInv, TypeOK, DoneAreDelivered, Delivered
  <1>1. ASSUME NEW n \in 1..MaxBatch, Pull(n)
        PROVE  DoneAreDelivered' /\ WatermarkIsTight'
    <2>1. /\ n \in Nat /\ n >= 1 /\ pulled + n <= N
          /\ first' = first /\ pulled' = pulled + n /\ doneSet' = doneSet
      BY <1>1, BoundsAssumption DEF Pull
    <2>2. DoneAreDelivered'
      <3>1. first..pulled \subseteq first'..pulled'
        BY <1>0, <2>1 DEF IndexFacts
      <3> QED BY <2>1, <3>1 DEF DoneAreDelivered, Delivered
    <2>3. /\ Len(tracked') = Len(tracked) + n
          /\ tracked'[1] = Stream[Confirmed + 1]
      <3>1. 1 \in 1..Len(tracked')
        BY <1>0, <1>1, <2>1, PullWindow DEF IndexFacts
      <3> QED BY <1>1, <3>1, PullWindow
    <2>4. CASE Len(tracked) = 0
      <3>1. Confirmed + 1 = pulled + 1 /\ pulled + 1 \in 1..N
        BY <1>0, <2>1, <2>4 DEF IndexFacts
      <3>2. \A i \in first..pulled : Stream[i] < Stream[pulled + 1]
        BY <1>0, <3>1, StreamFacts DEF IndexFacts
      <3>3. \A i \in first..pulled : Stream[i] # Stream[pulled + 1]
        BY <1>0, <3>1, <3>2 DEF IndexFacts
      <3>4. tracked'[1] \notin doneSet
        BY <1>0, <2>3, <3>1, <3>3
      <3> QED BY <2>1, <2>2, <3>4 DEF WatermarkIsTight
    <2>5. CASE Len(tracked) # 0
      <3>1. tracked # <<>> /\ 1 \in 1..Len(tracked)
        BY <1>0, <2>5, EmptyTracked DEF IndexFacts
      <3>2. tracked[1] = Stream[Confirmed + 1]
        BY <3>1 DEF WindowInv, TrackedIsWindow
      <3>3. tracked'[1] \notin doneSet'
        BY <2>1, <2>3, <3>1, <3>2 DEF WatermarkIsTight
      <3> QED BY <2>2, <3>3 DEF WatermarkIsTight
    <2> QED BY <2>4, <2>5
  <1>2. ASSUME NEW s \in Seqs, Done(s)
        PROVE  DoneAreDelivered' /\ WatermarkIsTight'
    <2>1. PICK k \in 0..Len(tracked) :
            /\ IsConfirmedPrefix(k, tracked, doneSet \union {s})
            /\ doneSet' = (doneSet \union {s}) \ {tracked[i] : i \in 1..k}
            /\ tracked' = SubSeq(tracked, k + 1, Len(tracked))
      BY <1>2 DEF Done
    <2>2. first' = first /\ pulled' = pulled /\ s \in Delivered
      BY <1>2 DEF Done
    <2>3. DoneAreDelivered'
      BY <2>1, <2>2 DEF DoneAreDelivered, Delivered
    <2>4. CASE k = Len(tracked)
      <3>1. tracked' \in Seq(Seqs) /\ Len(tracked') = 0
        <4>1. \A i \in (k + 1)..Len(tracked) : tracked[i] \in Seqs
          BY <1>0, <2>4 DEF IndexFacts
        <4> QED BY <1>0, <2>1, <2>4, <4>1, SubSeqProperties DEF IndexFacts
      <3>2. tracked' = <<>>
        BY <3>1, EmptySeq
      <3> QED BY <2>3, <3>2 DEF WatermarkIsTight
    <2>5. CASE k < Len(tracked)
      <3>1. k \in Nat /\ \A i \in (k + 1)..Len(tracked) : tracked[i] \in Seqs
        BY <1>0, ElementOfSeq DEF IndexFacts
      <3>2. tracked'[1] = tracked[(k + 1) + 1 - 1]
        BY <1>0, <2>1, <2>5, <3>1, SubSeqProperties DEF IndexFacts
      <3>3. tracked'[1] = tracked[k + 1] /\ tracked[k + 1] \notin doneSet \union {s}
        BY <2>1, <2>5, <3>1, <3>2 DEF IsConfirmedPrefix
      <3> QED BY <2>1, <2>3, <3>3 DEF WatermarkIsTight
    <2> QED BY <1>0, <2>4, <2>5 DEF IndexFacts
  <1>3. CASE Restart
    BY <1>3 DEF Restart, DoneAreDelivered, WatermarkIsTight
  <1>4. ASSUME UNCHANGED <<first, pulled, tracked, doneSet>>
        PROVE  DoneAreDelivered' /\ WatermarkIsTight'
    BY <1>4 DEF DoneAreDelivered, Delivered, WatermarkIsTight
  <1>5. CASE Flush \/ FlushSettles \/ SaveApplies \/ SaveResolves \/ SaveRejects
             \/ UNCHANGED vars
    BY <1>4, <1>5 DEF Flush, FlushSettles, SaveApplies, SaveResolves, SaveRejects, trackerVars, vars
  <1> QED BY <1>1, <1>2, <1>3, <1>5 DEF Next

(* The watermark is as far as the acks allow: nothing acknowledged is held  *)
(* back from the store by a done() that stops too early.                    *)
THEOREM WatermarkCatchesUp == Spec => []WatermarkIsTight
  <1>1. Init => DoneAreDelivered /\ WatermarkIsTight
    BY DEF Init, DoneAreDelivered, WatermarkIsTight
  <1>2. IInv /\ DoneAreDelivered /\ WatermarkIsTight /\ [Next]_vars
          => (DoneAreDelivered /\ WatermarkIsTight)'
    BY TightStep DEF IInv
  <1> QED BY <1>1, <1>2, Invariance, PTL DEF Spec

(* What flush()'s comment says is true of a store that only ever fails by   *)
(* rejecting: the save loop is never stuck, and when flush() is called a    *)
(* save is in flight unless there is nothing to save.                       *)
THEOREM FlushReachesStore ==
    ASSUME SyncThrow = FALSE
    PROVE  Spec => [](savePromise \in {"none", "pending"}) /\ FlushSchedulesSave
  <1>1. Init => savePromise \in {"none", "pending"}
    BY DEF Init
  <1>2. savePromise \in {"none", "pending"} /\ [Next]_vars => (savePromise \in {"none", "pending"})'
    <2> SUFFICES ASSUME savePromise \in {"none", "pending"}, [Next]_vars PROVE savePromise' \in {"none", "pending"}
      OBVIOUS
    <2>1. ScheduleSave => savePromise' \in {"none", "pending"}
      BY DEF ScheduleSave, StartSaveLoop, saveVars
    <2> QED BY <2>1 DEF Next, vars, Pull, Done, Flush, FlushSettles, SaveApplies, SaveResolves,
                      SaveRejects, Restart, saveVars
  <1>3. savePromise \in {"none", "pending"} /\ [Next]_vars =>
          [flush = "none" /\ flush' # "none" => savePromise' = "pending" \/ mark' \in {0, stored'}]_vars
    <2> SUFFICES ASSUME savePromise \in {"none", "pending"}, [Next]_vars, flush = "none", flush' # "none"
                 PROVE  savePromise' = "pending" \/ mark' = 0
      OBVIOUS
    <2>1. Flush
      BY DEF Next, vars, Pull, Done, FlushSettles, SaveApplies, SaveResolves, SaveRejects,
             Restart
    <2> QED BY <2>1 DEF Flush, ScheduleSave, StartSaveLoop, saveVars
  <1> QED BY <1>1, <1>2, <1>3, PTL DEF Spec, FlushSchedulesSave
==============================================================================
