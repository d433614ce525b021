------------------------- MODULE ArchiveSweep_proofs -------------------------
(* Proofs about ArchiveSweep: for every archive, whatever the lengths of    *)
(* its blocks, every filter, cursor and ceiling, every plan the server may  *)
(* make, and any number of failed downloads.                                *)
EXTENDS ArchiveSweep, FiniteSetTheorems, SequenceTheorems, WellFoundedInduction, TLAPS

(* The least element of a set of naturals.                                  *)
LEMMA MinOfNats ==
    ASSUME NEW T, T \subseteq Nat, T # {}
    PROVE  Min(T) \in T /\ \A y \in T : Min(T) <= y
  <1>1. \E x \in T : \A y \in T : ~ (<<y, x>> \in OpToRel(<, Nat))
    BY NatLessThanWellFounded, WFMin, Zenon
  <1>2. \A a, b \in Nat : a < b => <<a, b>> \in OpToRel(<, Nat)
    BY Zenon DEF OpToRel
  <1>3. \E x \in T : \A y \in T : ~ (y < x)
    BY <1>1, <1>2, Zenon
  <1>4. \E x \in T : \A y \in T : x <= y
    BY <1>3
  <1> QED BY <1>4 DEF Min

(* The greatest element of a bounded set of naturals: its least upper bound.*)
LEMMA MaxOfNats ==
    ASSUME NEW n \in Nat, NEW S, S \subseteq 0..n, S # {}
    PROVE  Max(S) \in S /\ \A y \in S : y <= Max(S)
  <1> DEFINE T == {m \in 0..n : \A y \in S : y <= m}
  <1>1. T \subseteq Nat /\ n \in T
    OBVIOUS
  <1>2. Min(T) \in T /\ \A y \in T : Min(T) <= y
    BY <1>1, MinOfNats
  <1>3. Min(T) \in S
    <2> SUFFICES ASSUME Min(T) \notin S PROVE FALSE
      OBVIOUS
    <2>1. PICK y \in S : y \in 0..n
      OBVIOUS
    <2>2. Min(T) \in 0..n /\ \A z \in S : z \in 0..n /\ z <= Min(T) /\ z # Min(T)
      BY <1>2
    <2>3. \A z \in S : z <= Min(T) - 1
      BY <2>2
    <2>4. Min(T) - 1 \in T
      BY <2>1, <2>2, <2>3
    <2> QED BY <1>2, <2>2, <2>4
  <1>4. \E x \in S : \A y \in S : x >= y
    BY <1>2, <1>3
  <1>5. Max(S) \in S /\ \A y \in S : Max(S) >= y
    BY <1>4 DEF Max
  <1> QED BY <1>5

(* What a ceiling leaves of a seq.                                          *)
LEMMA CappedFacts ==
    ASSUME NEW x \in Nat, NEW c \in {None} \union Nat
    PROVE  /\ Capped(x, c) = IF c = None \/ x <= c THEN x ELSE c
           /\ Capped(x, c) \in Nat
  <1>1. CASE c = None
    BY <1>1 DEF Capped
  <1>2. CASE c # None
    <2>1. c \in Nat /\ Capped(x, c) = Min({x, c})
      BY <1>2 DEF Capped
    <2>2. Min({x, c}) \in {x, c} /\ Min({x, c}) <= x /\ Min({x, c}) <= c
      BY <2>1, MinOfNats
    <2> QED BY <1>2, <2>1, <2>2
  <1> QED BY <1>1, <1>2

(* A row is in one block, the first that ends at it or later.               *)
LEMMA RowOf ==
    ASSUME NEW s \in Nat \ {0}, NEW e \in Ends, s <= e
    PROVE  \E b \in Ends : s \in Rows(b)
  <1> DEFINE T == {d \in Ends : s <= d}
  <1>0. Ends \subseteq Nat
    BY ArchiveAssumption
  <1>1. T \subseteq Nat /\ e \in T
    BY <1>0
  <1>2. Min(T) \in T /\ \A d \in T : Min(T) <= d
    BY <1>1, MinOfNats
  <1>3. s \in Rows(Min(T))
    BY <1>1, <1>2 DEF Rows
  <1> QED BY <1>2, <1>3

(* A row of a block lies at or below the end of its block, which is the first
   end at or above it.                                                      *)
LEMMA RowFacts ==
    ASSUME NEW b \in Ends, NEW s \in Rows(b)
    PROVE  /\ b \in Nat /\ b \in 1..MaxSeq /\ s \in Nat /\ s \in 1..MaxSeq /\ s <= b
           /\ \A e \in Ends : s <= e => b <= e
  BY ArchiveAssumption DEF Rows

(* The types of the state, one by one.                                      *)
LEMMA TypeFacts ==
    ASSUME TypeOK
    PROVE  /\ after \in Nat /\ before \in {None} \union Nat
           /\ tip \in Nat /\ (tip = 0 \/ tip \in Ends)
           /\ resume \in Nat /\ lastEmitted \in Nat /\ planCursor \in Nat /\ through \in Nat
           /\ pin \in {None} \union Nat /\ sealedTip \in {None} \union Nat
           /\ resume \in 0..MaxSeq /\ lastEmitted \in 0..MaxSeq
           /\ planCursor \in 0..MaxSeq /\ through \in 0..MaxSeq
           /\ tip \in 0..MaxSeq
           /\ MaxSeq \in Nat /\ MaxReplans \in Nat
           /\ Ends \subseteq Nat /\ Ends \subseteq 1..MaxSeq
           /\ Wanted \subseteq Nat /\ Wanted \subseteq Selected
           /\ Selected \subseteq 1..MaxSeq /\ Range(out) \subseteq Wanted
           /\ out \in Seq(Wanted)
  <1>1. /\ MaxSeq \in Nat /\ MaxReplans \in Nat /\ Ends \subseteq 1..MaxSeq
        /\ Wanted \subseteq Selected /\ Selected \subseteq 1..MaxSeq
        /\ after \in 0..MaxSeq /\ before \in {None} \union 1..MaxSeq
    BY ArchiveAssumption, FiltersAssumption, RequestAssumption DEF TypeOK
  <1>2. tip = 0 \/ tip \in Ends
    BY DEF TypeOK, Tips
  <1>3. /\ resume \in 0..MaxSeq /\ lastEmitted \in 0..MaxSeq
        /\ planCursor \in 0..MaxSeq /\ through \in 0..MaxSeq
        /\ pin \in {None} \union 0..MaxSeq /\ sealedTip \in {None} \union 0..MaxSeq
    BY DEF TypeOK
  <1>4. out \in Seq(Wanted)
    BY DEF TypeOK
  <1>5. Range(out) \subseteq Wanted
    <2>1. \A i \in DOMAIN out : out[i] \in Wanted
      BY <1>4
    <2> QED BY <2>1 DEF Range
  <1>6. /\ after \in Nat /\ before \in {None} \union Nat
        /\ resume \in Nat /\ lastEmitted \in Nat /\ planCursor \in Nat /\ through \in Nat
        /\ pin \in {None} \union Nat /\ sealedTip \in {None} \union Nat
    BY <1>1, <1>3
  <1>7. Ends \subseteq Nat /\ Selected \subseteq Nat /\ Wanted \subseteq Nat
    BY <1>1
  <1>8. tip \in Nat /\ tip \in 0..MaxSeq
    <2>1. MaxSeq \in Nat /\ \A e \in Ends : e \in 1..MaxSeq
      BY <1>1, Zenon
    <2>2. CASE tip = 0
      BY <2>1, <2>2
    <2>3. CASE tip \in Ends
      <3>1. tip \in 1..MaxSeq
        BY <2>1, <2>3, Zenon
      <3> QED BY <2>1, <3>1
    <2> QED BY <1>2, <2>2, <2>3
  <1> QED BY <1>1, <1>2, <1>3, <1>4, <1>5, <1>6, <1>7, <1>8

(* Appending a batch, all of it above what was yielded, keeps the order.    *)
LEMMA BatchFacts ==
    ASSUME TypeOK, OutAscends, NEW S, S \subseteq Wanted,
           \A s \in S : \A r \in Range(out) : r < s,
           NEW batch \in Batches(S), out' = out \o batch
    PROVE  out' \in Seq(Wanted) /\ OutAscends' /\ Range(out') = Range(out) \union S
  <1>1. /\ MaxSeq \in Nat /\ Wanted \subseteq 1..MaxSeq /\ out \in Seq(Wanted)
        /\ Wanted \subseteq Nat
    BY TypeFacts
  <1>2. Cardinality(S) \in Nat
    <2>1. IsFiniteSet(1..MaxSeq)
      BY <1>1, FS_Interval
    <2>2. IsFiniteSet(S)
      BY <1>1, <2>1, FS_Subset
    <2> QED BY <2>2, FS_CardinalityType
  <1>3. /\ batch \in [1..Cardinality(S) -> S] /\ Range(batch) = S
        /\ \A i, j \in DOMAIN batch : i < j => batch[i] < batch[j]
    BY DEF Batches, Lists
  <1>4. batch \in Seq(Wanted) /\ Len(batch) = Cardinality(S)
    BY <1>2, <1>3
  <1>5. /\ out' \in Seq(Wanted) /\ Len(out') = Len(out) + Len(batch)
        /\ \A i \in 1..(Len(out) + Len(batch)) :
               out'[i] = IF i <= Len(out) THEN out[i] ELSE batch[i - Len(out)]
    BY <1>1, <1>4, ConcatProperties
  <1>6. /\ Len(out) \in Nat /\ DOMAIN out = 1..Len(out)
        /\ Len(batch) \in Nat /\ DOMAIN batch = 1..Len(batch)
        /\ DOMAIN out' = 1..(Len(out) + Len(batch))
    BY <1>1, <1>4, <1>5, LenProperties
  <1>7. \A i \in DOMAIN out' :
           \/ i \in DOMAIN out /\ out'[i] = out[i]
           \/ i > Len(out) /\ i - Len(out) \in DOMAIN batch
              /\ out'[i] = batch[i - Len(out)]
    BY <1>5, <1>6
  <1>8. /\ \A i \in DOMAIN out : i \in DOMAIN out' /\ out'[i] = out[i]
        /\ \A k \in DOMAIN batch : Len(out) + k \in DOMAIN out'
                                   /\ out'[Len(out) + k] = batch[k]
    BY <1>5, <1>6
  <1>9. Range(out') = Range(out) \union S
    <2>1. Range(out') \subseteq Range(out) \union Range(batch)
      BY <1>7, Zenon DEF Range
    <2>2. Range(out) \subseteq Range(out') /\ Range(batch) \subseteq Range(out')
      BY <1>8, Zenon DEF Range
    <2> QED BY <1>3, <2>1, <2>2
  <1>10. /\ \A i \in DOMAIN out : out[i] \in Range(out) /\ out[i] \in Nat
         /\ \A k \in DOMAIN batch : batch[k] \in S /\ batch[k] \in Nat
    <2>1. /\ \A i \in DOMAIN out : out[i] \in Range(out)
          /\ \A k \in DOMAIN batch : batch[k] \in Range(batch)
      BY Zenon DEF Range
    <2>2. \A i \in DOMAIN out : out[i] \in Wanted
      BY <1>1
    <2> QED BY <1>1, <1>3, <2>1, <2>2
  <1>11. OutAscends'
    <2> SUFFICES ASSUME NEW i \in DOMAIN out', NEW j \in DOMAIN out', i < j
                 PROVE  out'[i] < out'[j]
      BY DEF OutAscends
    <2>0. i \in Nat /\ j \in Nat
      BY <1>6
    <2>1. CASE j \in DOMAIN out
      BY <1>6, <1>7, <1>8, <2>0, <2>1 DEF OutAscends
    <2>2. CASE i \in DOMAIN out /\ j \notin DOMAIN out
      BY <1>7, <1>10, <2>2
    <2>3. CASE i \notin DOMAIN out /\ j \notin DOMAIN out
      <3>1. /\ i - Len(out) \in DOMAIN batch /\ out'[i] = batch[i - Len(out)]
            /\ j - Len(out) \in DOMAIN batch /\ out'[j] = batch[j - Len(out)]
        BY <1>7, <2>3
      <3>2. i - Len(out) < j - Len(out)
        BY <1>6, <2>0
      <3> QED BY <1>3, <3>1, <3>2
    <2>4. i \in DOMAIN out \/ j \notin DOMAIN out
      BY <1>6, <2>0
    <2> QED BY <2>1, <2>2, <2>3, <2>4
  <1> QED BY <1>5, <1>9, <1>11

-------------------------------------------------------------------------------
(* The window: one lemma per action *)

(* Nothing is read yet: the first page is due.                              *)
LEMMA InitWindow == Init => WindowInv
  <1> SUFFICES ASSUME Init PROVE WindowInv
    OBVIOUS
  <1>1. /\ out = <<>> /\ DOMAIN out = {} /\ out \in Seq(Wanted)
    BY EmptySeq DEF Init
  <1>2. Range(out) = {}
    BY <1>1, Zenon DEF Range
  <1>3. /\ MaxSeq \in Nat /\ MaxReplans \in Nat
        /\ after \in 0..MaxSeq /\ after \in Nat
        /\ before \in {None} \union 1..MaxSeq /\ before \in {None} \union Nat
    BY ArchiveAssumption, RequestAssumption DEF Init
  <1>4. TypeOK
    BY <1>1, <1>3 DEF Init, TypeOK
  <1>5. ReadUpTo(lastEmitted)
    <2>1. \A w \in Wanted : w \in Nat
      BY <1>4, TypeFacts
    <2>2. Capped(after, before) <= after
      BY <1>3, CappedFacts
    <2>3. Capped(after, before) \in Nat
      BY <1>3, CappedFacts
    <2>4. lastEmitted = after /\ resume = after
      BY DEF Init
    <2>5. \A w \in Wanted : ~ (after < w /\ w <= Capped(after, before))
      BY <1>3, <2>1, <2>2, <2>3
    <2> QED BY <2>4, <2>5 DEF ReadUpTo
  <1>6. OutAscends /\ EmittedIsHighest
    BY <1>1, <1>2, <1>3 DEF Init, OutAscends, EmittedIsHighest
  <1> QED
    BY <1>3, <1>4, <1>5, <1>6
       DEF Init, WindowInv, PinIsSealed, PlanIsDue, PageIsRead, SweptIsRead, WithinReplans

(* A block is sealed: the tip rises to the block's end.                     *)
LEMMA SealFacts ==
    ASSUME tip \in Tips, Seal
    PROVE  /\ UNCHANGED <<after, before, phase, resume, lastEmitted, sealedTip, pin,
                          planCursor, through, blocks, replans, out>>
           /\ tip' \in Ends /\ tip' \in Nat /\ tip \in Nat /\ tip < tip'
  <1> DEFINE unsealed == {b \in Blocks : tip < b}
  <1>1. /\ UNCHANGED <<after, before, phase, resume, lastEmitted, sealedTip, pin,
                       planCursor, through, blocks, replans, out>>
        /\ unsealed # {} /\ tip' = Min(unsealed)
    BY DEF Seal, askedVars, planVars
  <1>2. Ends \subseteq Nat
    BY ArchiveAssumption
  <1>3. unsealed \subseteq Nat /\ tip \in Nat
    <2>1. unsealed \subseteq Nat
      BY <1>2 DEF Blocks
    <2>2. tip = 0 \/ tip \in Ends
      BY DEF Tips
    <2>3. 0 \in Nat
      OBVIOUS
    <2> HIDE DEF unsealed
    <2> QED BY <1>2, <2>1, <2>2, <2>3, Zenon
  <1>4. Min(unsealed) \in unsealed
    BY <1>1, <1>3, MinOfNats
  <1> QED BY <1>1, <1>2, <1>3, <1>4 DEF Blocks

(* ... and a pinned tip stays behind.                                       *)
LEMMA SealStep == ASSUME WindowInv, Seal PROVE WindowInv'
  <1>1. /\ UNCHANGED <<after, before, phase, resume, lastEmitted, sealedTip, pin,
                       planCursor, through, blocks, replans, out>>
        /\ tip' \in Ends /\ tip' \in Nat /\ tip \in Nat /\ tip < tip'
    BY SealFacts DEF WindowInv, TypeOK
  <1>2. pin # None => pin <= tip'
    BY <1>1, TypeFacts DEF WindowInv, PinIsSealed
  <1>3. TypeOK'
    BY <1>1 DEF WindowInv, TypeOK, Tips
  <1>4. PinIsSealed'
    BY <1>1, <1>2 DEF WindowInv, PinIsSealed, Tips
  <1> QED
    BY <1>1, <1>3, <1>4
       DEF WindowInv, OutAscends, EmittedIsHighest, ReadUpTo, Capped, PlanIsDue,
           PageIsRead, SweptIsRead, WithinReplans, Kept

(* The rest of the system leaves the window alone.                          *)
LEMMA OtherStep ==
    ASSUME WindowInv,
           UNCHANGED <<after, before, tip, phase, resume, lastEmitted, sealedTip, pin,
                       planCursor, through, blocks, replans, out>>
    PROVE  WindowInv'
  BY DEF WindowInv, TypeOK, OutAscends, EmittedIsHighest, ReadUpTo, Capped, PinIsSealed,
         PlanIsDue, PageIsRead, SweptIsRead, WithinReplans, Kept

(* What a plan for the page behind c promises: a prefix of what the pinned  *)
(* tip leaves, through the end of a block, unless it is the last.           *)
LEMMA PlanFacts ==
    ASSUME WindowInv, Plan
    PROVE  /\ UNCHANGED <<after, before, tip, resume, lastEmitted, planCursor, replans, out>>
           /\ phase = "plan" /\ phase' = "page"
           /\ blocks' = PlannedBlocks(planCursor, through')
           /\ pin' \in Nat /\ sealedTip' = pin' /\ pin' <= tip
           /\ before # None => pin' <= before
           /\ pin' \in Tips \/ pin' = before
           /\ pin # None => pin' = pin
           /\ pin = None => pin' = tip \/ pin' = before
           /\ \/ through' = pin'
              \/ through' = planCursor
              \/ through' \in Ends /\ planCursor < through' /\ through' < pin'
  <1> DEFINE ceiling == IF pin = None THEN before ELSE pin
  <1>1. /\ UNCHANGED <<after, before, tip, resume, lastEmitted, planCursor, replans, out>>
        /\ phase = "plan" /\ phase' = "page"
        /\ blocks' = PlannedBlocks(planCursor, through')
        /\ sealedTip' = Capped(tip, ceiling)
        /\ pin' = IF pin = None THEN Capped(sealedTip', before) ELSE pin
        /\ through' \in PlannedThrough(planCursor, ceiling)
    BY DEF Plan, askedVars
  <1>2. /\ tip \in Nat /\ before \in {None} \union Nat /\ pin \in {None} \union Nat
        /\ tip \in Tips
    BY TypeFacts DEF WindowInv, TypeOK
  <1>3. \/ through' = Capped(tip, ceiling)
        \/ through' = planCursor
        \/ through' \in Ends /\ planCursor < through' /\ through' < Capped(tip, ceiling)
    BY <1>1 DEF PlannedThrough, Blocks
  <1>4. CASE pin = None
    <2>1. ceiling = before
      BY <1>4
    <2>2. /\ Capped(tip, before) = IF before = None \/ tip <= before THEN tip ELSE before
          /\ Capped(tip, before) \in Nat
      BY <1>2, CappedFacts
    <2>3. /\ sealedTip' = Capped(tip, before) /\ sealedTip' \in Nat
          /\ pin' = Capped(sealedTip', before)
      BY <1>1, <1>4, <2>1, <2>2
    <2>4. Capped(sealedTip', before) =
              IF before = None \/ sealedTip' <= before THEN sealedTip' ELSE before
      BY <1>2, <2>3, CappedFacts
    <2>5. pin' = sealedTip'
      BY <1>2, <2>2, <2>3, <2>4
    <2>6. /\ sealedTip' <= tip /\ (before # None => sealedTip' <= before)
          /\ sealedTip' \in Tips \/ sealedTip' = before
          /\ sealedTip' = tip \/ sealedTip' = before
      BY <1>2, <2>2, <2>3
    <2> QED BY <1>1, <1>3, <1>4, <2>1, <2>3, <2>5, <2>6
  <1>5. CASE pin # None
    <2>1. /\ ceiling = pin /\ pin \in Nat /\ pin <= tip
          /\ (before # None => pin <= before) /\ (pin \in Tips \/ pin = before)
      BY <1>2, <1>5 DEF WindowInv, PinIsSealed
    <2>2. Capped(tip, pin) = pin
      <3>1. Capped(tip, pin) = IF pin = None \/ tip <= pin THEN tip ELSE pin
        BY <1>2, <2>1, CappedFacts
      <3> QED BY <1>2, <1>5, <2>1, <3>1
    <2>3. sealedTip' = pin /\ pin' = pin
      BY <1>1, <1>5, <2>1, <2>2
    <2> QED BY <1>1, <1>3, <2>1, <2>2, <2>3
  <1> QED BY <1>4, <1>5

(* The page's blocks lie above what was yielded, because a page but the     *)
(* first begins at the end of a block; and they hold all it promised.       *)
LEMMA PlanStep == ASSUME WindowInv, Plan PROVE WindowInv'
  <1>1. /\ UNCHANGED <<after, before, tip, resume, lastEmitted, planCursor, replans, out>>
        /\ phase = "plan" /\ phase' = "page"
        /\ blocks' = PlannedBlocks(planCursor, through')
        /\ pin' \in Nat /\ sealedTip' = pin' /\ pin' <= tip
        /\ before # None => pin' <= before
        /\ pin' \in Tips \/ pin' = before
        /\ pin # None => pin' = pin
        /\ pin = None => pin' = tip \/ pin' = before
        /\ \/ through' = pin'
           \/ through' = planCursor
           \/ through' \in Ends /\ planCursor < through' /\ through' < pin'
    BY PlanFacts
  <1>2. /\ tip \in Nat /\ tip \in 0..MaxSeq /\ (tip = 0 \/ tip \in Ends)
        /\ before \in {None} \union Nat /\ pin \in {None} \union Nat
        /\ resume \in Nat /\ lastEmitted \in Nat /\ planCursor \in Nat
        /\ planCursor \in 0..MaxSeq /\ MaxSeq \in Nat
        /\ Ends \subseteq Nat /\ Ends \subseteq 1..MaxSeq
        /\ Wanted \subseteq Selected /\ Wanted \subseteq Nat /\ Selected \subseteq 1..MaxSeq
    BY TypeFacts DEF WindowInv
  <1>3. pin' \in 0..MaxSeq /\ through' \in 0..MaxSeq /\ through' \in Nat /\ pin' # None
    <2>1. pin' \in 0..MaxSeq /\ pin' # None
      BY <1>1, <1>2 DEF None
    <2>2. \A e \in Ends : e \in 0..MaxSeq
      BY <1>2
    <2>3. through' \in 0..MaxSeq
      BY <1>1, <1>2, <2>1, <2>2, Zenon
    <2> QED BY <1>2, <2>1, <2>3
  <1>4. IF pin = None
        THEN planCursor = resume /\ lastEmitted = resume
        ELSE /\ planCursor \in Ends /\ planCursor < pin
             /\ lastEmitted = resume \/ lastEmitted <= planCursor
             /\ ReadUpTo(planCursor)
    BY <1>1 DEF WindowInv, PlanIsDue
  <1>5. lastEmitted = resume \/ (planCursor \in Ends /\ lastEmitted <= planCursor)
    BY <1>4
  <1>6. TypeOK'
    <2>1. blocks' \subseteq Blocks
      BY <1>1 DEF PlannedBlocks
    <2> QED BY <1>1, <1>3, <2>1 DEF WindowInv, TypeOK
  <1>7. lastEmitted = resume \/ lastEmitted <= through'
    <2>1. CASE pin = None
      BY <1>4, <2>1
    <2>2. CASE pin # None
      <3>1. planCursor < pin' /\ (lastEmitted = resume \/ lastEmitted <= planCursor)
        BY <1>1, <1>4, <2>2
      <3>2. planCursor <= through'
        BY <1>1, <1>2, <1>3, <3>1
      <3> QED BY <1>2, <1>3, <3>1, <3>2
    <2> QED BY <2>1, <2>2
  (* each planned block lies above what was yielded, and within the page *)
  <1>8. ASSUME NEW b \in blocks', NEW s \in Kept(b)
        PROVE  lastEmitted < s /\ s <= through'
    <2>1. PICK r \in Rows(b) : planCursor < r /\ r <= through'
      BY <1>1 DEF PlannedBlocks
    <2>2. /\ b \in Ends /\ b \in Nat /\ s \in Rows(b) /\ s > resume
          /\ (before = None \/ s <= before)
      BY <1>1, <1>2 DEF PlannedBlocks, Blocks, Kept
    <2>3. /\ s \in Nat /\ r \in Nat /\ s <= b /\ r <= b /\ r >= 1
          /\ \A e \in Ends : s <= e => b <= e
          /\ \A e \in Ends : r <= e => b <= e
      BY <2>2, RowFacts
    <2>4. lastEmitted < s
      <3>1. CASE lastEmitted = resume
        BY <2>2, <3>1
      <3>2. CASE planCursor \in Ends /\ lastEmitted <= planCursor
        <4>1. ~ (s <= planCursor)
          BY <1>2, <2>1, <2>2, <2>3, <3>2
        <4> QED BY <1>2, <2>3, <3>2, <4>1
      <3> QED BY <1>5, <3>1, <3>2
    <2>5. s <= through'
      <3>1. CASE through' \in Ends
        BY <1>2, <1>3, <2>1, <2>2, <2>3, <3>1
      <3>2. CASE through' = planCursor
        BY <1>2, <2>1, <2>3, <3>2
      <3>3. CASE through' = pin' /\ through' \notin Ends
        <4>1. pin' # 0
          BY <1>3, <2>1, <2>3, <3>3
        <4>2. pin' = before
          BY <1>1, <3>3, <4>1 DEF Tips
        <4> QED BY <1>3, <2>2, <3>3, <4>2
      <3> QED BY <1>1, <3>1, <3>2, <3>3
    <2> QED BY <2>4, <2>5
  (* and what the page promised is yielded or planned *)
  <1>9. ASSUME NEW w \in Wanted, resume < w, w <= Capped(through', before)
        PROVE  w \in Range(out) \/ \E b \in blocks' : w \in Rows(b)
    <2>1. Capped(through', before) = IF before = None \/ through' <= before
                                     THEN through' ELSE before
      BY <1>2, <1>3, CappedFacts
    <2>2. /\ w \in Nat /\ w \in 1..MaxSeq /\ w <= through'
          /\ (before # None => w <= before)
      BY <1>2, <1>3, <1>9, <2>1
    <2>3. CASE w <= planCursor
      <3>1. pin # None
        BY <1>2, <1>4, <1>9, <2>2, <2>3
      <3>2. ReadUpTo(planCursor)
        BY <1>4, <3>1
      <3>3. Capped(planCursor, before) = IF before = None \/ planCursor <= before
                                         THEN planCursor ELSE before
        BY <1>2, CappedFacts
      <3>4. w <= Capped(planCursor, before)
        BY <1>2, <2>2, <2>3, <3>3
      <3> QED BY <1>9, <3>2, <3>4 DEF ReadUpTo
    <2>4. CASE ~ (w <= planCursor)
      <3>1. \E e \in Ends : w <= e
        <4>1. CASE through' \in Ends
          BY <2>2, <4>1
        <4>2. CASE through' = pin'
          <5>1. w <= tip
            BY <1>1, <1>2, <1>3, <2>2, <4>2
          <5>2. tip # 0
            BY <2>2, <5>1
          <5> QED BY <1>2, <5>1, <5>2
        <4>3. through' # planCursor
          BY <1>2, <2>2, <2>4
        <4> QED BY <1>1, <4>1, <4>2, <4>3
      <3>2. PICK b \in Ends : w \in Rows(b)
        <4>1. w \in Nat \ {0}
          BY <2>2
        <4> QED BY <3>1, <4>1, RowOf
      <3>3. planCursor < w /\ w <= through'
        BY <1>2, <2>2, <2>4
      <3>4. b \in blocks'
        BY <1>1, <3>2, <3>3 DEF PlannedBlocks, Blocks
      <3> QED BY <3>2, <3>4
    <2> QED BY <2>3, <2>4
  <1>10. PageIsRead'
    <2>1. through' \in Ends \/ through' >= pin' \/ through' <= planCursor
      BY <1>1, <1>2, <1>3
    <2>2. \A b \in blocks' : \A s \in Kept(b) : lastEmitted < s /\ s <= through'
      BY <1>8
    <2>3. \A b : Kept(b)' = Kept(b)
      BY <1>1 DEF Kept
    <2>4. \A w \in Wanted : resume < w /\ w <= Capped(through', before) =>
             w \in Range(out) \/ \E b \in blocks' : w \in Rows(b)
      BY <1>9
    <2>5. blocks' # {} => through' <= pin'
      <3>1. through' = planCursor => blocks' = {}
        <4> SUFFICES ASSUME through' = planCursor, NEW b \in blocks' PROVE FALSE
          OBVIOUS
        <4>1. b \in Ends /\ \E s \in Rows(b) : planCursor < s /\ s <= planCursor
          BY <1>1 DEF PlannedBlocks, Blocks
        <4> QED BY <1>2, <4>1, RowFacts
      <3> QED BY <1>1, <1>2, <1>3, <3>1
    <2> QED BY <1>1, <1>3, <1>7, <2>1, <2>2, <2>3, <2>4, <2>5 DEF PageIsRead, Capped
  <1>11. PinIsSealed'
    BY <1>1 DEF PinIsSealed
  <1>12. (OutAscends /\ EmittedIsHighest /\ ReadUpTo(lastEmitted))'
    <2>1. lastEmitted = resume \/ pin = None \/ lastEmitted <= pin
      BY DEF WindowInv, EmittedIsHighest
    <2>2. pin = None => lastEmitted = resume
      BY <1>4
    <2>3. lastEmitted = resume \/ lastEmitted <= pin'
      BY <1>1, <2>1, <2>2
    <2>4. EmittedIsHighest'
      BY <1>1, <2>3 DEF WindowInv, EmittedIsHighest
    <2> QED BY <1>1, <2>4 DEF WindowInv, OutAscends, ReadUpTo, Capped
  <1>13. PlanIsDue' /\ SweptIsRead' /\ WithinReplans'
    BY <1>1 DEF WindowInv, PlanIsDue, SweptIsRead, WithinReplans
  <1> QED BY <1>6, <1>10, <1>11, <1>12, <1>13 DEF WindowInv

(* A block is read: what it yields lies above all that was yielded before,  *)
(* below the rows of the blocks still to be read.                           *)
LEMMA BlockFacts ==
    ASSUME WindowInv, NextBlock
    PROVE  \E b \in blocks :
             /\ b \in Ends /\ b \in Nat /\ b = Min(blocks) /\ blocks' = blocks \ {b}
             /\ \A d \in blocks' : d \in Ends /\ d \in Nat /\ b < d
             /\ lastEmitted' \in Nat /\ lastEmitted <= lastEmitted'
             /\ lastEmitted' \in 0..MaxSeq
             /\ lastEmitted' = lastEmitted \/ lastEmitted' \in Kept(b)
             /\ \A s \in Kept(b) : /\ s \in Nat /\ s <= lastEmitted' /\ s <= b
                                   /\ lastEmitted < s /\ s <= through
             /\ out' \in Seq(Wanted) /\ OutAscends'
             /\ Range(out') = Range(out) \union (Kept(b) \intersect Wanted)
  <1> DEFINE b == Min(blocks)
             K == Kept(b)
  <1>1. /\ phase = "page" /\ blocks # {} /\ blocks' = blocks \ {b}
        /\ lastEmitted' = Max(K \union {lastEmitted})
        /\ \E batch \in Batches(K \intersect Wanted) : out' = out \o batch
    BY DEF NextBlock
  <1>2. /\ resume \in Nat /\ lastEmitted \in Nat /\ lastEmitted \in 0..MaxSeq
        /\ through \in Nat /\ MaxSeq \in Nat /\ Ends \subseteq Nat
        /\ Wanted \subseteq Nat /\ Selected \subseteq 1..MaxSeq
        /\ Range(out) \subseteq Wanted
    BY TypeFacts DEF WindowInv
  <1>3. blocks \subseteq Ends /\ blocks \subseteq Nat
    BY <1>2 DEF WindowInv, TypeOK, Blocks
  <1>4. b \in blocks /\ \A d \in blocks : b <= d
    BY <1>1, <1>3, MinOfNats
  <1>5. \A d \in blocks' : d \in Ends /\ d \in Nat /\ b < d
    <2> HIDE DEF b
    <2>1. \A d \in blocks' : d \in blocks /\ d # b /\ b <= d
      BY <1>1, <1>4
    <2>2. b \in Nat /\ \A d \in blocks' : d \in Ends /\ d \in Nat
      BY <1>3, <1>4, <2>1
    <2>3. \A x, y \in Nat : x # y /\ y <= x => y < x
      OBVIOUS
    <2> QED BY <2>1, <2>2, <2>3, Zenon
  <1>6. \A s \in K : /\ s \in Nat /\ s <= b /\ s \in 0..MaxSeq
                     /\ lastEmitted < s /\ s <= through
    <2> SUFFICES ASSUME NEW s \in K
                 PROVE  /\ s \in Nat /\ s <= b /\ s \in 0..MaxSeq
                        /\ lastEmitted < s /\ s <= through
      OBVIOUS
    <2>1. s \in Rows(b) /\ b \in Ends
      BY <1>3, <1>4 DEF Kept
    <2>2. lastEmitted < s /\ s <= through
      BY <1>1, <1>4 DEF WindowInv, PageIsRead
    <2>3. s \in Nat /\ s \in 1..MaxSeq /\ s <= b
      BY <2>1, RowFacts
    <2> QED BY <1>2, <2>2, <2>3
  <1>7. /\ lastEmitted' \in K \union {lastEmitted}
        /\ \A s \in K \union {lastEmitted} : s <= lastEmitted'
    <2>1. K \union {lastEmitted} \subseteq 0..MaxSeq
      BY <1>2, <1>6
    <2> HIDE DEF K
    <2> QED BY <1>1, <1>2, <2>1, MaxOfNats
  <1>8. PICK batch \in Batches(K \intersect Wanted) : out' = out \o batch
    BY <1>1
  <1>9. \A s \in K \intersect Wanted : \A r \in Range(out) : r < s
    <2>1. \A r \in Range(out) : r \in Nat /\ r <= lastEmitted
      BY <1>2 DEF WindowInv, EmittedIsHighest
    <2> QED BY <1>2, <1>6, <2>1
  <1>10. out' \in Seq(Wanted) /\ OutAscends' /\ Range(out') = Range(out) \union (K \intersect Wanted)
    <2> HIDE DEF K
    <2> QED BY <1>8, <1>9, BatchFacts DEF WindowInv
  <1>11. lastEmitted' \in Nat /\ lastEmitted' \in 0..MaxSeq
    BY <1>2, <1>6, <1>7
  <1>12. b \in Ends /\ b \in Nat
    BY <1>3, <1>4
  <1> HIDE DEF b
  <1> QED BY <1>1, <1>4, <1>5, <1>6, <1>7, <1>10, <1>11, <1>12 DEF b

(* ... and everything wanted up to the highest of its rows is yielded.      *)
LEMMA BlockStep == ASSUME WindowInv, NextBlock PROVE WindowInv'
  <1>1. /\ UNCHANGED <<after, before, tip, phase, resume, sealedTip, pin, planCursor,
                       through, replans>>
        /\ phase = "page"
    BY DEF NextBlock, askedVars, planVars
  <1>2. PICK b \in blocks :
             /\ b \in Ends /\ b \in Nat /\ blocks' = blocks \ {b}
             /\ \A d \in blocks' : d \in Ends /\ d \in Nat /\ b < d
             /\ lastEmitted' \in Nat /\ lastEmitted <= lastEmitted'
             /\ lastEmitted' \in 0..MaxSeq
             /\ lastEmitted' = lastEmitted \/ lastEmitted' \in Kept(b)
             /\ \A s \in Kept(b) : /\ s \in Nat /\ s <= lastEmitted' /\ s <= b
                                   /\ lastEmitted < s /\ s <= through
             /\ out' \in Seq(Wanted) /\ OutAscends'
             /\ Range(out') = Range(out) \union (Kept(b) \intersect Wanted)
    BY BlockFacts
  <1>3. /\ resume \in Nat /\ lastEmitted \in Nat /\ through \in Nat /\ MaxSeq \in Nat
        /\ before \in {None} \union Nat
        /\ Wanted \subseteq Nat /\ Wanted \subseteq Selected /\ Range(out) \subseteq Wanted
    BY TypeFacts DEF WindowInv
  <1>4. /\ pin # None
        /\ through \in Ends \/ through >= pin \/ through <= planCursor
        /\ lastEmitted = resume \/ lastEmitted <= through
        /\ through <= pin /\ pin \in Nat
        /\ \A d \in blocks : \A s \in Kept(d) : lastEmitted < s /\ s <= through
        /\ \A w \in Wanted : resume < w /\ w <= Capped(through, before) =>
             w \in Range(out) \/ \E d \in blocks : w \in Rows(d)
    BY <1>1, <1>2, TypeFacts DEF WindowInv, PageIsRead
  <1>5. TypeOK'
    BY <1>1, <1>2 DEF WindowInv, TypeOK
  <1>6. EmittedIsHighest'
    <2>1. resume <= lastEmitted'
      BY <1>2, <1>3 DEF WindowInv, EmittedIsHighest
    <2>2. \A r \in Range(out) : r \in Nat /\ r <= lastEmitted
      BY <1>3 DEF WindowInv, EmittedIsHighest
    <2>3. \A s \in Range(out') : s <= lastEmitted'
      BY <1>2, <1>3, <2>2
    <2>4. CASE lastEmitted' = lastEmitted
      BY <1>1, <2>1, <2>3, <2>4 DEF WindowInv, EmittedIsHighest
    <2>5. CASE lastEmitted' \in Kept(b)
      <3>1. before = None \/ lastEmitted' <= before
        BY <2>5 DEF Kept
      <3>2. lastEmitted' <= pin
        BY <1>2, <1>3, <1>4, <2>5
      <3> QED BY <1>1, <2>1, <2>3, <3>1, <3>2 DEF EmittedIsHighest
    <2> QED BY <1>2, <2>4, <2>5
  (* what the block should yield of the page's promise it yields *)
  <1>7. ASSUME NEW w \in Wanted, resume < w, w \in Rows(b), before = None \/ w <= before
        PROVE  w \in Range(out')
    BY <1>2, <1>3, <1>7 DEF Kept
  <1>8. \A w \in Wanted : resume < w /\ w <= Capped(through, before) =>
             w \in Range(out') \/ \E d \in blocks' : w \in Rows(d)
    <2> SUFFICES ASSUME NEW w \in Wanted, resume < w, w <= Capped(through, before)
                 PROVE  w \in Range(out') \/ \E d \in blocks' : w \in Rows(d)
      OBVIOUS
    <2>1. Capped(through, before) = IF before = None \/ through <= before
                                    THEN through ELSE before
      BY <1>3, CappedFacts
    <2>2. before = None \/ w <= before
      BY <1>3, <2>1
    <2>3. w \in Range(out) \/ \E d \in blocks : w \in Rows(d)
      BY <1>4
    <2> QED BY <1>2, <1>7, <2>2, <2>3
  <1>9. ReadUpTo(lastEmitted)'
    <2> SUFFICES ASSUME NEW w \in Wanted, resume < w, w <= Capped(lastEmitted', before)
                 PROVE  w \in Range(out')
      BY <1>1 DEF ReadUpTo, Capped
    <2>1. Capped(lastEmitted', before) = IF before = None \/ lastEmitted' <= before
                                         THEN lastEmitted' ELSE before
      BY <1>2, <1>3, CappedFacts
    <2>2. w \in Nat /\ w <= lastEmitted' /\ (before = None \/ w <= before)
      BY <1>2, <1>3, <2>1
    <2>3. CASE w <= lastEmitted
      <3>1. Capped(lastEmitted, before) = IF before = None \/ lastEmitted <= before
                                          THEN lastEmitted ELSE before
        BY <1>3, CappedFacts
      <3>2. w <= Capped(lastEmitted, before)
        BY <1>3, <2>2, <2>3, <3>1
      <3>3. w \in Range(out)
        BY <3>2 DEF WindowInv, ReadUpTo
      <3> QED BY <1>2, <3>3
    <2>4. CASE ~ (w <= lastEmitted)
      <3>1. lastEmitted' \in Kept(b)
        BY <1>2, <1>3, <2>2, <2>4
      <3>2. lastEmitted' <= b /\ lastEmitted' <= through
        BY <1>2, <3>1
      <3>3. Capped(through, before) = IF before = None \/ through <= before
                                      THEN through ELSE before
        BY <1>3, CappedFacts
      <3>4. w <= Capped(through, before)
        BY <1>2, <1>3, <2>2, <3>2, <3>3
      <3>5. ASSUME NEW d \in blocks', w \in Rows(d) PROVE w \in Range(out')
        <4>1. w <= b
          BY <1>2, <2>2, <3>2
        <4>2. d <= b
          BY <1>2, <3>5, <4>1, RowFacts
        <4> QED BY <1>2, <4>2
      <3> QED BY <1>8, <3>4, <3>5
    <2> QED BY <2>3, <2>4
  <1>10. PageIsRead'
    <2>1. lastEmitted' = resume \/ lastEmitted' <= through
      BY <1>2, <1>4
    <2>2. ASSUME NEW d \in blocks', NEW s \in Kept(d)
          PROVE  lastEmitted' < s /\ s <= through
      <3>1. d \in blocks /\ lastEmitted < s /\ s <= through
        BY <1>2, <1>4
      <3>2. s \in Nat /\ \A e \in Ends : s <= e => d <= e
        BY <1>2, RowFacts DEF Kept
      <3>3. ~ (s <= b)
        BY <1>2, <3>2
      <3>4. CASE lastEmitted' \in Kept(b)
        BY <1>2, <3>1, <3>2, <3>3, <3>4
      <3> QED BY <1>2, <3>1, <3>4
    <2>3. \A d : Kept(d)' = Kept(d)
      BY <1>1 DEF Kept
    <2>4. Capped(through, before)' = Capped(through, before)
      BY <1>1 DEF Capped
    <2> QED BY <1>1, <1>4, <1>8, <2>1, <2>2, <2>3, <2>4 DEF PageIsRead
  <1>11. PinIsSealed' /\ PlanIsDue' /\ SweptIsRead' /\ WithinReplans'
    BY <1>1 DEF WindowInv, PinIsSealed, PlanIsDue, SweptIsRead, WithinReplans
  <1> QED BY <1>2, <1>5, <1>6, <1>9, <1>10, <1>11 DEF WindowInv

(* A page read to its end: everything it promised is yielded.               *)
LEMMA PageDoneStep == ASSUME WindowInv, PageDone PROVE WindowInv'
  <1>1. /\ UNCHANGED <<after, before, tip, resume, lastEmitted, sealedTip, pin, through,
                       blocks, replans, out>>
        /\ phase = "page" /\ blocks = {} /\ planCursor' = through
        /\ phase' = IF through >= pin THEN "swept"
                    ELSE IF through <= planCursor THEN "threw" ELSE "plan"
    BY DEF PageDone, askedVars
  <1>2. /\ resume \in Nat /\ lastEmitted \in Nat /\ through \in Nat /\ through \in 0..MaxSeq
        /\ planCursor \in Nat
        /\ before \in {None} \union Nat /\ pin \in {None} \union Nat /\ Wanted \subseteq Nat
    BY TypeFacts DEF WindowInv
  <1>3. /\ pin # None /\ pin \in Nat
        /\ through \in Ends \/ through >= pin \/ through <= planCursor
        /\ lastEmitted = resume \/ lastEmitted <= through
        /\ \A w \in Wanted : resume < w /\ w <= Capped(through, before) => w \in Range(out)
    BY <1>1, <1>2 DEF WindowInv, PageIsRead
  <1>4. \A f : Capped(f, before)' = Capped(f', before)
    BY <1>1 DEF Capped
  <1>5. ReadUpTo(through)
    BY <1>3 DEF ReadUpTo
  <1>6. through >= pin => ReadUpTo(pin)
    <2> SUFFICES ASSUME through >= pin, NEW w \in Wanted, resume < w, w <= Capped(pin, before)
                 PROVE  w \in Range(out)
      BY DEF ReadUpTo
    <2>1. /\ Capped(pin, before) = IF before = None \/ pin <= before THEN pin ELSE before
          /\ Capped(through, before) = IF before = None \/ through <= before
                                       THEN through ELSE before
      BY <1>2, <1>3, CappedFacts
    <2>2. w <= Capped(through, before)
      BY <1>2, <1>3, <2>1
    <2> QED BY <1>3, <2>2
  <1>7. TypeOK'
    BY <1>1, <1>2 DEF WindowInv, TypeOK
  <1>8. PlanIsDue'
    <2>1. phase' = "plan" => ~ (through >= pin) /\ ~ (through <= planCursor)
      BY <1>1
    <2>2. phase' = "plan" => through \in Ends /\ through < pin
      BY <1>2, <1>3, <2>1
    <2> QED BY <1>1, <1>3, <1>5, <2>2 DEF PlanIsDue, ReadUpTo, Capped
  <1>9. SweptIsRead'
    BY <1>1, <1>3, <1>6 DEF SweptIsRead, ReadUpTo, Capped
  <1>10. PageIsRead'
    BY <1>1 DEF PageIsRead
  <1> QED
    BY <1>1, <1>7, <1>8, <1>9, <1>10
       DEF WindowInv, OutAscends, EmittedIsHighest, ReadUpTo, Capped, PinIsSealed,
           WithinReplans

(* A sweep planned anew, from s: nothing of the new window is read yet, and *)
(* all that was yielded lies behind it.                                     *)
LEMMA NewWindow ==
    ASSUME after \in Afters, before \in Befores, tip \in Tips, out \in Seq(Wanted),
           OutAscends, NEW s \in 0..MaxSeq, \A r \in Range(out) : r <= s,
           PlanFrom(s), lastEmitted' = s, sealedTip' \in {None} \union 0..MaxSeq,
           replans' \in 0..MaxReplans, UNCHANGED <<after, before, tip, out>>
    PROVE  WindowInv'
  <1>1. /\ phase' = "plan" /\ resume' = s /\ planCursor' = s
        /\ pin' = None /\ through' = 0 /\ blocks' = {}
    BY DEF PlanFrom
  <1>2. /\ MaxSeq \in Nat /\ s \in Nat /\ before \in {None} \union Nat /\ Wanted \subseteq Nat
    BY ArchiveAssumption, RequestAssumption, FiltersAssumption
  <1>3. TypeOK' /\ WithinReplans'
    <2>1. replans' \in 0..(MaxReplans + 1) /\ replans' <= MaxReplans
      BY ArchiveAssumption
    <2> QED BY <1>1, <1>2, <2>1 DEF TypeOK, WithinReplans
  <1>4. ReadUpTo(lastEmitted)'
    <2> SUFFICES ASSUME NEW w \in Wanted, s < w, w <= Capped(s, before)
                 PROVE  FALSE
      BY <1>1 DEF ReadUpTo, Capped
    <2>1. Capped(s, before) = IF before = None \/ s <= before THEN s ELSE before
      BY <1>2, CappedFacts
    <2> QED BY <1>2, <2>1
  <1>5. EmittedIsHighest'
    BY <1>1, <1>2 DEF EmittedIsHighest
  <1>6. OutAscends'
    BY DEF OutAscends
  <1> QED
    BY <1>1, <1>3, <1>4, <1>5, <1>6
       DEF WindowInv, PinIsSealed, PlanIsDue, PageIsRead, SweptIsRead, WithinReplans

(* A failed download: the sweep is over, or the new window starts at the    *)
(* highest seq yielded.                                                     *)
LEMMA FailFacts ==
    ASSUME WindowInv, DownloadFails
    PROVE  /\ UNCHANGED <<after, before, tip, lastEmitted, sealedTip, out>>
           /\ replans' \in 0..(MaxReplans + 1)
           /\ \/ phase' = "threw" /\ UNCHANGED <<resume, pin, planCursor, through, blocks>>
              \/ /\ PlanFrom(lastEmitted) /\ resume' = lastEmitted
                 /\ replans' \in 0..MaxReplans
  <1>1. /\ UNCHANGED <<after, before, tip, lastEmitted, out>> /\ replans' = replans + 1
        /\ IF replans' > MaxReplans
           THEN phase' = "threw" /\ UNCHANGED <<resume, planVars, blocks>>
           ELSE PlanFrom(Max({lastEmitted, resume})) /\ UNCHANGED sealedTip
    BY DEF DownloadFails, askedVars
  <1>2. Max({lastEmitted, resume}) = lastEmitted
    <2>1. /\ lastEmitted \in Nat /\ resume \in Nat /\ resume <= lastEmitted
          /\ {lastEmitted, resume} \subseteq 0..lastEmitted
      BY TypeFacts DEF WindowInv, EmittedIsHighest
    <2>2. /\ Max({lastEmitted, resume}) \in {lastEmitted, resume}
          /\ lastEmitted <= Max({lastEmitted, resume})
      BY <2>1, MaxOfNats
    <2> QED BY <2>1, <2>2
  <1>3. /\ replans' \in 0..(MaxReplans + 1)
        /\ ~ (replans' > MaxReplans) => replans' \in 0..MaxReplans
    <2>1. replans \in 0..(MaxReplans + 1) /\ MaxReplans \in Nat /\ replans <= MaxReplans
      BY ArchiveAssumption DEF WindowInv, TypeOK, WithinReplans, DownloadFails
    <2> QED BY <1>1, <2>1
  <1> QED BY <1>1, <1>2, <1>3 DEF planVars, PlanFrom

(* A failed download keeps the window, or opens a new one.                  *)
LEMMA FailStep == ASSUME WindowInv, DownloadFails PROVE WindowInv'
  <1>1. /\ UNCHANGED <<after, before, tip, lastEmitted, sealedTip, out>>
        /\ replans' \in 0..(MaxReplans + 1)
        /\ \/ phase' = "threw" /\ UNCHANGED <<resume, pin, planCursor, through, blocks>>
           \/ /\ PlanFrom(lastEmitted) /\ resume' = lastEmitted
              /\ replans' \in 0..MaxReplans
    BY FailFacts
  <1>2. CASE phase' = "threw" /\ UNCHANGED <<resume, pin, planCursor, through, blocks>>
    BY <1>1, <1>2
       DEF WindowInv, TypeOK, OutAscends, EmittedIsHighest, ReadUpTo, Capped, PinIsSealed,
           PlanIsDue, PageIsRead, SweptIsRead, WithinReplans
  <1>3. CASE PlanFrom(lastEmitted) /\ replans' \in 0..MaxReplans
    <2>1. /\ lastEmitted \in 0..MaxSeq /\ \A r \in Range(out) : r <= lastEmitted
          /\ sealedTip' \in {None} \union 0..MaxSeq
      BY <1>1, TypeFacts DEF WindowInv, TypeOK, EmittedIsHighest
    <2> QED BY <1>1, <1>3, <2>1, NewWindow DEF WindowInv, TypeOK
  <1> QED BY <1>1, <1>2, <1>3

(* The sweep is aborted, or fails otherwise: nothing else changes.          *)
LEMMA EndStep == ASSUME WindowInv, SweepEnds PROVE WindowInv'
  <1>1. /\ UNCHANGED <<after, before, tip, resume, lastEmitted, sealedTip, pin,
                       planCursor, through, blocks, replans, out>>
        /\ phase' \in {"threw", "returned"}
    BY DEF SweepEnds, askedVars, planVars
  <1> QED
    BY <1>1
       DEF WindowInv, TypeOK, OutAscends, EmittedIsHighest, ReadUpTo, Capped, PinIsSealed,
           PlanIsDue, PageIsRead, SweptIsRead, WithinReplans

(* A step of the sweep keeps the window; what it yields lies in it; and a   *)
(* window is left only for one that starts at the highest seq yielded.      *)
LEMMA SweepStepFacts ==
    ASSUME WindowInv, Sweep
    PROVE  /\ WindowInv'
           /\ UNCHANGED <<after, before>>
           /\ Range(out) \subseteq Range(out')
           /\ \A s \in Range(out') :
                 \/ s \in Range(out)
                 \/ s \in Wanted /\ resume < s /\ (before # None => s <= before)
           /\ \/ /\ resume' = resume
                 /\ \/ pin' = pin
                    \/ pin = None /\ pin' # None /\ pin' \in {tip, before}
              \/ resume' = lastEmitted /\ pin # None /\ pin' = None
           /\ phase' \in {"plan", "page", "swept", "returned", "threw"}
           /\ phase \in {"plan", "page"}
           /\ tip' = tip /\ replans' \in 0..(MaxReplans + 1)
  <1>1. CASE Plan
    <2>1. UNCHANGED <<after, before, tip, resume, out>>
      BY <1>1 DEF Plan, askedVars
    <2>2. \/ pin' = pin
          \/ pin = None /\ pin' # None /\ pin' \in {tip, before}
      <3>1. pin' \in Nat => pin' # None
        BY DEF None
      <3> QED BY <1>1, <3>1, PlanFacts
    <2> QED BY <1>1, <2>1, <2>2, PlanStep DEF WindowInv, TypeOK, Plan
  <1>2. CASE NextBlock
    <2>1. UNCHANGED <<after, before, tip, resume, pin>>
      BY <1>2 DEF NextBlock, askedVars, planVars
    <2>2. PICK b \in blocks : Range(out') = Range(out) \union (Kept(b) \intersect Wanted)
      BY <1>2, BlockFacts
    <2>3. \A s \in Kept(b) : resume < s /\ (before # None => s <= before)
      <3>1. \A s \in Kept(b) : s \in Nat
        BY RowFacts DEF Kept, WindowInv, TypeOK, Blocks
      <3> QED BY <3>1, TypeFacts DEF Kept, WindowInv
    <2> QED BY <1>2, <2>1, <2>2, <2>3, BlockStep DEF WindowInv, TypeOK, NextBlock
  <1>3. CASE PageDone
    <2>1. UNCHANGED <<after, before, tip, resume, out, pin>>
      BY <1>3 DEF PageDone, askedVars
    <2> QED BY <1>3, <2>1, PageDoneStep DEF WindowInv, TypeOK, PageDone
  <1>4. CASE DownloadFails
    <2>1. /\ UNCHANGED <<after, before, tip, out>> /\ pin # None
          /\ \/ resume' = resume /\ pin' = pin
             \/ resume' = lastEmitted /\ pin' = None
      BY <1>4, FailFacts DEF DownloadFails, WindowInv, PageIsRead, PlanFrom
    <2> QED BY <1>4, <2>1, FailStep DEF WindowInv, TypeOK, DownloadFails
  <1>5. CASE SweepEnds
    <2>1. UNCHANGED <<after, before, tip, resume, out, pin>>
      BY <1>5 DEF SweepEnds, askedVars, planVars
    <2> QED BY <1>5, <2>1, EndStep DEF WindowInv, TypeOK, SweepEnds
  <1> QED BY <1>1, <1>2, <1>3, <1>4, <1>5 DEF Sweep

(* What the window says to the phase that follows: all that was yielded is  *)
(* at most lastEmitted, nothing wanted is missing up to there, and nothing  *)
(* up to the pinned tip once the archive is swept.                          *)
WindowSays ==
    /\ \A s \in Range(out) : s <= lastEmitted
    /\ resume <= lastEmitted
    /\ lastEmitted = resume \/ pin = None \/ lastEmitted <= pin
    /\ pin # None => /\ pin \in Nat /\ sealedTip = pin /\ pin <= tip
                     /\ (before # None => pin <= before)
    /\ \A w \in Wanted : resume < w /\ w <= lastEmitted => w \in Range(out)
    /\ phase = "swept" =>
          /\ pin # None
          /\ \A w \in Wanted : resume < w /\ w <= pin => w \in Range(out)
    /\ phase \in {"plan", "page", "swept"} => replans <= MaxReplans
    /\ TypeOK /\ OutAscends

(* The invariant says so.                                                   *)
LEMMA WindowFacts == WindowInv => WindowSays
  <1> SUFFICES ASSUME WindowInv PROVE WindowSays
    OBVIOUS
  <1>1. /\ lastEmitted \in Nat /\ resume \in Nat /\ before \in {None} \union Nat
        /\ pin \in {None} \union Nat /\ Wanted \subseteq Nat
    BY TypeFacts DEF WindowInv
  <1>2. \A w \in Wanted : resume < w /\ w <= lastEmitted => w \in Range(out)
    <2>1. CASE lastEmitted = resume
      BY <1>1, <2>1
    <2>2. CASE before = None \/ lastEmitted <= before
      <3>1. Capped(lastEmitted, before) = lastEmitted
        BY <1>1, <2>2, CappedFacts
      <3> QED BY <3>1 DEF WindowInv, ReadUpTo
    <2> QED BY <2>1, <2>2 DEF WindowInv, EmittedIsHighest
  <1>3. pin # None => /\ pin \in Nat /\ sealedTip = pin /\ pin <= tip
                      /\ (before # None => pin <= before)
    BY <1>1 DEF WindowInv, PinIsSealed
  <1>4. phase = "swept" =>
            /\ pin # None
            /\ \A w \in Wanted : resume < w /\ w <= pin => w \in Range(out)
    <2> SUFFICES ASSUME phase = "swept"
                 PROVE  /\ pin # None
                        /\ \A w \in Wanted : resume < w /\ w <= pin => w \in Range(out)
      OBVIOUS
    <2>1. pin # None /\ ReadUpTo(pin)
      BY DEF WindowInv, SweptIsRead
    <2>2. Capped(pin, before) = pin
      BY <1>1, <1>3, <2>1, CappedFacts
    <2> QED BY <2>1, <2>2 DEF ReadUpTo
  <1> QED BY <1>2, <1>3, <1>4 DEF WindowInv, EmittedIsHighest, WithinReplans, WindowSays

(* The same of the next state.                                              *)
LEMMA WindowFactsNext == WindowInv' => WindowSays'
  <1>1. WindowInv => WindowSays
    BY WindowFacts
  <1> QED BY <1>1, PTL

-------------------------------------------------------------------------------
(* The invariant, and what it says of the sweep *)

(* What was yielded up to f was yielded up to anything below.               *)
LEMMA YieldedBelow ==
    ASSUME TypeOK, NEW f \in Nat, YieldedUpTo(f), NEW g \in Nat, g <= f
    PROVE  YieldedUpTo(g)
  <1>1. before \in {None} \union Nat /\ Wanted \subseteq Nat
    BY TypeFacts
  <1>2. /\ Capped(f, before) = IF before = None \/ f <= before THEN f ELSE before
        /\ Capped(g, before) = IF before = None \/ g <= before THEN g ELSE before
    BY <1>1, CappedFacts
  <1>3. \A w \in Wanted : w <= Capped(g, before) => w <= Capped(f, before)
    BY <1>1, <1>2
  <1> QED BY <1>3 DEF YieldedUpTo

(* What the window has read, and what came before it, leaves no gap.        *)
LEMMA ReadSoFar ==
    ASSUME IInv, NEW f \in Nat, ReadUpTo(f)
    PROVE  YieldedUpTo(f)
  <1> SUFFICES ASSUME NEW w \in Wanted, after < w, w <= Capped(f, before)
               PROVE  w \in Range(out)
    BY DEF YieldedUpTo
  <1>1. /\ before \in {None} \union Nat /\ w \in Nat /\ resume \in Nat
    BY TypeFacts DEF IInv, WindowInv
  <1>2. CASE resume < w
    BY <1>2 DEF ReadUpTo
  <1>3. CASE w <= resume
    <2>1. /\ Capped(f, before) = IF before = None \/ f <= before THEN f ELSE before
          /\ Capped(resume, before) = IF before = None \/ resume <= before
                                      THEN resume ELSE before
      BY <1>1, CappedFacts
    <2>2. w <= Capped(resume, before)
      BY <1>1, <1>3, <2>1
    <2> QED BY <2>2 DEF IInv, YieldedUpTo
  <1> QED BY <1>1, <1>2, <1>3

(* So nothing is missing up to the highest seq a batch has carried.         *)
LEMMA YieldedSoFar == ASSUME IInv PROVE YieldedUpTo(lastEmitted)
  <1>1. lastEmitted \in Nat /\ ReadUpTo(lastEmitted)
    BY TypeFacts DEF IInv, WindowInv
  <1> QED BY <1>1, ReadSoFar

(* The inductive invariant holds of every sweep.                            *)
THEOREM Invariance == Spec => []IInv
  <1>1. Init => IInv
    <2> SUFFICES ASSUME Init PROVE IInv
      OBVIOUS
    <2>1. WindowInv
      BY InitWindow
    <2>2. after <= resume /\ after \in Nat /\ resume = after
      BY <2>1, TypeFacts DEF Init, WindowInv
    <2>3. Range(out) = {}
      <3>1. out = <<>> /\ DOMAIN out = {}
        BY DEF Init
      <3> QED BY <3>1, Zenon DEF Range
    <2>4. YieldedUpTo(resume)
      <3>1. resume = lastEmitted /\ ReadUpTo(lastEmitted)
        BY <2>1 DEF Init, WindowInv
      <3> QED BY <2>2, <3>1 DEF YieldedUpTo, ReadUpTo
    <2> QED BY <2>1, <2>2, <2>3, <2>4 DEF IInv
  <1>2. IInv /\ [Next]_vars => IInv'
    <2> SUFFICES ASSUME IInv, [Next]_vars PROVE IInv'
      OBVIOUS
    <2>1. CASE Seal
      <3>1. UNCHANGED <<after, before, resume, out>>
        BY <2>1, SealFacts DEF IInv, WindowInv, TypeOK
      <3> QED BY <2>1, <3>1, SealStep DEF IInv, YieldedUpTo, Capped
    <2>2. CASE Sweep
      <3>1. /\ WindowInv'
            /\ UNCHANGED <<after, before>>
            /\ Range(out) \subseteq Range(out')
            /\ \A s \in Range(out') :
                  \/ s \in Range(out)
                  \/ s \in Wanted /\ resume < s /\ (before # None => s <= before)
            /\ resume' = resume \/ resume' = lastEmitted
        BY <2>2, SweepStepFacts DEF IInv
      <3>2. /\ after \in Nat /\ resume \in Nat /\ lastEmitted \in Nat /\ after <= resume
            /\ resume <= lastEmitted /\ Wanted \subseteq Nat /\ before \in {None} \union Nat
        BY TypeFacts DEF IInv, WindowInv, EmittedIsHighest
      <3>3. Range(out') \subseteq Nat
        <4>1. Range(out) \subseteq Nat
          BY TypeFacts DEF IInv, WindowInv
        <4> QED BY <3>1, <3>2, <4>1
      <3>4. \A s \in Range(out') : after < s /\ (before # None => s <= before)
        BY <3>1, <3>2, <3>3 DEF IInv
      <3>5. YieldedUpTo(lastEmitted)
        BY <3>2, YieldedSoFar
      <3>6. \A f : YieldedUpTo(f) => (\A w \in Wanted : after < w /\ w <= Capped(f, before)
                                                          => w \in Range(out'))
        BY <3>1 DEF YieldedUpTo
      <3>7. \A w \in Wanted : after < w /\ w <= Capped(resume', before) => w \in Range(out')
        BY <3>1, <3>5, <3>6 DEF IInv
      <3> QED BY <3>1, <3>2, <3>4, <3>7 DEF IInv, YieldedUpTo, Capped
    <2>3. CASE UNCHANGED vars
      BY <2>3, OtherStep DEF vars, askedVars, planVars, IInv, YieldedUpTo, Capped
    <2> QED BY <2>1, <2>2, <2>3 DEF Next
  <1> QED BY <1>1, <1>2, PTL DEF Spec

(* The archive sweep leaves no gap: over any plans and any number of        *)
(* re-plans, what was yielded is a prefix of what is wanted, and a sweep    *)
(* that ended has yielded everything up to the tip it pinned.               *)
THEOREM SweepHasNoGap == Spec => []NoGap
  <1>1. IInv => NoGap
    <2> SUFFICES ASSUME IInv PROVE NoGap
      OBVIOUS
    <2>1. YieldedUpTo(lastEmitted)
      BY YieldedSoFar
    <2>2. phase = "swept" => YieldedUpTo(pin)
      <3> SUFFICES ASSUME phase = "swept" PROVE YieldedUpTo(pin)
        OBVIOUS
      <3>1. pin \in Nat /\ ReadUpTo(pin)
        BY TypeFacts DEF IInv, WindowInv, SweptIsRead
      <3> QED BY <3>1, ReadSoFar
    <2>3. YieldedUpTo(Max({0} \union Range(out)))
      <3> DEFINE m == Max({0} \union Range(out))
      <3>1. /\ lastEmitted \in Nat /\ {0} \union Range(out) \subseteq 0..lastEmitted
            /\ before \in {None} \union Nat
        <4>1. lastEmitted \in Nat /\ Range(out) \subseteq Nat /\ before \in {None} \union Nat
          BY TypeFacts DEF IInv, WindowInv
        <4> QED BY <4>1 DEF IInv, WindowInv, EmittedIsHighest
      <3>2. m \in 0..lastEmitted
        BY <3>1, MaxOfNats
      <3> HIDE DEF m
      <3>3. m \in Nat /\ m <= lastEmitted
        BY <3>1, <3>2
      <3>4. YieldedUpTo(m)
        <4>1. TypeOK
          BY DEF IInv, WindowInv
        <4> QED BY <2>1, <3>1, <3>3, <4>1, YieldedBelow
      <3> QED BY <3>4 DEF m
    <2> QED BY <2>1, <2>2, <2>3 DEF NoGap
  <1> QED BY <1>1, Invariance, PTL

(* ... and yields no duplicate: the seqs strictly increase, inside the      *)
(* bounds the caller gave.                                                  *)
THEOREM SweepAscends == Spec => []Ascending
  <1>1. IInv => Ascending
    BY DEF IInv, WindowInv, OutAscends, Ascending
  <1> QED BY <1>1, Invariance, PTL
==============================================================================
