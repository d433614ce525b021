-------------------------- MODULE BlockSource_proofs --------------------------
(* Proofs about BlockSource and the downloads of SegmentStream: for every   *)
(* plan, byte limits, number of blocks at a time, attempts, and generations *)
(* the files go through while they are read.                                *)
EXTENDS BlockSource, FiniteSetTheorems, SequenceTheorems, WellFoundedInduction, TLAPS

(* The greatest element of a bounded set of naturals.                       *)
LEMMA MaxOfNats ==
    ASSUME NEW n \in Nat, NEW S, S \subseteq 0..n, S # {}
    PROVE  Max(S) \in S /\ \A y \in S : y <= Max(S)
  <1> DEFINE T == {m \in 0..n : \A y \in S : y <= m}
  <1>1. T \subseteq Nat /\ T # {}
    <2>1. n \in T
      OBVIOUS
    <2> QED BY <2>1
  <1>2. \E m \in T : \A k \in T : ~ (<<k, m>> \in OpToRel(<, Nat))
    BY <1>1, NatLessThanWellFounded, WFMin, Zenon
  <1>3. \A a, b \in Nat : a < b => <<a, b>> \in OpToRel(<, Nat)
    BY Zenon DEF OpToRel
  <1>4. PICK m \in T : \A k \in T : ~ (k < m)
    BY <1>1, <1>2, <1>3, Zenon
  <1>5. m \in S
    <2> SUFFICES ASSUME m \notin S PROVE FALSE
      OBVIOUS
    <2>1. m \in 0..n /\ \A z \in S : z \in 0..n /\ z <= m /\ z # m
      BY <1>4
    <2>2. \A z \in S : z <= m - 1
      BY <2>1
    <2>3. m - 1 \in T
      <3>1. PICK y \in S : y \in 0..n /\ y <= m - 1
        BY <2>1, <2>2
      <3>2. m - 1 \in 0..n
        BY <2>1, <3>1
      <3> QED BY <2>2, <3>2
    <2> QED BY <1>4, <2>1, <2>3
  <1>6. \E x \in S : \A y \in S : x >= y
    BY <1>5
  <1>7. Max(S) \in S /\ \A y \in S : Max(S) >= y
    BY <1>6 DEF Max
  <1> QED BY <1>7

-------------------------------------------------------------------------------
(* The plan *)

(* The plan's downloads and their frames are counted by naturals, and the   *)
(* frames of a download end one after another.                              *)
LEMMA PlanFacts ==
    /\ Len(Plan) \in Nat /\ Downloads \subseteq Nat /\ IsFiniteSet(Downloads)
    /\ \A d \in Downloads :
        /\ FrameCount(d) \in Nat /\ FrameCount(d) > 0
        /\ \A i \in 0..FrameCount(d) : FrameEnd(d, i) \in Nat
        /\ \A i, j \in 0..FrameCount(d) : i < j => FrameEnd(d, i) < FrameEnd(d, j)
        /\ Plan[d].kind \in {"segment", "block"}
        /\ Plan[d].kind = "block" => FrameCount(d) = 1
  <1>1. Len(Plan) \in Nat /\ DOMAIN Plan = 1..Len(Plan)
    BY PlanAssumption, LenProperties
  <1>2. Downloads \subseteq Nat /\ IsFiniteSet(Downloads)
    BY <1>1, FS_Interval DEF Downloads
  <1>3. ASSUME NEW d \in Downloads
        PROVE  /\ FrameCount(d) \in Nat
               /\ \A i \in 0..FrameCount(d) : FrameEnd(d, i) \in Nat
               /\ Plan[d].kind \in {"segment", "block"}
    <2>1. Plan[d] \in [kind : {"segment", "block"}, ends : Seq(Nat)]
      BY <1>1, PlanAssumption, ElementOfSeq DEF Downloads
    <2>2. FrameCount(d) \in Nat
      BY <2>1, LenProperties DEF FrameCount
    <2>3. \A i \in 1..FrameCount(d) : Plan[d].ends[i] \in Nat
      BY <2>1, ElementOfSeq DEF FrameCount
    <2> QED BY <2>1, <2>2, <2>3 DEF FrameEnd, HeaderSize
  <1> QED BY <1>1, <1>2, <1>3, PlanAssumption

(* How many frames of d the first r units complete.                         *)
ReadAt(d, r) == Max({0} \union {i \in 1..FrameCount(d) : FrameEnd(d, i) <= r})

(* Of d's frames, those up to ReadAt(d, r) end within the first r units.    *)
LEMMA ReadAtFacts ==
    ASSUME NEW d \in Downloads, NEW r \in Nat
    PROVE  /\ ReadAt(d, r) \in 0..FrameCount(d)
           /\ \A i \in 1..FrameCount(d) : FrameEnd(d, i) <= r <=> i <= ReadAt(d, r)
  <1> DEFINE S == {0} \union {i \in 1..FrameCount(d) : FrameEnd(d, i) <= r}
  <1>1. FrameCount(d) \in Nat /\ S \subseteq 0..FrameCount(d) /\ S # {}
    BY PlanFacts
  <1>2. Max(S) \in S /\ \A y \in S : y <= Max(S)
    BY <1>1, MaxOfNats
  <1>3. ASSUME NEW i \in 1..FrameCount(d)
        PROVE  FrameEnd(d, i) <= r <=> i <= Max(S)
    <2>1. FrameEnd(d, i) <= r => i <= Max(S)
      BY <1>2
    <2>2. i <= Max(S) => FrameEnd(d, i) <= r
      <3> SUFFICES ASSUME i <= Max(S) PROVE FrameEnd(d, i) <= r
        OBVIOUS
      <3>1. Max(S) \in 1..FrameCount(d) /\ FrameEnd(d, Max(S)) <= r
        BY <1>1, <1>2
      <3>2. CASE i = Max(S)
        BY <3>1, <3>2
      <3>3. CASE i < Max(S)
        <4>1. /\ FrameEnd(d, i) \in Nat /\ FrameEnd(d, Max(S)) \in Nat
              /\ FrameEnd(d, i) < FrameEnd(d, Max(S))
          BY <1>1, <3>1, <3>3, PlanFacts
        <4> QED BY <3>1, <4>1
      <3> QED BY <1>1, <1>2, <3>2, <3>3
    <2> QED BY <2>1, <2>2
  <1> QED BY <1>1, <1>2, <1>3 DEF ReadAt

(* One unit more completes at most one frame more.                          *)
LEMMA ReadNext ==
    ASSUME NEW d \in Downloads, NEW r \in Nat
    PROVE  ReadAt(d, r + 1) \in {ReadAt(d, r), ReadAt(d, r) + 1}
  <1> DEFINE k == ReadAt(d, r)
             m == ReadAt(d, r + 1)
  <1>1. /\ k \in 0..FrameCount(d) /\ m \in 0..FrameCount(d)
        /\ \A i \in 1..FrameCount(d) : FrameEnd(d, i) <= r <=> i <= k
        /\ \A i \in 1..FrameCount(d) : FrameEnd(d, i) <= r + 1 <=> i <= m
    BY ReadAtFacts
  <1>2. FrameCount(d) \in Nat /\ \A i \in 0..FrameCount(d) : FrameEnd(d, i) \in Nat
    BY PlanFacts
  <1> HIDE DEF k, m
  <1>3. k <= m
    <2>1. CASE k = 0
      BY <1>1, <2>1
    <2>2. CASE k # 0
      <3>1. k \in 1..FrameCount(d) /\ FrameEnd(d, k) <= r /\ FrameEnd(d, k) \in Nat
        BY <1>1, <1>2, <2>2
      <3> QED BY <1>1, <3>1
    <2> QED BY <2>1, <2>2
  <1>4. ~ (m > k + 1)
    <2> SUFFICES ASSUME m > k + 1 PROVE FALSE
      OBVIOUS
    <2>1. k + 1 \in 1..FrameCount(d) /\ m \in 1..FrameCount(d) /\ k + 1 < m
      BY <1>1, <1>2
    <2>2. /\ FrameEnd(d, k + 1) < FrameEnd(d, m) /\ FrameEnd(d, m) <= r + 1
          /\ FrameEnd(d, k + 1) \in Nat /\ FrameEnd(d, m) \in Nat
      BY <1>1, <2>1, PlanFacts
    <2>3. FrameEnd(d, k + 1) <= r
      BY <2>2
    <2> QED BY <1>1, <2>1, <2>3
  <1>5. m \in {k, k + 1}
    BY <1>1, <1>2, <1>3, <1>4
  <1> QED BY <1>5 DEF k, m

(* Nothing received, nothing read.                                          *)
LEMMA ReadNone == \A d \in Downloads : ReadAt(d, 0) = 0
  <1> SUFFICES ASSUME NEW d \in Downloads PROVE ReadAt(d, 0) = 0
    OBVIOUS
  <1>1. /\ ReadAt(d, 0) \in 0..FrameCount(d) /\ FrameCount(d) \in Nat
        /\ \A i \in 1..FrameCount(d) : FrameEnd(d, i) <= 0 <=> i <= ReadAt(d, 0)
    BY ReadAtFacts, PlanFacts
  <1>2. \A i \in 1..FrameCount(d) : FrameEnd(d, 0) < FrameEnd(d, i)
                                    /\ FrameEnd(d, 0) \in Nat /\ FrameEnd(d, i) \in Nat
    BY <1>1, PlanFacts
  <1> QED BY <1>1, <1>2

-------------------------------------------------------------------------------
(* The transfers *)

(* The types of a download's state, one by one.                             *)
LEMMA TransferFacts ==
    ASSUME TransferTypeOK, NEW d \in Downloads
    PROVE  /\ gen \in Nat /\ gen \in 1..MaxGen /\ MaxGen \in Nat /\ MaxAttempts \in Nat
           /\ body[d] = Closed \/ body[d] \in [gen : 1..MaxGen, pos : Nat \ {0}]
           /\ Open(d) => body[d].gen \in 1..MaxGen /\ body[d].pos \in Nat \ {0}
           /\ etag[d] \in 0..MaxGen
           /\ recv[d] \in Seq(Units) /\ Len(recv[d]) \in Nat
           /\ Resuming(d) <=> Len(recv[d]) > 0
           /\ \A p \in 1..Len(recv[d]) : recv[d][p] \in Units
           /\ attempt[d] \in 0..MaxAttempts
  <1>1. MaxGen \in Nat \ {0} /\ MaxAttempts \in Nat \ {0}
    BY BoundsAssumption
  <1>2. body[d] = Closed \/ body[d] \in [gen : 1..MaxGen, pos : Nat \ {0}]
    BY DEF TransferTypeOK
  <1>3. Open(d) => body[d].gen \in 1..MaxGen /\ body[d].pos \in Nat \ {0}
    BY <1>2 DEF Open
  <1>4. /\ recv[d] \in Seq(Units) /\ Len(recv[d]) \in Nat
        /\ Resuming(d) <=> Len(recv[d]) > 0
        /\ \A p \in 1..Len(recv[d]) : recv[d][p] \in Units
    <2>1. recv[d] \in Seq(Units)
      BY DEF TransferTypeOK
    <2>2. Len(recv[d]) \in Nat /\ (recv[d] = <<>> <=> Len(recv[d]) = 0)
      BY <2>1, LenProperties, EmptySeq
    <2>3. \A p \in 1..Len(recv[d]) : recv[d][p] \in Units
      BY <2>1, ElementOfSeq
    <2> QED BY <2>1, <2>2, <2>3 DEF Resuming
  <1>5. etag[d] \in 0..MaxGen /\ attempt[d] \in 0..MaxAttempts /\ gen \in 1..MaxGen
    BY DEF TransferTypeOK
  <1> QED BY <1>1, <1>2, <1>3, <1>4, <1>5

(* Before the first request.                                                *)
LEMMA TransferInitInv == TransferInit => TransferInv
  <1> SUFFICES ASSUME TransferInit PROVE TransferInv
    OBVIOUS
  <1>1. TransferTypeOK
    BY BoundsAssumption, EmptySeq DEF TransferInit, TransferTypeOK, None
  <1>2. \A d \in Downloads : ~ Open(d) /\ etag[d] = None /\ recv[d] = <<>>
    BY DEF TransferInit, Open
  <1>3. NoSplice
    BY <1>2, EmptySeq DEF NoSplice
  <1> QED BY <1>1, <1>2, <1>3 DEF TransferInv, BodyContinues, EtagNamesBody

(* Compaction changes what the server holds, and nothing a download knows.  *)
LEMMA RewriteStep == ASSUME TransferInv, Rewrite PROVE TransferInv'
  <1>1. gen \in 1..MaxGen /\ MaxGen \in Nat /\ gen < MaxGen /\ gen' = gen + 1
        /\ UNCHANGED <<body, etag, recv, attempt>>
    BY BoundsAssumption DEF TransferInv, TransferTypeOK, Rewrite
  <1>2. TransferTypeOK'
    BY <1>1 DEF TransferInv, TransferTypeOK, Units
  <1>3. BodyContinues' /\ EtagNamesBody' /\ NoSplice'
    BY <1>1 DEF TransferInv, BodyContinues, EtagNamesBody, NoSplice, Open, Resuming
  <1> QED BY <1>2, <1>3 DEF TransferInv

(* A request is answered: a resumed one only by the generation it began in. *)
LEMMA RespondStep == ASSUME TransferInv, NEW d \in Downloads, Respond(d) PROVE TransferInv'
  <1>1. TransferTypeOK
    BY DEF TransferInv
  <1>2. /\ ~ Open(d) /\ attempt[d] < MaxAttempts
        /\ attempt' = [attempt EXCEPT ![d] = @ + 1]
        /\ UNCHANGED <<gen, recv>>
        /\ body' = [body EXCEPT ![d] = [gen |-> gen, pos |-> Len(recv[d]) + 1]]
    BY DEF Respond
  <1>3. PICK t \in 0..MaxGen :
            /\ etag' = [etag EXCEPT ![d] = t]
            /\ Resuming(d) => t = etag[d] /\ etag[d] = gen
            /\ ~ Resuming(d) => t \in {gen, None}
    <2>1. gen \in 0..MaxGen /\ None \in 0..MaxGen /\ etag[d] \in 0..MaxGen
          /\ etag \in [Downloads -> 0..MaxGen]
      BY <1>1, TransferFacts DEF TransferTypeOK, None
    <2>2. CASE Resuming(d)
      <3>1. etag' = [etag EXCEPT ![d] = etag[d]] /\ etag[d] = gen
        BY <2>1, <2>2 DEF Respond
      <3> QED BY <2>1, <2>2, <3>1
    <2>3. CASE ~ Resuming(d)
      BY <2>1, <2>3 DEF Respond, EtagsOf
    <2> QED BY <2>2, <2>3
  <1>4. TransferTypeOK'
    <2>1. /\ gen \in 1..MaxGen /\ attempt[d] + 1 \in 0..MaxAttempts
          /\ [gen |-> gen, pos |-> Len(recv[d]) + 1] \in [gen : 1..MaxGen, pos : Nat \ {0}]
      BY <1>1, <1>2, TransferFacts
    <2> QED BY <1>1, <1>2, <1>3, <2>1 DEF TransferTypeOK, Units
  <1>5. /\ \A e \in Downloads : e # d =>
              body'[e] = body[e] /\ etag'[e] = etag[e] /\ recv'[e] = recv[e]
        /\ body'[d].gen = gen /\ body'[d].pos = Len(recv[d]) + 1
        /\ etag'[d] = t /\ recv'[d] = recv[d]
    BY <1>1, <1>2, <1>3 DEF TransferTypeOK
  <1>6. Resuming(d) => recv[d][1][1] = gen
    <2> SUFFICES ASSUME Resuming(d) PROVE recv[d][1][1] = gen
      OBVIOUS
    <2>1. etag[d] = gen /\ gen # None
      BY <1>1, <1>3, TransferFacts DEF None
    <2> QED BY <2>1 DEF TransferInv, EtagNamesBody
  <1>7. BodyContinues'
    <2> SUFFICES ASSUME NEW e \in Downloads, Open(e)'
                 PROVE  /\ body'[e].pos = Len(recv'[e]) + 1
                        /\ Resuming(e)' => body'[e].gen = recv'[e][1][1]
      BY DEF BodyContinues
    <2>1. CASE e = d
      BY <2>1, <1>5, <1>6 DEF Resuming
    <2>2. CASE e # d
      BY <2>2, <1>5 DEF TransferInv, BodyContinues, Open, Resuming
    <2> QED BY <2>1, <2>2
  <1>8. EtagNamesBody'
    <2> SUFFICES ASSUME NEW e \in Downloads, etag'[e] # None
                 PROVE  IF Resuming(e)' THEN etag'[e] = recv'[e][1][1]
                        ELSE Open(e)' => etag'[e] = body'[e].gen
      BY DEF EtagNamesBody
    <2>1. CASE e = d
      <3>1. CASE Resuming(d)
        BY <2>1, <3>1, <1>3, <1>5, <1>6 DEF Resuming
      <3>2. CASE ~ Resuming(d)
        BY <2>1, <3>2, <1>3, <1>5 DEF Resuming
      <3> QED BY <3>1, <3>2
    <2>2. CASE e # d
      BY <2>2, <1>5 DEF TransferInv, EtagNamesBody, Open, Resuming
    <2> QED BY <2>1, <2>2
  <1>9. NoSplice'
    BY <1>2 DEF TransferInv, NoSplice
  <1> QED BY <1>4, <1>7, <1>8, <1>9 DEF TransferInv

(* What a chunk adds: the next unit of a segment, or the whole of a block.  *)
LEMMA ChunkAdds ==
    ASSUME TransferInv, NEW d \in Downloads, Chunk(d)
    PROVE  /\ \A e \in Downloads : e # d =>
                body'[e] = body[e] /\ etag'[e] = etag[e] /\ recv'[e] = recv[e]
           /\ recv' \in [Downloads -> Seq(Units)]
           /\ recv'[d] # <<>>
           /\ \A p \in 1..Len(recv'[d]) : recv'[d][p] = <<recv'[d][1][1], p>>
           /\ Segment(d) => /\ Len(recv'[d]) = Len(recv[d]) + 1
                            /\ recv'[d][1][1] = body[d].gen
           /\ ~ Segment(d) => Len(recv'[d]) = FrameEnd(d, 1) /\ recv'[d][1][1] = body[d].gen
  <1>1. /\ TransferTypeOK /\ Open(d)
        /\ recv' = [recv EXCEPT ![d] =
                        IF Segment(d) THEN Append(@, <<body[d].gen, body[d].pos>>)
                        ELSE [p \in 1..FrameEnd(d, 1) |-> <<body[d].gen, p>>]]
        /\ body' = [body EXCEPT ![d] =
                        IF Segment(d) THEN [gen |-> @.gen, pos |-> @.pos + 1] ELSE Closed]
        /\ UNCHANGED <<gen, etag, attempt>>
    BY DEF TransferInv, Chunk
  <1>2. /\ body[d].gen \in 1..MaxGen /\ body[d].pos = Len(recv[d]) + 1
        /\ Resuming(d) => body[d].gen = recv[d][1][1]
        /\ recv[d] \in Seq(Units) /\ Len(recv[d]) \in Nat
        /\ Resuming(d) <=> Len(recv[d]) > 0
        /\ recv \in [Downloads -> Seq(Units)] /\ body \in [Downloads -> {Closed} \union [gen : 1..MaxGen, pos : Nat \ {0}]]
    BY <1>1, TransferFacts DEF TransferInv, BodyContinues, TransferTypeOK
  <1>3. CASE Segment(d)
    <2> DEFINE u == <<body[d].gen, Len(recv[d]) + 1>>
    <2>1. u \in Units /\ recv'[d] = Append(recv[d], u)
      BY <1>1, <1>2, <1>3 DEF Units
    <2>2. /\ recv'[d] \in Seq(Units) /\ Len(recv'[d]) = Len(recv[d]) + 1
          /\ \A p \in 1..Len(recv[d]) : recv'[d][p] = recv[d][p]
          /\ recv'[d][Len(recv[d]) + 1] = u
      BY <1>2, <2>1, AppendProperties
    <2>3. recv' \in [Downloads -> Seq(Units)] /\ recv'[d] # <<>>
      <3>1. recv' = [recv EXCEPT ![d] = recv'[d]]
        BY <1>1, <1>2
      <3> QED BY <1>2, <2>2, <3>1, EmptySeq
    <2>4. recv'[d][1][1] = body[d].gen
      <3>1. CASE Len(recv[d]) = 0
        BY <2>2, <3>1
      <3>2. CASE Len(recv[d]) > 0
        BY <1>2, <2>2, <3>2
      <3> QED BY <1>2, <3>1, <3>2
    <2>5. \A p \in 1..Len(recv'[d]) : recv'[d][p] = <<recv'[d][1][1], p>>
      <3> SUFFICES ASSUME NEW p \in 1..Len(recv'[d]) PROVE recv'[d][p] = <<body[d].gen, p>>
        BY <2>4
      <3>1. CASE p = Len(recv[d]) + 1
        BY <2>2, <3>1
      <3>2. CASE p # Len(recv[d]) + 1
        <4>1. p \in 1..Len(recv[d]) /\ Len(recv[d]) > 0
          BY <1>2, <2>2, <3>2
        <4>2. recv[d][p] = <<recv[d][1][1], p>>
          BY <1>2, <4>1, LenProperties DEF TransferInv, NoSplice
        <4> QED BY <1>2, <2>2, <4>1, <4>2
      <3> QED BY <3>1, <3>2
    <2>6. \A e \in Downloads : e # d =>
              body'[e] = body[e] /\ etag'[e] = etag[e] /\ recv'[e] = recv[e]
      BY <1>1, <1>2
    <2> QED BY <1>3, <2>2, <2>3, <2>4, <2>5, <2>6
  <1>4. CASE ~ Segment(d)
    <2>1. FrameEnd(d, 1) \in Nat /\ FrameEnd(d, 1) > 0
      <3>1. FrameCount(d) \in Nat /\ 1 \in 0..FrameCount(d) /\ 0 \in 0..FrameCount(d)
        BY PlanFacts
      <3> QED BY <3>1, PlanFacts
    <2>2. recv'[d] = [p \in 1..FrameEnd(d, 1) |-> <<body[d].gen, p>>]
      BY <1>1, <1>2, <1>4
    <2>3. \A p \in 1..FrameEnd(d, 1) : <<body[d].gen, p>> \in Units
      BY <1>2, <2>1 DEF Units
    <2>4. recv'[d] \in Seq(Units) /\ Len(recv'[d]) = FrameEnd(d, 1)
      BY <2>1, <2>2, <2>3, IsASeq, LenProperties
    <2>5. recv' \in [Downloads -> Seq(Units)] /\ recv'[d] # <<>>
      <3>1. recv' = [recv EXCEPT ![d] = recv'[d]]
        BY <1>1, <1>2
      <3> QED BY <1>2, <2>1, <2>4, <3>1, EmptySeq
    <2>6. recv'[d][1][1] = body[d].gen /\ \A p \in 1..Len(recv'[d]) : recv'[d][p] = <<recv'[d][1][1], p>>
      BY <2>1, <2>2, <2>4
    <2>7. \A e \in Downloads : e # d =>
              body'[e] = body[e] /\ etag'[e] = etag[e] /\ recv'[e] = recv[e]
      BY <1>1, <1>2
    <2> QED BY <1>4, <2>4, <2>5, <2>6, <2>7
  <1> QED BY <1>3, <1>4

(* A chunk keeps what was received one generation's.                        *)
LEMMA ChunkStep == ASSUME TransferInv, NEW d \in Downloads, Chunk(d) PROVE TransferInv'
  <1>1. /\ TransferTypeOK /\ Open(d)
        /\ body' = [body EXCEPT ![d] =
                        IF Segment(d) THEN [gen |-> @.gen, pos |-> @.pos + 1] ELSE Closed]
        /\ UNCHANGED <<gen, etag, attempt>>
    BY DEF TransferInv, Chunk
  <1>2. /\ body[d].gen \in 1..MaxGen /\ body[d].pos = Len(recv[d]) + 1
        /\ body[d] \in [gen : 1..MaxGen, pos : Nat \ {0}]
        /\ Resuming(d) => body[d].gen = recv[d][1][1]
        /\ Len(recv[d]) \in Nat
    BY <1>1, TransferFacts DEF TransferInv, BodyContinues, Open
  <1>3. /\ body' \in [Downloads -> {Closed} \union [gen : 1..MaxGen, pos : Nat \ {0}]]
        /\ Segment(d) => body'[d].pos = body[d].pos + 1 /\ body'[d].gen = body[d].gen
        /\ ~ Segment(d) => body'[d] = Closed
    <2> DEFINE onward == [gen |-> body[d].gen, pos |-> body[d].pos + 1]
    <2>1. /\ onward \in [gen : 1..MaxGen, pos : Nat \ {0}]
          /\ onward.pos = body[d].pos + 1 /\ onward.gen = body[d].gen
      BY <1>2
    <2>2. body' = [body EXCEPT ![d] = IF Segment(d) THEN onward ELSE Closed]
      BY <1>1
    <2>3. body \in [Downloads -> {Closed} \union [gen : 1..MaxGen, pos : Nat \ {0}]]
      BY <1>1 DEF TransferTypeOK
    <2> HIDE DEF onward
    <2> QED BY <2>1, <2>2, <2>3
  <1>4. TransferTypeOK'
    BY <1>1, <1>3, ChunkAdds DEF TransferTypeOK, Units, Closed
  <1>5. BodyContinues'
    <2> SUFFICES ASSUME NEW e \in Downloads, Open(e)'
                 PROVE  /\ body'[e].pos = Len(recv'[e]) + 1
                        /\ Resuming(e)' => body'[e].gen = recv'[e][1][1]
      BY DEF BodyContinues
    <2>1. CASE e = d
      <3>1. Segment(d)
        BY <1>3, <2>1 DEF Open, Closed
      <3>2. body'[d].pos = body[d].pos + 1 /\ body'[d].gen = body[d].gen
        BY <1>3, <3>1
      <3> QED BY <1>2, <2>1, <3>1, <3>2, ChunkAdds
    <2>2. CASE e # d
      <3>1. body'[e] = body[e] /\ recv'[e] = recv[e]
        BY <2>2, ChunkAdds
      <3> QED BY <2>2, <3>1 DEF TransferInv, BodyContinues, Open, Resuming, Closed
    <2> QED BY <2>1, <2>2
  <1>6. EtagNamesBody'
    <2> SUFFICES ASSUME NEW e \in Downloads, etag[e] # None
                 PROVE  IF Resuming(e)' THEN etag[e] = recv'[e][1][1]
                        ELSE Open(e)' => etag[e] = body'[e].gen
      BY <1>1 DEF EtagNamesBody, None
    <2>1. CASE e = d
      <3>1. etag[d] = body[d].gen
        BY <1>1, <1>2, <2>1 DEF TransferInv, EtagNamesBody
      <3>2. Resuming(d)' /\ recv'[d][1][1] = body[d].gen
        BY ChunkAdds DEF Resuming
      <3> QED BY <2>1, <3>1, <3>2
    <2>2. CASE e # d
      <3>1. body'[e] = body[e] /\ recv'[e] = recv[e]
        BY <2>2, ChunkAdds
      <3> QED BY <2>2, <3>1 DEF TransferInv, EtagNamesBody, Open, Resuming, Closed
    <2> QED BY <2>1, <2>2
  <1>7. NoSplice'
    <2> SUFFICES ASSUME NEW e \in Downloads, NEW p \in DOMAIN recv'[e]
                 PROVE  recv'[e][p] = <<recv'[e][1][1], p>>
      BY DEF NoSplice
    <2>1. CASE e = d
      <3>1. DOMAIN recv'[d] = 1..Len(recv'[d])
        BY ChunkAdds, LenProperties
      <3> QED BY <2>1, <3>1, ChunkAdds
    <2>2. CASE e # d
      <3>1. recv'[e] = recv[e]
        BY <2>2, ChunkAdds
      <3> QED BY <3>1 DEF TransferInv, NoSplice
    <2> QED BY <2>1, <2>2
  <1> QED BY <1>4, <1>5, <1>6, <1>7 DEF TransferInv

(* A retry closes a body; the end of a download drops its etag as well.     *)
LEMMA CloseStep ==
    ASSUME TransferInv, NEW d \in Downloads, UNCHANGED <<gen, recv>>,
           body' = body \/ body' = [body EXCEPT ![d] = Closed],
           etag' = etag \/ etag' = [etag EXCEPT ![d] = None],
           attempt' \in [Downloads -> 0..MaxAttempts]
    PROVE  TransferInv'
  <1>1. TransferTypeOK
    BY DEF TransferInv
  <1>2. /\ body' \in [Downloads -> {Closed} \union [gen : 1..MaxGen, pos : Nat \ {0}]]
        /\ \A e \in Downloads : body'[e] = body[e] \/ body'[e] = Closed
    <2>1. body \in [Downloads -> {Closed} \union [gen : 1..MaxGen, pos : Nat \ {0}]]
      BY <1>1 DEF TransferTypeOK
    <2> QED BY <2>1
  <1>3. /\ etag' \in [Downloads -> 0..MaxGen]
        /\ \A e \in Downloads : etag'[e] = etag[e] \/ etag'[e] = None
    <2>1. etag \in [Downloads -> 0..MaxGen] /\ None \in 0..MaxGen
      BY <1>1, BoundsAssumption DEF TransferTypeOK, None
    <2> QED BY <2>1
  <1>4. TransferTypeOK'
    BY <1>1, <1>2, <1>3 DEF TransferTypeOK, Units, Closed
  <1>5. BodyContinues'
    <2> SUFFICES ASSUME NEW e \in Downloads, Open(e)'
                 PROVE  /\ body'[e].pos = Len(recv'[e]) + 1
                        /\ Resuming(e)' => body'[e].gen = recv'[e][1][1]
      BY DEF BodyContinues
    <2>1. body'[e] = body[e] /\ Open(e)
      BY <1>2 DEF Open, Closed
    <2> QED BY <2>1 DEF TransferInv, BodyContinues, Resuming
  <1>6. EtagNamesBody'
    <2> SUFFICES ASSUME NEW e \in Downloads, etag'[e] # None
                 PROVE  IF Resuming(e)' THEN etag'[e] = recv'[e][1][1]
                        ELSE Open(e)' => etag'[e] = body'[e].gen
      BY DEF EtagNamesBody, None
    <2>1. etag'[e] = etag[e]
      BY <1>3
    <2>2. Open(e)' => Open(e) /\ body'[e] = body[e]
      BY <1>2 DEF Open, Closed
    <2> QED BY <2>1, <2>2 DEF TransferInv, EtagNamesBody, Resuming
  <1>7. NoSplice'
    BY DEF TransferInv, NoSplice
  <1> QED BY <1>4, <1>5, <1>6, <1>7 DEF TransferInv

(* The other steps of a download.                                           *)
LEMMA RetryStep == ASSUME TransferInv, NEW d \in Downloads, Retry(d) PROVE TransferInv'
  <1>1. attempt \in [Downloads -> 0..MaxAttempts] /\ MaxAttempts \in Nat
    BY BoundsAssumption DEF TransferInv, TransferTypeOK
  <1>2. attempt[d] + 1 < MaxAttempts =>
            [attempt EXCEPT ![d] = @ + 1] \in [Downloads -> 0..MaxAttempts]
    <2>1. attempt[d] \in 0..MaxAttempts
      BY <1>1
    <2>2. attempt[d] + 1 < MaxAttempts => attempt[d] + 1 \in 0..MaxAttempts
      BY <1>1, <2>1
    <2> QED BY <1>1, <2>2
  <1> QED BY <1>1, <1>2, CloseStep DEF Retry, RetryRequest, RetryBody

(* The download is over: it failed, or its last frame was read.             *)
LEMMA OverStep ==
    ASSUME TransferInv, NEW d \in Downloads, Fail(d) \/ Complete(d)
    PROVE  TransferInv' /\ recv' = recv
  <1>1. [attempt EXCEPT ![d] = 0] \in [Downloads -> 0..MaxAttempts]
    BY BoundsAssumption DEF TransferInv, TransferTypeOK
  <1>2. /\ UNCHANGED <<gen, recv>>
        /\ etag' = [etag EXCEPT ![d] = None]
        /\ attempt' = [attempt EXCEPT ![d] = 0]
        /\ body' = body \/ body' = [body EXCEPT ![d] = Closed]
    BY DEF Fail, Complete, Over
  <1> QED BY <1>1, <1>2, CloseStep

-------------------------------------------------------------------------------
(* The scheduler *)

(* The frames read are those that what was received completes.              *)
LEMMA ReadFacts ==
    ASSUME TransferTypeOK, NEW d \in Downloads
    PROVE  /\ FramesRead(d) = ReadAt(d, Len(recv[d])) /\ Len(recv[d]) \in Nat
           /\ FramesRead(d) \in 0..FrameCount(d) /\ FrameCount(d) \in Nat
           /\ FramesRead(d) \in Nat
           /\ AllRead(d) <=> FramesRead(d) = FrameCount(d)
  <1>1. Len(recv[d]) \in Nat
    BY TransferFacts
  <1>2. FramesRead(d) = ReadAt(d, Len(recv[d]))
    BY DEF FramesRead, ReadAt
  <1>3. FramesRead(d) \in 0..FrameCount(d) /\ FrameCount(d) \in Nat
    BY <1>1, <1>2, ReadAtFacts, PlanFacts
  <1> QED BY <1>1, <1>2, <1>3 DEF AllRead

(* A chunk completes one frame, or none.                                    *)
LEMMA ChunkReads ==
    ASSUME TransferInv, NEW d \in Downloads, Chunk(d), ~ AllRead(d)
    PROVE  /\ FramesRead(d)' \in {FramesRead(d), FramesRead(d) + 1}
           /\ FramesRead(d) < FrameCount(d)
           /\ \A e \in Downloads : e # d => FramesRead(e)' = FramesRead(e)
  <1>1. TransferTypeOK /\ TransferTypeOK'
    BY ChunkStep DEF TransferInv
  <1>2. /\ FramesRead(d) = ReadAt(d, Len(recv[d])) /\ Len(recv[d]) \in Nat
        /\ FramesRead(d) \in 0..FrameCount(d) /\ FrameCount(d) \in Nat
        /\ FramesRead(d) # FrameCount(d)
    BY <1>1, ReadFacts
  <1>3. FramesRead(d)' = ReadAt(d, Len(recv'[d]))
    BY DEF FramesRead, ReadAt
  <1>4. CASE Segment(d)
    <2>1. Len(recv'[d]) = Len(recv[d]) + 1
      BY <1>4, ChunkAdds
    <2>2. ReadAt(d, Len(recv'[d])) \in {ReadAt(d, Len(recv[d])), ReadAt(d, Len(recv[d])) + 1}
      BY <1>2, <2>1, ReadNext
    <2>3. \A e \in Downloads : e # d => recv'[e] = recv[e]
      BY ChunkAdds
    <2>4. \A e \in Downloads : e # d => FramesRead(e)' = FramesRead(e)
      BY <2>3 DEF FramesRead
    <2> QED BY <1>2, <1>3, <2>2, <2>4
  <1>5. CASE ~ Segment(d)
    <2>1. FrameCount(d) = 1 /\ FramesRead(d) = 0
      BY <1>2, <1>5, PlanFacts DEF Segment
    <2>2. FramesRead(d)' \in 0..1
      <3>1. Len(recv'[d]) = FrameEnd(d, 1) /\ FrameEnd(d, 1) \in Nat
        BY <1>5, <2>1, ChunkAdds, PlanFacts
      <3>2. ReadAt(d, Len(recv'[d])) \in 0..FrameCount(d)
        BY <3>1, ReadAtFacts
      <3> QED BY <1>3, <2>1, <3>2
    <2>3. \A e \in Downloads : e # d => recv'[e] = recv[e]
      BY ChunkAdds
    <2>4. \A e \in Downloads : e # d => FramesRead(e)' = FramesRead(e)
      BY <2>3 DEF FramesRead
    <2> QED BY <2>1, <2>2, <2>4
  <1> QED BY <1>4, <1>5

(* The types of the scheduler's state, one by one.                          *)
LEMMA StateFacts ==
    ASSUME TransferTypeOK, TypeOK
    PROVE  /\ head \in Nat /\ next \in Nat /\ Len(Plan) \in Nat
           /\ head >= 1 /\ next >= 1 /\ head <= Len(Plan) + 1 /\ next <= Len(Plan) + 1
           /\ \A d \in Downloads :
                /\ d \in Nat /\ d >= 1 /\ d <= Len(Plan)
                /\ buf[d] \in Seq(Nat \ {0}) /\ Len(buf[d]) \in Nat
                /\ buf[d] = <<>> <=> Len(buf[d]) = 0
                /\ DOMAIN buf[d] = 1..Len(buf[d])
                /\ limit[d] \in Nat
                /\ FramesRead(d) \in Nat
           /\ \A n \in Nat : n >= 1 /\ n <= Len(Plan) => n \in Downloads
  <1>1. Len(Plan) \in Nat
    BY PlanFacts
  <1>2. ASSUME NEW d \in Downloads
        PROVE  /\ buf[d] \in Seq(Nat \ {0}) /\ Len(buf[d]) \in Nat
               /\ buf[d] = <<>> <=> Len(buf[d]) = 0
               /\ DOMAIN buf[d] = 1..Len(buf[d])
               /\ limit[d] \in Nat /\ FramesRead(d) \in Nat
    <2>1. buf[d] \in Seq(Nat \ {0}) /\ limit[d] \in {0, OutstandingHwm, TailHwm}
      BY DEF TypeOK
    <2>2. /\ Len(buf[d]) \in Nat /\ (buf[d] = <<>> <=> Len(buf[d]) = 0)
          /\ DOMAIN buf[d] = 1..Len(buf[d])
      BY <2>1, LenProperties, EmptySeq
    <2>3. limit[d] \in Nat
      BY <2>1, LimitsAssumption
    <2> QED BY <2>1, <2>2, <2>3, ReadFacts
  <1>3. head \in 1..(Len(Plan) + 1) /\ next \in 1..(Len(Plan) + 1)
    BY DEF TypeOK
  <1>4. Downloads = 1..Len(Plan)
    BY DEF Downloads
  <1> QED BY <1>1, <1>2, <1>3, <1>4

(* A step of the server, of the caller's signal, of a request, or a chunk   *)
(* that completes no frame: nothing of the scheduler moves.                 *)
LEMMA QuietStep ==
    ASSUME IInv, TransferInv', UNCHANGED <<readerVars, fetchVars>>,
           \A d \in Downloads : /\ FramesRead(d)' = FramesRead(d)
                                /\ pump[d] = "none" => recv'[d] = recv[d],
           aborted' \in BOOLEAN, aborted => aborted'
    PROVE  IInv'
  <1>1. /\ UNCHANGED <<main, outcome, head, next, out, pump, err, buf, limit, wake>>
    BY DEF readerVars, fetchVars
  <1>2. TypeOK'
    BY <1>1 DEF IInv, TypeOK, Frames, Downloads
  <1>3. /\ WindowIsBudgeted' /\ LaunchedInOrder' /\ HeadIsHeld'
    BY <1>1 DEF IInv, WindowIsBudgeted, LaunchedInOrder, HeadIsHeld, Budgeted, Count, Window
  <1>4. /\ \A d \in Downloads : /\ FramesRead(d)' = FramesRead(d)
                                /\ AllRead(d)' <=> AllRead(d)
                                /\ Taken(d)' = Taken(d)
    BY <1>1 DEF AllRead, Taken
  <1>5. EndedIsRead' /\ BufferIsTail'
    BY <1>1, <1>4 DEF IInv, EndedIsRead, BufferIsTail
  <1>6. BufferIsBounded'
    BY <1>1 DEF IInv, BufferIsBounded, Bytes, LargestFrame
  <1>7. NoLostWakeup'
    BY <1>1 DEF IInv, NoLostWakeup
  <1>9. main \in Running => head \in Downloads
    BY StateFacts DEF IInv, TransferInv, HeadIsHeld
  <1>10. YieldedSoFar'
    BY <1>1, <1>4, <1>9 DEF IInv, YieldedSoFar, EndsAt
  <1>11. InPlanOrder'
    <2>1. \A d \in 1..(next - 1) : d \in Downloads
      BY StateFacts DEF IInv, TransferInv
    <2> QED BY <1>1, <1>4, <2>1 DEF IInv, InPlanOrder, EndsAt
  <1> QED BY <1>2, <1>3, <1>5, <1>6, <1>7, <1>10, <1>11 DEF IInv

(* The budgets of a window are those of every part of it.                   *)
LEMMA BudgetOfPart ==
    ASSUME NEW W, W \subseteq Downloads, NEW V, V \subseteq W
    PROVE  /\ Count("segment", V) \in Nat /\ Count("block", V) \in Nat
           /\ Budgeted(W) => Budgeted(V)
  <1>1. MaxBlocks \in Nat
    BY LimitsAssumption
  <1>2. ASSUME NEW kind
        PROVE  Count(kind, V) \in Nat /\ Count(kind, W) \in Nat /\ Count(kind, V) <= Count(kind, W)
    <2> DEFINE A == {d \in V : Plan[d].kind = kind}
               B == {d \in W : Plan[d].kind = kind}
    <2>1. A \subseteq B /\ B \subseteq Downloads /\ IsFiniteSet(Downloads)
      BY PlanFacts
    <2>2. IsFiniteSet(B) /\ IsFiniteSet(A) /\ Cardinality(A) <= Cardinality(B)
      BY <2>1, FS_Subset
    <2>3. Cardinality(A) \in Nat /\ Cardinality(B) \in Nat
      BY <2>2, FS_CardinalityType
    <2> QED BY <2>2, <2>3 DEF Count
  <1> QED BY <1>1, <1>2 DEF Budgeted

(* A step of the generator that fetches nothing, takes no frame and waits   *)
(* for nobody: it changes what it is about to do, or drops an ended head.   *)
LEMMA GeneratorStep ==
    ASSUME IInv, UNCHANGED <<transferVars, aborted, next, out, fetchVars>>,
           main' \in {"settle", "done"} \union (Running \ {"wait"}),
           outcome' \in {"ok", "returned", "threw"},
           main \notin {"wait", "settleWait"},
           head' = head \/ (head' = head + 1 /\ head < next /\ pump[head] = "done"),
           HeadIsHeld', YieldedSoFar',
           outcome' = "threw" => \E d \in 1..(next - 1) : err[d] /\ EndsAt(d, FramesRead(d))
    PROVE  IInv'
  <1>1. UNCHANGED <<gen, body, etag, recv, attempt, aborted, next, out, pump, err, buf, limit, wake>>
    BY DEF transferVars, fetchVars
  <1>2. /\ TransferTypeOK /\ TypeOK /\ head \in Nat /\ next \in Nat /\ head >= 1
        /\ head <= next /\ next <= Len(Plan) + 1 /\ Len(Plan) \in Nat
    BY StateFacts DEF IInv, TransferInv, WindowIsBudgeted
  <1>3. head <= head' /\ head' <= next /\ head' \in 1..(Len(Plan) + 1)
    BY <1>2
  <1>4. TransferInv'
    BY <1>1 DEF IInv, TransferInv, TransferTypeOK, BodyContinues, EtagNamesBody, NoSplice,
                Units, Open, Resuming, Closed
  <1>5. TypeOK'
    BY <1>1, <1>2, <1>3 DEF TypeOK, Running, Frames, Downloads
  <1>6. WindowIsBudgeted'
    <2>1. Window \subseteq Downloads /\ (head'..(next - 1)) \subseteq Window
      BY <1>2, <1>3 DEF Window, Downloads
    <2>2. Budgeted(head'..(next - 1))
      BY <2>1, BudgetOfPart DEF IInv, WindowIsBudgeted
    <2>3. Window' = head'..(next - 1)
      BY <1>1 DEF Window
    <2> QED BY <1>1, <1>3, <2>2, <2>3 DEF WindowIsBudgeted, Budgeted, Count
  <1>7. LaunchedInOrder'
    <2>1. \A d \in Downloads : d < head' => pump[d] = "done"
      BY <1>2, StateFacts DEF IInv, LaunchedInOrder
    <2> QED BY <1>1, <2>1 DEF IInv, LaunchedInOrder
  <1>8. /\ \A d \in Downloads : /\ FramesRead(d)' = FramesRead(d)
                                /\ AllRead(d)' <=> AllRead(d)
                                /\ Taken(d)' = Taken(d)
    BY <1>1 DEF FramesRead, AllRead, Taken
  <1>9. EndedIsRead' /\ BufferIsTail' /\ BufferIsBounded'
    BY <1>1, <1>8 DEF IInv, EndedIsRead, BufferIsTail, BufferIsBounded, Bytes, LargestFrame
  <1>10. NoLostWakeup'
    BY <1>1 DEF IInv, NoLostWakeup, Running
  <1>11. InPlanOrder'
    <2>1. \A d \in 1..(next - 1) : d \in Downloads
      BY <1>2 DEF Downloads
    <2>2. main' = "done" /\ outcome' = "ok" => EndsAt(Len(Plan) + 1, 0)'
      BY DEF YieldedSoFar, Running
    <2>3. outcome' = "threw" => \E d \in 1..(next - 1) : err'[d] /\ EndsAt(d, FramesRead(d))'
      BY <1>1, <1>8, <2>1 DEF EndsAt
    <2>4. \A k \in DOMAIN out :
            out[k] \in Frames /\ out[k] = IF k = 1 THEN <<1, 1>> ELSE FrameAfter(out[k - 1])
      BY DEF IInv, InPlanOrder
    <2> QED BY <1>1, <2>2, <2>3, <2>4 DEF InPlanOrder, EndsAt
  <1> QED BY <1>4, <1>5, <1>6, <1>7, <1>9, <1>10, <1>11 DEF IInv

(* The consumer asks for more, or leaves.                                   *)
LEMMA ConsumerStep == ASSUME IInv, Ask \/ Leave PROVE IInv'
  <1>1. /\ UNCHANGED <<transferVars, aborted, head, next, out, fetchVars>>
        /\ main = "yielded" /\ outcome = "ok"
        /\ \/ main' = "step" /\ outcome' = outcome
           \/ main' = "settle" /\ outcome' = "returned"
    BY DEF Ask, Leave, IInv, HeadIsHeld, Running
  <1>2. HeadIsHeld'
    BY <1>1 DEF IInv, HeadIsHeld, Running
  <1>3. YieldedSoFar'
    <2>1. /\ \A d \in Downloads : Taken(d)' = Taken(d)
          /\ Taken(head)' = Taken(head)
      BY <1>1 DEF Taken, FramesRead, transferVars, fetchVars
    <2> QED BY <1>1, <2>1 DEF IInv, YieldedSoFar, EndsAt, Running
  <1> QED BY <1>1, <1>2, <1>3, GeneratorStep DEF Running

(* The head's error is thrown where its frames end.                         *)
LEMMA HeadFailsStep == ASSUME IInv, HeadFails PROVE IInv'
  <1>1. /\ UNCHANGED <<transferVars, aborted, next, out, fetchVars>>
        /\ main = "step" /\ buf[head] = <<>> /\ pump[head] = "done" /\ err[head]
        /\ head' = head + 1 /\ main' = "settle" /\ outcome' = "threw"
    BY DEF HeadFails
  <1>2. head < next /\ head \in 1..(next - 1) /\ head \in Downloads
    BY <1>1, StateFacts DEF IInv, TransferInv, HeadIsHeld, Running
  <1>3. EndsAt(head, FramesRead(head))
    <2>1. Taken(head) = FramesRead(head)
      BY <1>1, <1>2, StateFacts, EmptySeq DEF IInv, TransferInv, Taken
    <2> QED BY <1>1, <2>1 DEF IInv, YieldedSoFar, Running
  <1>4. HeadIsHeld' /\ YieldedSoFar'
    BY <1>1 DEF HeadIsHeld, YieldedSoFar, Running
  <1> QED BY <1>1, <1>2, <1>3, <1>4, GeneratorStep DEF Running

(* drainAll drops a head that has ended, and finishes when none is left.    *)
LEMMA SettleStep == ASSUME IInv, Settled \/ Finish PROVE IInv'
  <1>1. /\ UNCHANGED <<transferVars, aborted, outcome, next, out, fetchVars>>
        /\ main = "settle" /\ outcome \in {"ok", "returned", "threw"}
        /\ \/ head' = head + 1 /\ head < next /\ pump[head] = "done" /\ main' = "settle"
           \/ head' = head /\ head = next /\ main' = "done"
    BY DEF Settled, Finish, IInv, TypeOK
  <1>2. HeadIsHeld'
    BY <1>1 DEF HeadIsHeld, Running
  <1>3. YieldedSoFar'
    BY <1>1 DEF IInv, YieldedSoFar, EndsAt, Running
  <1>4. outcome' = "threw" => \E d \in 1..(next - 1) : err[d] /\ EndsAt(d, FramesRead(d))
    BY <1>1 DEF IInv, InPlanOrder
  <1> QED BY <1>1, <1>2, <1>3, <1>4, GeneratorStep DEF Running

(* What a buffer holds are the frames read and not taken, and their bytes.  *)
BytesSay ==
    \A d \in Downloads :
        /\ Taken(d) \in 0..FramesRead(d) /\ FramesRead(d) \in 0..FrameCount(d)
        /\ FrameEnd(d, FramesRead(d)) \in Nat /\ FrameEnd(d, Taken(d)) \in Nat
        /\ Bytes(d, buf[d]) = FrameEnd(d, FramesRead(d)) - FrameEnd(d, Taken(d))
        /\ Bytes(d, buf[d]) \in Nat

(* The buffer says so.                                                      *)
LEMMA BufferedBytes == TransferTypeOK /\ TypeOK /\ BufferIsTail => BytesSay
  <1> SUFFICES ASSUME TransferTypeOK, TypeOK, BufferIsTail, NEW d \in Downloads
               PROVE  /\ Taken(d) \in 0..FramesRead(d) /\ FramesRead(d) \in 0..FrameCount(d)
                      /\ FrameEnd(d, FramesRead(d)) \in Nat /\ FrameEnd(d, Taken(d)) \in Nat
                      /\ Bytes(d, buf[d]) = FrameEnd(d, FramesRead(d)) - FrameEnd(d, Taken(d))
                      /\ Bytes(d, buf[d]) \in Nat
    BY DEF BytesSay
  <1>1. /\ Len(buf[d]) \in Nat /\ FramesRead(d) \in 0..FrameCount(d) /\ FrameCount(d) \in Nat
        /\ Len(buf[d]) <= FramesRead(d) /\ buf[d] \in Seq(Nat \ {0})
        /\ buf[d] = <<>> <=> Len(buf[d]) = 0
        /\ DOMAIN buf[d] = 1..Len(buf[d])
    BY StateFacts, ReadFacts DEF BufferIsTail
  <1>2. Taken(d) \in 0..FramesRead(d) /\ Taken(d) = FramesRead(d) - Len(buf[d])
    BY <1>1 DEF Taken
  <1>3. FrameEnd(d, FramesRead(d)) \in Nat /\ FrameEnd(d, Taken(d)) \in Nat
    BY <1>1, <1>2, PlanFacts
  <1>4. CASE buf[d] = <<>>
    <2>1. Taken(d) = FramesRead(d)
      BY <1>1, <1>2, <1>4
    <2> QED BY <1>1, <1>2, <1>3, <1>4, <2>1 DEF Bytes
  <1>5. CASE buf[d] # <<>>
    <2>1. /\ Head(buf[d]) = Taken(d) + 1 /\ Last(buf[d]) = FramesRead(d)
      <3>1. Head(buf[d]) = buf[d][1] /\ Last(buf[d]) = buf[d][Len(buf[d])]
        BY <1>1, <1>5, HeadTailProperties DEF Last
      <3>2. 1 \in DOMAIN buf[d] /\ Len(buf[d]) \in DOMAIN buf[d]
        BY <1>1, <1>5
      <3>3. buf[d][1] = Taken(d) + 1 /\ buf[d][Len(buf[d])] = Taken(d) + Len(buf[d])
        BY <3>2 DEF BufferIsTail
      <3> QED BY <1>1, <1>2, <3>1, <3>3
    <2>2. FrameEnd(d, Taken(d)) < FrameEnd(d, FramesRead(d))
      <3>1. Taken(d) < FramesRead(d) /\ Taken(d) \in 0..FrameCount(d)
        BY <1>1, <1>2, <1>5
      <3> QED BY <1>1, <3>1, PlanFacts
    <2>3. Head(buf[d]) - 1 = Taken(d)
      BY <1>1, <1>2, <2>1
    <2>4. Bytes(d, buf[d]) = FrameEnd(d, FramesRead(d)) - FrameEnd(d, Taken(d))
      BY <1>5, <2>1, <2>3 DEF Bytes
    <2> QED BY <1>1, <1>2, <1>3, <2>2, <2>4
  <1> QED BY <1>4, <1>5

(* The same of the next state.                                              *)
LEMMA BufferedBytesNext == TransferTypeOK' /\ TypeOK' /\ BufferIsTail' => BytesSay'
  <1>1. TransferTypeOK /\ TypeOK /\ BufferIsTail => BytesSay
    BY BufferedBytes
  <1> QED BY <1>1, PTL

(* No frame is larger than the largest.                                     *)
LEMMA LargestFacts ==
    ASSUME NEW d \in Downloads
    PROVE  /\ LargestFrame(d) \in Nat
           /\ \A i \in 0..FrameCount(d) : i < FrameCount(d) =>
                FrameEnd(d, i + 1) - FrameEnd(d, i) <= LargestFrame(d)
  <1> DEFINE last == FrameEnd(d, FrameCount(d))
             S == {FrameEnd(d, i) - FrameEnd(d, i - 1) : i \in 1..FrameCount(d)}
  <1>1. /\ FrameCount(d) \in Nat /\ FrameCount(d) > 0 /\ last \in Nat
        /\ \A i \in 0..FrameCount(d) : FrameEnd(d, i) \in Nat
        /\ \A i, j \in 0..FrameCount(d) : i < j => FrameEnd(d, i) < FrameEnd(d, j)
    BY PlanFacts
  <1>2. ASSUME NEW i \in 1..FrameCount(d)
        PROVE  FrameEnd(d, i) - FrameEnd(d, i - 1) \in 0..last
    <2>1. /\ i \in 0..FrameCount(d) /\ i - 1 \in 0..FrameCount(d) /\ i - 1 < i
          /\ FrameCount(d) \in 0..FrameCount(d)
      BY <1>1
    <2>2. FrameEnd(d, i - 1) < FrameEnd(d, i) /\ FrameEnd(d, i - 1) \in Nat /\ FrameEnd(d, i) \in Nat
      BY <1>1, <2>1
    <2>3. FrameEnd(d, i) <= last
      <3>1. CASE i = FrameCount(d)
        BY <2>2, <3>1
      <3>2. CASE i < FrameCount(d)
        BY <1>1, <2>1, <2>2, <3>2
      <3> QED BY <1>1, <3>1, <3>2
    <2> QED BY <1>1, <2>2, <2>3
  <1>3. S \subseteq 0..last /\ S # {}
    <2>1. 1 \in 1..FrameCount(d)
      BY <1>1
    <2> QED BY <1>2, <2>1
  <1>4. Max(S) \in S /\ \A y \in S : y <= Max(S)
    BY <1>1, <1>3, MaxOfNats
  <1>5. LargestFrame(d) = Max(S) /\ Max(S) \in Nat
    BY <1>1, <1>3, <1>4 DEF LargestFrame
  <1>6. ASSUME NEW i \in 0..FrameCount(d), i < FrameCount(d)
        PROVE  FrameEnd(d, i + 1) - FrameEnd(d, i) <= LargestFrame(d)
    <2>1. i + 1 \in 1..FrameCount(d) /\ (i + 1) - 1 = i
      BY <1>1, <1>6
    <2>2. FrameEnd(d, i + 1) - FrameEnd(d, i) \in S
      BY <2>1
    <2> QED BY <1>4, <1>5, <2>2
  <1> QED BY <1>5, <1>6

(* #notify lets the drain go on if it is the one that waits on this latch.  *)
LEMMA NotifyFacts ==
    ASSUME IInv, NEW d \in Downloads, DrainAfterNotify(d)
    PROVE  /\ main' \in {"new", "settle", "settleWait", "done"} \union Running
           /\ main' \in Running <=> main \in Running
           /\ main' = "new" <=> main = "new"
           /\ main' = "done" <=> main = "done"
           /\ main' \in {"wait", "settleWait"} => main' = main /\ d # head
           /\ d # head => main' = main
           /\ main' = "settleWait" => main = "settleWait"
  <1>1. main \in {"new", "settle", "settleWait", "done"} \union Running
    BY DEF IInv, TypeOK
  <1>2. CASE wake[d] = "drain"
    <2>1. d = head /\ main \in {"wait", "settleWait"}
      BY <1>2 DEF IInv, NoLostWakeup
    <2> QED BY <1>2, <2>1 DEF DrainAfterNotify, Running
  <1>3. CASE wake[d] # "drain"
    <2>1. main' = main /\ (d # head \/ main \notin {"wait", "settleWait"})
      BY <1>3 DEF IInv, NoLostWakeup, DrainAfterNotify
    <2> QED BY <1>1, <2>1
  <1> QED BY <1>2, <1>3

(* The generator's variables after a pump's step: main may have been woken. *)
LEMMA WokenMain ==
    ASSUME IInv, NEW d \in Downloads, DrainAfterNotify(d),
           UNCHANGED <<outcome, head, next, out>>,
           \A e \in Downloads : Taken(e)' = Taken(e),
           \A e \in Downloads : err[e] => err'[e] /\ FramesRead(e)' = FramesRead(e)
    PROVE  /\ HeadIsHeld' /\ YieldedSoFar' /\ InPlanOrder' /\ WindowIsBudgeted'
  <1>1. /\ main' \in Running <=> main \in Running
        /\ main' = "new" <=> main = "new"
        /\ main' = "done" <=> main = "done"
        /\ main' = "settleWait" => main = "settleWait"
    BY NotifyFacts
  <1>2. HeadIsHeld'
    BY <1>1 DEF IInv, HeadIsHeld
  <1>3. main \in Running => head \in Downloads
    BY StateFacts DEF IInv, TransferInv, HeadIsHeld
  <1>4. YieldedSoFar'
    BY <1>1, <1>3 DEF IInv, YieldedSoFar, EndsAt
  <1>5. InPlanOrder'
    <2>1. \A e \in 1..(next - 1) : e \in Downloads
      BY StateFacts DEF IInv, TransferInv
    <2>2. outcome = "threw" => \E e \in 1..(next - 1) : err'[e] /\ EndsAt(e, FramesRead(e))'
      BY <2>1 DEF IInv, InPlanOrder, EndsAt
    <2> QED BY <1>1, <2>2 DEF IInv, InPlanOrder, EndsAt
  <1>6. WindowIsBudgeted'
    BY DEF IInv, WindowIsBudgeted, Window, Budgeted, Count
  <1> QED BY <1>2, <1>4, <1>5, <1>6

(* The drain waits on the head's latch: its pump is not parked there, as a  *)
(* parked pump has frames in its buffer.                                    *)
LEMMA AwaitStep == ASSUME IInv, Await PROVE IInv'
  <1>1. /\ main \in {"step", "settle"} /\ head < next
        /\ buf[head] = <<>> /\ pump[head] # "done"
        /\ wake' = [wake EXCEPT ![head] = "drain"]
        /\ main' = IF main = "step" THEN "wait" ELSE "settleWait"
        /\ UNCHANGED <<gen, body, etag, recv, attempt, aborted, outcome, head, next, out, pump,
                       err, buf, limit>>
    BY DEF Await, transferVars
  <1>2. head \in Downloads
    BY <1>1, StateFacts DEF IInv, TransferInv
  <1>3. TransferInv'
    BY <1>1 DEF IInv, TransferInv, TransferTypeOK, BodyContinues, EtagNamesBody, NoSplice,
                Units, Open, Resuming, Closed
  <1>4. wake \in [Downloads -> {"nobody", "pump", "drain"}]
    BY DEF IInv, TypeOK
  <1>5. TypeOK'
    BY <1>1, <1>4 DEF IInv, TypeOK, Running, Frames, Downloads
  <1>6. /\ \A d \in Downloads : /\ FramesRead(d)' = FramesRead(d)
                                /\ AllRead(d)' <=> AllRead(d)
                                /\ Taken(d)' = Taken(d)
    BY <1>1 DEF FramesRead, AllRead, Taken
  <1>7. EndedIsRead' /\ BufferIsTail' /\ BufferIsBounded' /\ LaunchedInOrder'
    BY <1>1, <1>6 DEF IInv, EndedIsRead, BufferIsTail, BufferIsBounded, Bytes, LargestFrame,
                      LaunchedInOrder
  <1>8. NoLostWakeup'
    <2> SUFFICES ASSUME NEW d \in Downloads
                 PROVE  /\ wake'[d] = "drain" <=> d = head /\ main' \in {"wait", "settleWait"}
                        /\ wake'[d] = "pump" <=> pump[d] = "parked"
                        /\ wake'[d] = "drain" => buf[d] = <<>> /\ pump[d] # "done"
                        /\ pump[d] = "parked" => buf[d] # <<>>
      BY <1>1 DEF NoLostWakeup
    <2>1. CASE d = head
      BY <1>1, <1>4, <2>1 DEF IInv, NoLostWakeup
    <2>2. CASE d # head
      <3>1. wake'[d] = wake[d]
        BY <1>1, <1>4, <2>2
      <3> QED BY <1>1, <2>2, <3>1 DEF IInv, NoLostWakeup
    <2> QED BY <2>1, <2>2
  <1>9. HeadIsHeld' /\ WindowIsBudgeted'
    BY <1>1 DEF IInv, HeadIsHeld, WindowIsBudgeted, Window, Budgeted, Count, Running
  <1>10. YieldedSoFar'
    BY <1>1, <1>2, <1>6 DEF IInv, YieldedSoFar, EndsAt, Running
  <1>11. InPlanOrder'
    <2>1. \A e \in 1..(next - 1) : e \in Downloads
      BY StateFacts DEF IInv, TransferInv
    <2> QED BY <1>1, <1>6, <2>1 DEF IInv, InPlanOrder, EndsAt
  <1> QED BY <1>3, <1>5, <1>7, <1>8, <1>9, <1>10, <1>11 DEF IInv

(* A woken pump looks at its buffer again: it parks only on a full one, and *)
(* then the drain, which waits on an empty one, does not hold its latch.    *)
LEMMA PumpWakesStep == ASSUME IInv, NEW d \in Downloads, PumpWakes(d) PROVE IInv'
  <1>1. /\ pump[d] = "woken"
        /\ pump' = [pump EXCEPT ![d] = IF Parks(d, buf[d]) THEN "parked" ELSE "read"]
        /\ wake' = [wake EXCEPT ![d] = IF Parks(d, buf[d]) THEN "pump" ELSE @]
        /\ UNCHANGED <<gen, body, etag, recv, attempt, aborted, main, outcome, head, next, out,
                       err, buf, limit>>
    BY DEF PumpWakes, transferVars, readerVars
  <1>2. /\ wake \in [Downloads -> {"nobody", "pump", "drain"}]
        /\ pump \in [Downloads -> {"none", "read", "parked", "woken", "done"}]
    BY DEF IInv, TypeOK
  <1>3. /\ pump'[d] = IF Parks(d, buf[d]) THEN "parked" ELSE "read"
        /\ wake'[d] = IF Parks(d, buf[d]) THEN "pump" ELSE wake[d]
        /\ \A e \in Downloads : e # d => pump'[e] = pump[e] /\ wake'[e] = wake[e]
    BY <1>1, <1>2
  <1>4. TransferInv'
    BY <1>1 DEF IInv, TransferInv, TransferTypeOK, BodyContinues, EtagNamesBody, NoSplice,
                Units, Open, Resuming, Closed
  <1>5. TypeOK'
    <2>1. /\ pump' \in [Downloads -> {"none", "read", "parked", "woken", "done"}]
          /\ wake' \in [Downloads -> {"nobody", "pump", "drain"}]
      BY <1>1, <1>2
    <2> QED BY <1>1, <2>1 DEF IInv, TypeOK, Running, Frames, Downloads
  <1>6. /\ \A e \in Downloads : /\ FramesRead(e)' = FramesRead(e)
                                /\ AllRead(e)' <=> AllRead(e)
                                /\ Taken(e)' = Taken(e)
    BY <1>1 DEF FramesRead, AllRead, Taken
  <1>7. /\ Bytes(d, buf[d]) \in Nat /\ limit[d] \in Nat /\ limit[d] > 0
        /\ buf[d] = <<>> => Bytes(d, buf[d]) = 0
    <2>1. Bytes(d, buf[d]) \in Nat
      BY BufferedBytes DEF IInv, TransferInv, BytesSay
    <2>2. d < next
      BY <1>1, StateFacts DEF IInv, TransferInv, LaunchedInOrder
    <2>3. limit[d] \in Nat /\ limit[d] # 0
      BY <2>2, StateFacts DEF IInv, TransferInv, LaunchedInOrder
    <2> QED BY <2>1, <2>3 DEF Bytes
  <1>8. /\ Parks(d, buf[d]) => buf[d] # <<>>
        /\ ~ Parks(d, buf[d]) /\ ~ aborted => Bytes(d, buf[d]) < limit[d]
    BY <1>7 DEF Parks
  <1>9. EndedIsRead' /\ BufferIsTail' /\ LaunchedInOrder'
    BY <1>1, <1>3, <1>6 DEF IInv, EndedIsRead, BufferIsTail, LaunchedInOrder
  <1>10. BufferIsBounded'
    <2> SUFFICES ASSUME ~ aborted, NEW e \in Downloads
                 PROVE  /\ buf[e] # <<>> => Bytes(e, buf[e]) < limit[e] + LargestFrame(e)
                        /\ pump'[e] = "read" => Bytes(e, buf[e]) < limit[e]
      BY <1>1 DEF BufferIsBounded, Bytes, LargestFrame
    <2>1. CASE e # d
      BY <1>3, <2>1 DEF IInv, BufferIsBounded
    <2>2. CASE e = d
      BY <1>3, <1>8, <2>2 DEF IInv, BufferIsBounded
    <2> QED BY <2>1, <2>2
  <1>11. NoLostWakeup'
    <2> SUFFICES ASSUME NEW e \in Downloads
                 PROVE  /\ wake'[e] = "drain" <=> e = head /\ main \in {"wait", "settleWait"}
                        /\ wake'[e] = "pump" <=> pump'[e] = "parked"
                        /\ wake'[e] = "drain" => buf[e] = <<>> /\ pump'[e] # "done"
                        /\ pump'[e] = "parked" => buf[e] # <<>>
      BY <1>1 DEF NoLostWakeup
    <2>1. CASE e # d
      BY <1>3, <2>1 DEF IInv, NoLostWakeup
    <2>2. CASE e = d
      BY <1>1, <1>3, <1>8, <2>2 DEF IInv, NoLostWakeup
    <2> QED BY <2>1, <2>2
  <1>12. HeadIsHeld' /\ WindowIsBudgeted'
    BY <1>1 DEF IInv, HeadIsHeld, WindowIsBudgeted, Window, Budgeted, Count
  <1>13. main \in Running => head \in Downloads
    BY StateFacts DEF IInv, TransferInv, HeadIsHeld
  <1>14. YieldedSoFar'
    BY <1>1, <1>6, <1>13 DEF IInv, YieldedSoFar, EndsAt
  <1>15. InPlanOrder'
    <2>1. \A e \in 1..(next - 1) : e \in Downloads
      BY StateFacts DEF IInv, TransferInv
    <2> QED BY <1>1, <1>6, <2>1 DEF IInv, InPlanOrder, EndsAt
  <1> QED BY <1>4, <1>5, <1>9, <1>10, <1>11, <1>12, <1>14, <1>15 DEF IInv

(* A pump ends: its download was read, or its error is kept for the drain,  *)
(* which goes on if it waited.                                              *)
LEMMA PumpEndsStep == ASSUME IInv, NEW d \in Downloads, PumpEnds(d) PROVE IInv'
  <1>1. /\ pump[d] = "read" /\ DrainAfterNotify(d)
        /\ pump' = [pump EXCEPT ![d] = "done"]
        /\ wake' = [wake EXCEPT ![d] = "nobody"]
        /\ UNCHANGED <<aborted, outcome, head, next, out, buf, limit>>
    BY DEF PumpEnds
  <1>2. \/ Complete(d) /\ err' = err
        \/ Fail(d) /\ err' = [err EXCEPT ![d] = TRUE]
    BY DEF PumpEnds
  <1>3. TransferInv' /\ recv' = recv
    BY <1>2, OverStep DEF IInv
  <1>4. /\ wake \in [Downloads -> {"nobody", "pump", "drain"}]
        /\ pump \in [Downloads -> {"none", "read", "parked", "woken", "done"}]
        /\ err \in [Downloads -> BOOLEAN]
    BY DEF IInv, TypeOK
  <1>5. /\ pump'[d] = "done" /\ wake'[d] = "nobody"
        /\ \A e \in Downloads : e # d => pump'[e] = pump[e] /\ wake'[e] = wake[e]
    BY <1>1, <1>4
  <1>6. /\ err' \in [Downloads -> BOOLEAN]
        /\ \A e \in Downloads : e # d => (err'[e] <=> err[e])
        /\ ~ err'[d] => AllRead(d)
        /\ \A e \in Downloads : err[e] => err'[e]
    <2>1. CASE Complete(d) /\ err' = err
      BY <1>4, <2>1 DEF Complete
    <2>2. CASE err' = [err EXCEPT ![d] = TRUE]
      BY <1>4, <2>2
    <2> QED BY <1>2, <2>1, <2>2
  <1>7. /\ \A e \in Downloads : /\ FramesRead(e)' = FramesRead(e)
                                /\ AllRead(e)' <=> AllRead(e)
                                /\ Taken(e)' = Taken(e)
    BY <1>1, <1>3 DEF FramesRead, AllRead, Taken
  <1>8. TypeOK'
    <2>1. main' \in {"new", "settle", "settleWait", "done"} \union Running
      BY <1>1, NotifyFacts
    <2>2. /\ pump' \in [Downloads -> {"none", "read", "parked", "woken", "done"}]
          /\ wake' \in [Downloads -> {"nobody", "pump", "drain"}]
      BY <1>1, <1>4
    <2> QED BY <1>1, <1>6, <2>1, <2>2 DEF IInv, TypeOK, Running, Frames, Downloads
  <1>9. /\ HeadIsHeld' /\ YieldedSoFar' /\ InPlanOrder' /\ WindowIsBudgeted'
    BY <1>1, <1>6, <1>7, WokenMain
  <1>10. EndedIsRead'
    BY <1>5, <1>6, <1>7 DEF IInv, EndedIsRead
  <1>11. BufferIsTail'
    BY <1>1, <1>7 DEF IInv, BufferIsTail
  <1>12. BufferIsBounded'
    <2> SUFFICES ASSUME ~ aborted, NEW e \in Downloads
                 PROVE  /\ buf[e] # <<>> => Bytes(e, buf[e]) < limit[e] + LargestFrame(e)
                        /\ pump'[e] = "read" => Bytes(e, buf[e]) < limit[e]
      BY <1>1 DEF BufferIsBounded, Bytes, LargestFrame
    <2> QED BY <1>5 DEF IInv, BufferIsBounded
  <1>13. LaunchedInOrder'
    BY <1>1, <1>3, <1>5 DEF IInv, LaunchedInOrder
  <1>14. NoLostWakeup'
    <2>1. /\ main' \in {"wait", "settleWait"} => main' = main /\ d # head
          /\ d # head => main' = main
      BY <1>1, NotifyFacts
    <2> SUFFICES ASSUME NEW e \in Downloads
                 PROVE  /\ wake'[e] = "drain" <=> e = head /\ main' \in {"wait", "settleWait"}
                        /\ wake'[e] = "pump" <=> pump'[e] = "parked"
                        /\ wake'[e] = "drain" => buf[e] = <<>> /\ pump'[e] # "done"
                        /\ pump'[e] = "parked" => buf[e] # <<>>
      BY <1>1 DEF NoLostWakeup
    <2>2. CASE e = d
      BY <1>5, <2>1, <2>2
    <2>3. CASE e # d
      <3>1. e = head => (main' \in {"wait", "settleWait"} <=> main \in {"wait", "settleWait"})
        BY <2>1, <2>3
      <3>2. /\ wake[e] = "drain" <=> e = head /\ main \in {"wait", "settleWait"}
            /\ wake[e] = "pump" <=> pump[e] = "parked"
            /\ wake[e] = "drain" => buf[e] = <<>> /\ pump[e] # "done"
            /\ pump[e] = "parked" => buf[e] # <<>>
        BY DEF IInv, NoLostWakeup
      <3> QED BY <1>5, <2>3, <3>1, <3>2
    <2> QED BY <2>2, <2>3
  <1> QED BY <1>3, <1>8, <1>9, <1>10, <1>11, <1>12, <1>13, <1>14 DEF IInv

(* A chunk completes a frame: it is buffered and the drain told, and the    *)
(* pump goes on reading only below its limit.                               *)
LEMMA FrameReadStep ==
    ASSUME IInv, NEW d \in Downloads, PumpReads(d), FramesRead(d)' # FramesRead(d)
    PROVE  IInv'
  <1>1. /\ pump[d] = "read" /\ ~ AllRead(d) /\ Chunk(d) /\ DrainAfterNotify(d)
        /\ buf' = [buf EXCEPT ![d] = Append(@, FramesRead(d)')]
        /\ pump' = [pump EXCEPT ![d] = IF Parks(d, buf'[d]) THEN "parked" ELSE @]
        /\ wake' = [wake EXCEPT ![d] = IF Parks(d, buf'[d]) THEN "pump" ELSE "nobody"]
        /\ UNCHANGED <<aborted, outcome, head, next, out, err, limit>>
    BY DEF PumpReads
  <1>2. /\ TransferInv' /\ TransferTypeOK /\ TransferTypeOK' /\ TypeOK
    BY <1>1, ChunkStep DEF IInv, TransferInv
  <1>3. /\ FramesRead(d)' = FramesRead(d) + 1 /\ FramesRead(d) < FrameCount(d)
        /\ FramesRead(d) \in Nat /\ FrameCount(d) \in Nat
        /\ \A e \in Downloads : e # d => FramesRead(e)' = FramesRead(e) /\ recv'[e] = recv[e]
    BY <1>1, <1>2, ChunkReads, ChunkAdds, ReadFacts DEF IInv
  <1>4. /\ buf[d] \in Seq(Nat \ {0}) /\ Len(buf[d]) \in Nat
        /\ buf \in [Downloads -> Seq(Nat \ {0})]
        /\ wake \in [Downloads -> {"nobody", "pump", "drain"}]
        /\ pump \in [Downloads -> {"none", "read", "parked", "woken", "done"}]
    BY <1>2, StateFacts DEF TypeOK
  <1>5. /\ buf'[d] = Append(buf[d], FramesRead(d) + 1)
        /\ pump'[d] = IF Parks(d, buf'[d]) THEN "parked" ELSE "read"
        /\ wake'[d] = IF Parks(d, buf'[d]) THEN "pump" ELSE "nobody"
        /\ \A e \in Downloads : e # d =>
              pump'[e] = pump[e] /\ wake'[e] = wake[e] /\ buf'[e] = buf[e]
    BY <1>1, <1>3, <1>4
  <1>6. /\ buf'[d] \in Seq(Nat \ {0}) /\ Len(buf'[d]) = Len(buf[d]) + 1
        /\ \A k \in 1..Len(buf[d]) : buf'[d][k] = buf[d][k]
        /\ buf'[d][Len(buf[d]) + 1] = FramesRead(d) + 1
        /\ DOMAIN buf'[d] = 1..(Len(buf[d]) + 1) /\ buf'[d] # <<>>
    <2>1. FramesRead(d) + 1 \in Nat \ {0}
      BY <1>3
    <2>2. /\ buf'[d] \in Seq(Nat \ {0}) /\ Len(buf'[d]) = Len(buf[d]) + 1
          /\ \A k \in 1..Len(buf[d]) : buf'[d][k] = buf[d][k]
          /\ buf'[d][Len(buf[d]) + 1] = FramesRead(d) + 1
      BY <1>4, <1>5, <2>1, AppendProperties
    <2> QED BY <1>4, <2>2, LenProperties, EmptySeq
  <1>7. TypeOK'
    <2>1. main' \in {"new", "settle", "settleWait", "done"} \union Running
      BY <1>1, NotifyFacts
    <2>2. /\ pump' \in [Downloads -> {"none", "read", "parked", "woken", "done"}]
          /\ wake' \in [Downloads -> {"nobody", "pump", "drain"}]
      BY <1>1, <1>4
    <2>3. buf' \in [Downloads -> Seq(Nat \ {0})]
      <3>1. buf' = [buf EXCEPT ![d] = buf'[d]]
        BY <1>1, <1>4
      <3> QED BY <1>4, <1>6, <3>1
    <2> QED BY <1>1, <1>2, <2>1, <2>2, <2>3 DEF TypeOK, Running, Frames, Downloads
  <1>8. \A e \in Downloads : Taken(e)' = Taken(e)
    <2>1. FramesRead(d)' - Len(buf'[d]) = FramesRead(d) - Len(buf[d])
      BY <1>3, <1>4, <1>6
    <2> QED BY <1>3, <1>5, <2>1 DEF Taken
  <1>9. \A e \in Downloads : err[e] => err'[e] /\ FramesRead(e)' = FramesRead(e)
    BY <1>1, <1>3 DEF IInv, EndedIsRead
  <1>10. /\ HeadIsHeld' /\ YieldedSoFar' /\ InPlanOrder' /\ WindowIsBudgeted'
    BY <1>1, <1>8, <1>9, WokenMain
  <1>11. EndedIsRead'
    <2>1. pump'[d] # "done" /\ ~ err[d]
      BY <1>1, <1>5 DEF IInv, EndedIsRead
    <2>2. \A e \in Downloads : e # d => (AllRead(e)' <=> AllRead(e))
      BY <1>3 DEF AllRead
    <2> QED BY <1>1, <1>5, <2>1, <2>2 DEF IInv, EndedIsRead
  <1>12. BufferIsTail'
    <2> SUFFICES ASSUME NEW e \in Downloads
                 PROVE  /\ Len(buf'[e]) <= FramesRead(e)'
                        /\ \A k \in DOMAIN buf'[e] : buf'[e][k] = Taken(e)' + k
      BY DEF BufferIsTail
    <2>1. CASE e # d
      BY <1>3, <1>5, <1>8, <2>1 DEF IInv, BufferIsTail
    <2>2. CASE e = d
      <3>1. /\ Len(buf[d]) <= FramesRead(d) /\ Taken(d) = FramesRead(d) - Len(buf[d])
            /\ \A k \in 1..Len(buf[d]) : buf[d][k] = Taken(d) + k
        BY <1>2, StateFacts DEF IInv, BufferIsTail, Taken
      <3>2. Taken(d)' = Taken(d)
        BY <1>8
      <3>3. ASSUME NEW k \in DOMAIN buf'[d] PROVE buf'[d][k] = Taken(d) + k
        <4>1. CASE k \in 1..Len(buf[d])
          BY <1>6, <3>1, <4>1
        <4>2. CASE k = Len(buf[d]) + 1
          BY <1>3, <1>4, <1>6, <3>1, <4>2
        <4> QED BY <1>4, <1>6, <4>1, <4>2
      <3>4. Len(buf'[d]) <= FramesRead(d)'
        BY <1>3, <1>4, <1>6, <3>1
      <3> QED BY <2>2, <3>2, <3>3, <3>4
    <2> QED BY <2>1, <2>2
  <1>13. /\ BytesSay /\ BytesSay'
    BY <1>2, <1>7, <1>12, BufferedBytes, BufferedBytesNext DEF IInv
  <1>14. /\ Bytes(d, buf'[d]) \in Nat /\ limit[d] \in Nat /\ LargestFrame(d) \in Nat
         /\ ~ aborted => Bytes(d, buf'[d]) < limit[d] + LargestFrame(d)
    <2>1. /\ Bytes(d, buf[d]) = FrameEnd(d, FramesRead(d)) - FrameEnd(d, Taken(d))
          /\ Bytes(d, buf[d]) \in Nat
          /\ FrameEnd(d, FramesRead(d)) \in Nat /\ FrameEnd(d, Taken(d)) \in Nat
      BY <1>13 DEF BytesSay
    <2>2. /\ Bytes(d, buf'[d]) = FrameEnd(d, FramesRead(d) + 1) - FrameEnd(d, Taken(d))
          /\ Bytes(d, buf'[d]) \in Nat /\ FrameEnd(d, FramesRead(d) + 1) \in Nat
      <3>1. /\ Bytes(d, buf[d])' = FrameEnd(d, FramesRead(d)') - FrameEnd(d, Taken(d)')
            /\ Bytes(d, buf[d])' \in Nat
        BY <1>13 DEF BytesSay, FrameEnd, HeaderSize, Segment
      <3>2. Bytes(d, buf[d])' = Bytes(d, buf'[d])
        BY DEF Bytes, FrameEnd, HeaderSize, Segment
      <3>3. FramesRead(d) + 1 \in 0..FrameCount(d)
        BY <1>3
      <3> QED BY <1>3, <1>8, <3>1, <3>2, <3>3, PlanFacts
    <2>3. /\ LargestFrame(d) \in Nat
          /\ FrameEnd(d, FramesRead(d) + 1) - FrameEnd(d, FramesRead(d)) <= LargestFrame(d)
      <3>1. FramesRead(d) \in 0..FrameCount(d) /\ FramesRead(d) < FrameCount(d)
        BY <1>3
      <3> QED BY <3>1, LargestFacts
    <2>4. limit[d] \in Nat
      BY <1>2, StateFacts
    <2>5. ~ aborted => Bytes(d, buf[d]) < limit[d]
      BY <1>1 DEF IInv, BufferIsBounded
    <2> QED BY <2>1, <2>2, <2>3, <2>4, <2>5
  <1>15. BufferIsBounded'
    <2> SUFFICES ASSUME ~ aborted, NEW e \in Downloads
                 PROVE  /\ buf'[e] # <<>> => Bytes(e, buf'[e]) < limit[e] + LargestFrame(e)
                        /\ pump'[e] = "read" => Bytes(e, buf'[e]) < limit[e]
      BY <1>1 DEF BufferIsBounded, Bytes, LargestFrame
    <2>1. CASE e # d
      BY <1>5, <2>1 DEF IInv, BufferIsBounded
    <2>2. CASE e = d
      <3>1. pump'[d] = "read" => Bytes(d, buf'[d]) < limit[d]
        BY <1>5, <1>14 DEF Parks
      <3> QED BY <1>14, <2>2, <3>1
    <2> QED BY <2>1, <2>2
  <1>16. LaunchedInOrder'
    <2>1. d < next /\ ~ (d >= next) /\ d >= head
      BY <1>1, <1>2, StateFacts DEF IInv, LaunchedInOrder
    <2> QED BY <1>1, <1>3, <1>5, <2>1 DEF IInv, LaunchedInOrder
  <1>17. NoLostWakeup'
    <2>1. /\ main' \in {"wait", "settleWait"} => main' = main /\ d # head
          /\ d # head => main' = main
      BY <1>1, NotifyFacts
    <2> SUFFICES ASSUME NEW e \in Downloads
                 PROVE  /\ wake'[e] = "drain" <=> e = head /\ main' \in {"wait", "settleWait"}
                        /\ wake'[e] = "pump" <=> pump'[e] = "parked"
                        /\ wake'[e] = "drain" => buf'[e] = <<>> /\ pump'[e] # "done"
                        /\ pump'[e] = "parked" => buf'[e] # <<>>
      BY <1>1 DEF NoLostWakeup
    <2>2. CASE e = d
      BY <1>5, <1>6, <2>1, <2>2
    <2>3. CASE e # d
      <3>1. e = head => (main' \in {"wait", "settleWait"} <=> main \in {"wait", "settleWait"})
        BY <2>1, <2>3
      <3>2. /\ wake[e] = "drain" <=> e = head /\ main \in {"wait", "settleWait"}
            /\ wake[e] = "pump" <=> pump[e] = "parked"
            /\ wake[e] = "drain" => buf[e] = <<>> /\ pump[e] # "done"
            /\ pump[e] = "parked" => buf[e] # <<>>
        BY DEF IInv, NoLostWakeup
      <3> QED BY <1>5, <2>3, <3>1, <3>2
    <2> QED BY <2>2, <2>3
  <1> QED BY <1>2, <1>7, <1>10, <1>11, <1>12, <1>15, <1>16, <1>17 DEF IInv

(* drain() takes the first buffered frame of the head: what it does to the  *)
(* buffers, the pumps and their latches, whatever becomes of the frame.     *)
LEMMA ShiftStep ==
    ASSUME IInv, head < next, Shift(head), main \in {"step", "settle"},
           UNCHANGED <<transferVars, aborted, head, next>>,
           main' \in {"step", "yielded", "settle"},
           outcome' \in {"ok", "returned", "threw"}, out' \in Seq(Frames),
           HeadIsHeld', YieldedSoFar', InPlanOrder'
    PROVE  IInv'
  <1>1. /\ buf[head] # <<>>
        /\ buf' = [buf EXCEPT ![head] = Tail(@)]
        /\ pump' = [pump EXCEPT ![head] = IF wake[head] = "pump" THEN "woken" ELSE @]
        /\ wake' = [wake EXCEPT ![head] = "nobody"]
        /\ UNCHANGED <<gen, body, etag, recv, attempt, aborted, head, next, err, limit>>
    BY DEF Shift, transferVars
  <1>2. /\ TransferTypeOK /\ TypeOK /\ head \in Downloads
    BY StateFacts DEF IInv, TransferInv
  <1>3. TransferInv'
    BY <1>1 DEF IInv, TransferInv, TransferTypeOK, BodyContinues, EtagNamesBody, NoSplice,
                Units, Open, Resuming, Closed
  <1>4. /\ buf[head] \in Seq(Nat \ {0}) /\ Len(buf[head]) \in Nat /\ Len(buf[head]) > 0
        /\ buf \in [Downloads -> Seq(Nat \ {0})]
        /\ wake \in [Downloads -> {"nobody", "pump", "drain"}]
        /\ pump \in [Downloads -> {"none", "read", "parked", "woken", "done"}]
        /\ FramesRead(head) \in Nat
    <2>1. /\ buf[head] \in Seq(Nat \ {0}) /\ Len(buf[head]) \in Nat /\ FramesRead(head) \in Nat
          /\ buf[head] = <<>> <=> Len(buf[head]) = 0
      BY <1>2, StateFacts
    <2>2. Len(buf[head]) > 0
      BY <1>1, <2>1
    <2> QED BY <1>2, <2>1, <2>2 DEF TypeOK
  <1>5. /\ buf'[head] = Tail(buf[head])
        /\ pump'[head] = IF wake[head] = "pump" THEN "woken" ELSE pump[head]
        /\ wake'[head] = "nobody"
        /\ \A e \in Downloads : e # head =>
              pump'[e] = pump[e] /\ wake'[e] = wake[e] /\ buf'[e] = buf[e]
    BY <1>1, <1>2, <1>4
  <1>6. /\ buf'[head] \in Seq(Nat \ {0}) /\ Len(buf'[head]) = Len(buf[head]) - 1
        /\ \A k \in 1..(Len(buf[head]) - 1) : buf'[head][k] = buf[head][k + 1]
        /\ DOMAIN buf'[head] = 1..(Len(buf[head]) - 1)
    <2>1. /\ Tail(buf[head]) \in Seq(Nat \ {0}) /\ Len(Tail(buf[head])) = Len(buf[head]) - 1
          /\ \A k \in 1..Len(Tail(buf[head])) : Tail(buf[head])[k] = buf[head][k + 1]
      BY <1>1, <1>4, HeadTailProperties
    <2> QED BY <1>5, <2>1, LenProperties
  <1>7. TypeOK'
    <2>1. /\ pump' \in [Downloads -> {"none", "read", "parked", "woken", "done"}]
          /\ wake' \in [Downloads -> {"nobody", "pump", "drain"}]
      BY <1>1, <1>4
    <2>2. buf' \in [Downloads -> Seq(Nat \ {0})]
      <3>1. buf' = [buf EXCEPT ![head] = buf'[head]]
        BY <1>1, <1>2, <1>4
      <3> QED BY <1>4, <1>6, <3>1
    <2> QED BY <1>1, <1>2, <2>1, <2>2 DEF TypeOK, Running, Frames, Downloads
  <1>8. /\ \A e \in Downloads : FramesRead(e)' = FramesRead(e) /\ (AllRead(e)' <=> AllRead(e))
        /\ Taken(head)' = Taken(head) + 1
        /\ \A e \in Downloads : e # head => Taken(e)' = Taken(e)
    <2>1. \A e \in Downloads : FramesRead(e)' = FramesRead(e) /\ (AllRead(e)' <=> AllRead(e))
      BY <1>1 DEF FramesRead, AllRead
    <2>2. FramesRead(head) - Len(buf'[head]) = FramesRead(head) - Len(buf[head]) + 1
      BY <1>4, <1>6
    <2> QED BY <1>2, <1>5, <2>1, <2>2 DEF Taken
  <1>9. EndedIsRead'
    <2>1. pump'[head] = "done" <=> pump[head] = "done"
      BY <1>2, <1>5 DEF IInv, NoLostWakeup
    <2> QED BY <1>1, <1>5, <1>8, <2>1 DEF IInv, EndedIsRead
  <1>10. BufferIsTail'
    <2> SUFFICES ASSUME NEW e \in Downloads
                 PROVE  /\ Len(buf'[e]) <= FramesRead(e)'
                        /\ \A k \in DOMAIN buf'[e] : buf'[e][k] = Taken(e)' + k
      BY DEF BufferIsTail
    <2>1. CASE e # head
      BY <1>5, <1>8, <2>1 DEF IInv, BufferIsTail
    <2>2. CASE e = head
      <3>1. /\ Len(buf[head]) <= FramesRead(head) /\ Taken(head) = FramesRead(head) - Len(buf[head])
            /\ \A k \in 1..Len(buf[head]) : buf[head][k] = Taken(head) + k
        BY <1>2, StateFacts DEF IInv, BufferIsTail, Taken
      <3>2. ASSUME NEW k \in DOMAIN buf'[head] PROVE buf'[head][k] = (Taken(head) + 1) + k
        <4>1. k \in 1..(Len(buf[head]) - 1)
          BY <1>6, Zenon
        <4>2. k \in Nat /\ k + 1 \in 1..Len(buf[head]) /\ Taken(head) \in Int
          BY <1>4, <3>1, <4>1
        <4>3. buf'[head][k] = buf[head][k + 1] /\ buf[head][k + 1] = Taken(head) + (k + 1)
          BY <1>6, <3>1, <4>1, <4>2, Zenon
        <4> QED BY <4>2, <4>3
      <3>3. Len(buf'[head]) <= FramesRead(head)
        BY <1>4, <1>6, <3>1
      <3> QED BY <1>2, <1>8, <2>2, <3>2, <3>3
    <2> QED BY <2>1, <2>2
  <1>11. /\ BytesSay /\ BytesSay'
    BY <1>2, <1>3, <1>7, <1>10, BufferedBytes, BufferedBytesNext DEF IInv, TransferInv
  <1>12. Bytes(head, buf'[head]) \in Nat /\ Bytes(head, buf'[head]) < Bytes(head, buf[head])
    <2>1. /\ Bytes(head, buf[head]) = FrameEnd(head, FramesRead(head)) - FrameEnd(head, Taken(head))
          /\ Bytes(head, buf[head]) \in Nat
          /\ FrameEnd(head, FramesRead(head)) \in Nat /\ FrameEnd(head, Taken(head)) \in Nat
      BY <1>2, <1>11 DEF BytesSay
    <2>2. Bytes(head, buf'[head]) = FrameEnd(head, FramesRead(head)) - FrameEnd(head, Taken(head) + 1)
          /\ Bytes(head, buf'[head]) \in Nat
      <3>1. /\ Bytes(head, buf[head])' = FrameEnd(head', FramesRead(head)') - FrameEnd(head', Taken(head)')
            /\ Bytes(head, buf[head])' \in Nat
        <4>1. head' \in Downloads
          BY <1>1, <1>2
        <4> QED BY <1>1, <1>2, <4>1, <1>11 DEF BytesSay, FrameEnd, HeaderSize, Segment, Downloads
      <3>2. Bytes(head, buf[head])' = Bytes(head, buf'[head])
        BY <1>1 DEF Bytes, FrameEnd, HeaderSize, Segment
      <3> QED BY <1>1, <1>2, <1>8, <3>1, <3>2
    <2>3. /\ Taken(head) \in 0..FrameCount(head) /\ Taken(head) + 1 \in 0..FrameCount(head)
          /\ Taken(head) < Taken(head) + 1
      <3>1. Taken(head)' \in 0..FramesRead(head)' /\ FramesRead(head)' \in 0..FrameCount(head)
        <4>1. head' \in Downloads
          BY <1>1, <1>2
        <4> QED BY <1>1, <4>1, <1>11 DEF BytesSay, FrameCount
      <3>2. Taken(head) \in 0..FramesRead(head) /\ FramesRead(head) \in 0..FrameCount(head)
            /\ FrameCount(head) \in Nat
        BY <1>2, <1>11, PlanFacts DEF BytesSay
      <3> QED BY <1>2, <1>8, <3>1, <3>2
    <2>4. /\ FrameEnd(head, Taken(head)) < FrameEnd(head, Taken(head) + 1)
          /\ FrameEnd(head, Taken(head) + 1) \in Nat
      BY <1>2, <2>3, PlanFacts
    <2> QED BY <2>1, <2>2, <2>4
  <1>13. BufferIsBounded'
    <2> SUFFICES ASSUME ~ aborted, NEW e \in Downloads
                 PROVE  /\ buf'[e] # <<>> => Bytes(e, buf'[e]) < limit[e] + LargestFrame(e)
                        /\ pump'[e] = "read" => Bytes(e, buf'[e]) < limit[e]
      <3>1. \A e \in Downloads : Bytes(e, buf[e])' = Bytes(e, buf'[e])
        BY DEF Bytes, FrameEnd, HeaderSize, Segment
      <3>2. \A e \in Downloads : LargestFrame(e)' = LargestFrame(e)
        BY DEF LargestFrame, FrameEnd, HeaderSize, Segment, FrameCount
      <3> QED BY <1>1, <3>1, <3>2 DEF BufferIsBounded, Downloads
    <2>1. CASE e # head
      BY <1>5, <2>1 DEF IInv, BufferIsBounded
    <2>2. CASE e = head
      <3>1. /\ Bytes(head, buf[head]) \in Nat /\ limit[head] \in Nat /\ LargestFrame(head) \in Nat
            /\ Bytes(head, buf[head]) < limit[head] + LargestFrame(head)
            /\ pump[head] = "read" => Bytes(head, buf[head]) < limit[head]
        BY <1>1, <1>2, <1>11, StateFacts, LargestFacts DEF IInv, BufferIsBounded, BytesSay
      <3>2. pump'[head] = "read" => pump[head] = "read"
        BY <1>5
      <3> QED BY <1>12, <2>2, <3>1, <3>2
    <2> QED BY <2>1, <2>2
  <1>14. LaunchedInOrder'
    <2>1. /\ ~ (head < head) /\ head \in Nat /\ next \in Nat /\ ~ (head >= next)
          /\ pump[head] # "none"
      BY <1>2, StateFacts DEF IInv, LaunchedInOrder
    <2>2. pump'[head] # "none"
      BY <1>5, <2>1
    <2> QED BY <1>1, <1>5, <2>1, <2>2 DEF IInv, LaunchedInOrder
  <1>15. NoLostWakeup'
    <2> SUFFICES ASSUME NEW e \in Downloads
                 PROVE  /\ wake'[e] = "drain" <=> e = head /\ main' \in {"wait", "settleWait"}
                        /\ wake'[e] = "pump" <=> pump'[e] = "parked"
                        /\ wake'[e] = "drain" => buf'[e] = <<>> /\ pump'[e] # "done"
                        /\ pump'[e] = "parked" => buf'[e] # <<>>
      BY <1>1 DEF NoLostWakeup
    <2>1. CASE e # head
      BY <1>5, <2>1 DEF IInv, NoLostWakeup
    <2>2. CASE e = head
      BY <1>5, <2>2 DEF IInv, NoLostWakeup
    <2> QED BY <2>1, <2>2
  <1>16. WindowIsBudgeted'
    BY <1>1 DEF IInv, WindowIsBudgeted, Window, Budgeted, Count
  <1> QED BY <1>3, <1>7, <1>9, <1>10, <1>13, <1>14, <1>15, <1>16 DEF IInv

(* The frame the head hands over is the plan's next one.                    *)
LEMMA NextFrame ==
    ASSUME IInv, main = "step", head < next, buf[head] # <<>>,
           out' = Append(out, <<head, Head(buf[head])>>)
    PROVE  /\ out' \in Seq(Frames)
           /\ \A k \in DOMAIN out' :
                out'[k] \in Frames
                /\ out'[k] = IF k = 1 THEN <<1, 1>> ELSE FrameAfter(out'[k - 1])
           /\ out' # <<>> /\ Last(out') = <<head, Taken(head) + 1>>
           /\ Taken(head) + 1 > 0
  <1> DEFINE f == <<head, Taken(head) + 1>>
  <1>1. /\ TransferTypeOK /\ TypeOK /\ head \in Downloads /\ head \in Nat /\ head >= 1
        /\ BytesSay
    BY StateFacts, BufferedBytes DEF IInv, TransferInv
  <1>2. /\ Taken(head) \in Nat /\ Taken(head) + 1 \in 1..FrameCount(head)
        /\ Head(buf[head]) = Taken(head) + 1
    <2>1. /\ Len(buf[head]) \in Nat /\ Len(buf[head]) > 0 /\ FramesRead(head) \in 0..FrameCount(head)
          /\ FrameCount(head) \in Nat /\ Taken(head) \in 0..FramesRead(head)
          /\ 1 \in DOMAIN buf[head] /\ Head(buf[head]) = buf[head][1]
          /\ FramesRead(head) \in Nat
      <3>1. /\ buf[head] \in Seq(Nat \ {0}) /\ Len(buf[head]) \in Nat
            /\ buf[head] = <<>> <=> Len(buf[head]) = 0
            /\ DOMAIN buf[head] = 1..Len(buf[head]) /\ FramesRead(head) \in Nat
        BY <1>1, StateFacts
      <3>2. Len(buf[head]) > 0 /\ 1 \in DOMAIN buf[head]
        BY <3>1
      <3>3. Head(buf[head]) = buf[head][1]
        BY <3>1, HeadTailProperties
      <3> QED BY <1>1, <3>1, <3>2, <3>3, PlanFacts DEF BytesSay
    <2>2. Head(buf[head]) = Taken(head) + 1
      BY <1>1, <2>1 DEF IInv, BufferIsTail
    <2>3. Taken(head) = FramesRead(head) - Len(buf[head])
      BY DEF Taken
    <2> QED BY <2>1, <2>2, <2>3
  <1>3. f \in Frames /\ out' = Append(out, f)
    <2>1. f \in {head} \X (1..FrameCount(head))
      BY <1>2
    <2> QED BY <1>1, <1>2, <2>1 DEF Frames
  <1>4. /\ out \in Seq(Frames) /\ Len(out) \in Nat /\ (out = <<>> <=> Len(out) = 0)
        /\ DOMAIN out = 1..Len(out)
    BY <1>1, LenProperties, EmptySeq DEF TypeOK
  <1>5. /\ out' \in Seq(Frames) /\ Len(out') = Len(out) + 1
        /\ \A k \in 1..Len(out) : out'[k] = out[k]
        /\ out'[Len(out) + 1] = f
        /\ DOMAIN out' = 1..(Len(out) + 1)
    <2>1. /\ out' \in Seq(Frames) /\ Len(out') = Len(out) + 1
          /\ \A k \in 1..Len(out) : out'[k] = out[k]
          /\ out'[Len(out) + 1] = f
      BY <1>3, <1>4, AppendProperties
    <2> QED BY <2>1, LenProperties
  <1>6. EndsAt(head, Taken(head))
    BY DEF IInv, YieldedSoFar, Running
  <1>7. Len(out) = 0 => f = <<1, 1>>
    BY <1>1, <1>2, <1>4, <1>6 DEF EndsAt
  <1>8. Len(out) # 0 => f = FrameAfter(out[Len(out)])
    <2> SUFFICES ASSUME Len(out) # 0 PROVE f = FrameAfter(out[Len(out)])
      OBVIOUS
    <2>1. CASE Taken(head) > 0
      <3>1. out[Len(out)] = <<head, Taken(head)>>
        BY <1>6, <2>1 DEF EndsAt, Last
      <3>2. Taken(head) < FrameCount(head)
        BY <1>1, <1>2, PlanFacts
      <3> QED BY <3>1, <3>2 DEF FrameAfter
    <2>2. CASE Taken(head) = 0
      <3>1. head # 1 /\ out[Len(out)] = <<head - 1, FrameCount(head - 1)>>
        BY <1>4, <1>6, <2>2 DEF EndsAt, Last
      <3>2. head - 1 \in Downloads
        BY <1>1, <3>1 DEF Downloads
      <3>3. ~ (FrameCount(head - 1) < FrameCount(head - 1))
        <4>1. FrameCount(head - 1) \in Nat
          BY <3>2, PlanFacts
        <4> QED BY <4>1
      <3>4. FrameAfter(out[Len(out)]) = <<(head - 1) + 1, 1>>
        BY <3>1, <3>3 DEF FrameAfter
      <3> QED BY <1>1, <2>2, <3>4
    <2> QED BY <1>2, <2>1, <2>2
  <1>9. ASSUME NEW k \in DOMAIN out'
        PROVE  out'[k] \in Frames
               /\ out'[k] = IF k = 1 THEN <<1, 1>> ELSE FrameAfter(out'[k - 1])
    <2>1. k \in 1..(Len(out) + 1)
      BY <1>5, Zenon
    <2>2. CASE k \in 1..Len(out)
      <3>1. out'[k] = out[k] /\ (k # 1 => out'[k - 1] = out[k - 1])
        BY <1>4, <1>5, <2>2
      <3>2. out[k] \in Frames /\ out[k] = IF k = 1 THEN <<1, 1>> ELSE FrameAfter(out[k - 1])
        BY <1>4, <2>2 DEF IInv, InPlanOrder
      <3> QED BY <3>1, <3>2
    <2>3. CASE k = Len(out) + 1
      <3>1. out'[k] = f /\ f \in Frames
        BY <1>3, <1>5, <2>3
      <3>2. CASE Len(out) = 0
        BY <1>7, <2>3, <3>1, <3>2
      <3>3. CASE Len(out) # 0
        <4>1. k - 1 = Len(out) /\ k # 1 /\ Len(out) \in 1..Len(out)
          BY <1>4, <2>3, <3>3
        <4>2. out'[k - 1] = out[Len(out)]
          BY <1>5, <4>1
        <4> QED BY <1>8, <3>1, <3>3, <4>1, <4>2
      <3> QED BY <3>2, <3>3
    <2> QED BY <1>4, <2>1, <2>2, <2>3
  <1>10. out' # <<>> /\ Last(out') = f
    BY <1>4, <1>5, EmptySeq DEF Last
  <1>11. Taken(head) + 1 > 0
    BY <1>2
  <1> QED BY <1>5, <1>9, <1>10, <1>11, Zenon

(* A frame of the head is yielded, or dropped once the caller has aborted.  *)
LEMMA YieldStep == ASSUME IInv, Yield PROVE IInv'
  <1>1. /\ main = "step" /\ Shift(head) /\ buf[head] # <<>> /\ outcome = "ok"
        /\ UNCHANGED <<transferVars, aborted, head, next>> /\ head < next
        /\ UNCHANGED <<gen, body, etag, recv, attempt>> /\ buf' = [buf EXCEPT ![head] = Tail(@)]
    BY DEF Yield, Shift, IInv, HeadIsHeld, Running, transferVars
  <1>2. TransferTypeOK /\ TypeOK /\ head \in Downloads /\ out \in Seq(Frames)
    BY <1>1, StateFacts DEF IInv, TransferInv, TypeOK
  <1>3. CASE aborted
    <2>1. main' = "settle" /\ outcome' = "returned" /\ out' = out
      BY <1>1, <1>3 DEF Yield
    <2>2. HeadIsHeld' /\ YieldedSoFar'
      BY <2>1 DEF HeadIsHeld, YieldedSoFar, Running
    <2>3. InPlanOrder'
      BY <2>1 DEF IInv, InPlanOrder
    <2> QED BY <1>1, <1>2, <2>1, <2>2, <2>3, ShiftStep
  <1>4. CASE ~ aborted
    <2>1. /\ main' = "yielded" /\ outcome' = "ok"
          /\ out' = Append(out, <<head, Head(buf[head])>>)
      BY <1>1, <1>4 DEF Yield
    <2>2. /\ out' \in Seq(Frames)
          /\ \A k \in DOMAIN out' :
                out'[k] \in Frames
                /\ out'[k] = IF k = 1 THEN <<1, 1>> ELSE FrameAfter(out'[k - 1])
          /\ out' # <<>> /\ Last(out') = <<head, Taken(head) + 1>>
          /\ Taken(head) + 1 > 0
      BY <1>1, <2>1, NextFrame
    <2>3. HeadIsHeld'
      BY <1>1, <2>1 DEF HeadIsHeld, Running
    <2>4. InPlanOrder'
      BY <2>1, <2>2 DEF InPlanOrder, Frames, FrameAfter, Downloads
    <2>5. /\ Taken(head)' = Taken(head) + 1
          /\ \A e \in Downloads : e # head => Taken(e)' = Taken(e)
      <3>1. /\ buf[head] \in Seq(Nat \ {0}) /\ Len(buf[head]) \in Nat /\ FramesRead(head) \in Nat
            /\ buf \in [Downloads -> Seq(Nat \ {0})]
        BY <1>2, StateFacts DEF TypeOK
      <3>2. /\ buf'[head] = Tail(buf[head])
            /\ \A e \in Downloads : e # head => buf'[e] = buf[e]
        BY <1>1, <1>2, <3>1
      <3>3. Len(buf'[head]) = Len(buf[head]) - 1
        BY <1>1, <3>1, <3>2, HeadTailProperties
      <3>4. \A e \in Downloads : FramesRead(e)' = FramesRead(e)
        BY <1>1 DEF FramesRead
      <3>5. FramesRead(head) - Len(buf'[head]) = FramesRead(head) - Len(buf[head]) + 1
        BY <3>1, <3>3
      <3> QED BY <1>1, <1>2, <3>2, <3>4, <3>5 DEF Taken
    <2>6. YieldedSoFar'
      <3>1. EndsAt(head, Taken(head))'
        BY <1>1, <2>2, <2>5 DEF EndsAt
      <3>2. \A e \in Downloads : e > head => Taken(e)' = 0
        <4>1. \A e \in Downloads : e > head => e # head
          BY <1>2, StateFacts
        <4> QED BY <1>1, <2>5, <4>1 DEF IInv, YieldedSoFar, Running
      <3> QED BY <1>1, <2>1, <3>1, <3>2 DEF YieldedSoFar, Running
    <2> QED BY <1>1, <2>1, <2>2, <2>3, <2>4, <2>6, ShiftStep
  <1> QED BY <1>3, <1>4

(* drainAll takes a frame and drops it.                                     *)
LEMMA DiscardStep == ASSUME IInv, Discard PROVE IInv'
  <1>1. /\ main = "settle" /\ head < next /\ Shift(head)
        /\ UNCHANGED <<transferVars, aborted, main, outcome, head, next, out>>
        /\ UNCHANGED err /\ recv' = recv
    BY DEF Discard, Shift, transferVars
  <1>2. HeadIsHeld' /\ YieldedSoFar'
    BY <1>1 DEF IInv, HeadIsHeld, YieldedSoFar, EndsAt, Running
  <1>3. InPlanOrder'
    <2>1. outcome = "threw" => \E d \in 1..(next - 1) : err'[d] /\ EndsAt(d, FramesRead(d))'
      BY <1>1 DEF IInv, InPlanOrder, EndsAt, FramesRead
    <2> QED BY <1>1, <2>1 DEF IInv, InPlanOrder
  <1> QED BY <1>1, <1>2, <1>3, ShiftStep DEF IInv, TypeOK

(* fill() launches the downloads the budgets admit: at least the head.      *)
LEMMA FillFacts ==
    ASSUME NEW h \in Nat, NEW n \in Nat, 1 <= h, h <= n, n <= Len(Plan) + 1,
           Budgeted(h..(n - 1)), Fill(h, n)
    PROVE  /\ next' \in n..(Len(Plan) + 1) /\ Budgeted(h..(next' - 1))
           /\ h = n /\ h <= Len(Plan) => next' > h
  <1> DEFINE S == {m \in n..(Len(Plan) + 1) : Budgeted(h..(m - 1))}
  <1>1. Len(Plan) \in Nat /\ Downloads = 1..Len(Plan)
    BY PlanFacts DEF Downloads
  <1>2. n \in S /\ S \subseteq 0..(Len(Plan) + 1) /\ Len(Plan) + 1 \in Nat
    BY <1>1
  <1>3. Max(S) \in S /\ \A y \in S : y <= Max(S)
    BY <1>2, MaxOfNats
  <1>4. next' = Max(S)
    BY DEF Fill
  <1>5. ASSUME h = n, h <= Len(Plan) PROVE h + 1 \in S
    <2>1. h \in Downloads /\ h + 1 \in n..(Len(Plan) + 1) /\ h..((h + 1) - 1) = {h}
      BY <1>1, <1>5
    <2>2. MaxBlocks \in Nat /\ MaxBlocks >= 1
      BY LimitsAssumption
    <2>3. \A kind : Count(kind, {h}) \in {0, 1}
      <3> SUFFICES ASSUME NEW kind PROVE Count(kind, {h}) \in {0, 1}
        OBVIOUS
      <3> DEFINE K == {d \in {h} : Plan[d].kind = kind}
      <3>1. CASE Plan[h].kind = kind
        <4>1. K = {h}
          BY <3>1
        <4>2. Cardinality({h}) = 1
          BY FS_Singleton
        <4> QED BY <4>1, <4>2 DEF Count
      <3>2. CASE Plan[h].kind # kind
        <4>1. K = {}
          BY <3>2
        <4> QED BY <4>1, FS_EmptySet DEF Count
      <3> QED BY <3>1, <3>2
    <2>4. Count("segment", {h}) <= 1 /\ Count("block", {h}) <= MaxBlocks
      <3>1. Count("segment", {h}) \in {0, 1} /\ Count("block", {h}) \in {0, 1}
        BY <2>3
      <3> QED BY <2>2, <3>1
    <2>5. Budgeted(h..((h + 1) - 1))
      BY <2>1, <2>4 DEF Budgeted
    <2> QED BY <2>1, <2>5
  <1> HIDE DEF S
  <1>6. next' \in n..(Len(Plan) + 1) /\ Budgeted(h..(next' - 1))
    BY <1>3, <1>4 DEF S
  <1>7. h = n /\ h <= Len(Plan) => next' > h
    <2> SUFFICES ASSUME h = n, h <= Len(Plan) PROVE next' > h
      OBVIOUS
    <2>1. h + 1 <= next'
      BY <1>3, <1>4, <1>5
    <2> QED BY <1>1, <1>6, <2>1
  <1> QED BY <1>6, <1>7

(* The generator moves its window on to h and fills it.                     *)
LEMMA FillStep ==
    ASSUME IInv, NEW h \in Nat, head <= h, h <= next, Fill(h, next),
           UNCHANGED <<transferVars, aborted, out, err, buf, wake>>,
           \A d \in Downloads : d < h => pump[d] = "done",
           main \in {"new", "step"}, main' \in {"step", "settle"},
           outcome' \in {"ok", "returned"},
           HeadIsHeld', YieldedSoFar'
    PROVE  IInv'
  <1>1. /\ UNCHANGED <<gen, body, etag, recv, attempt, aborted, out, err, buf, wake>>
        /\ head' = h
    BY DEF Fill, transferVars
  <1>2. /\ TransferTypeOK /\ TypeOK /\ head \in Nat /\ next \in Nat /\ 1 <= h
        /\ next <= Len(Plan) + 1 /\ Len(Plan) \in Nat
    BY StateFacts DEF IInv, TransferInv
  <1>3. /\ next' \in next..(Len(Plan) + 1) /\ Budgeted(h..(next' - 1))
        /\ next' \in Nat /\ next <= next' /\ next' <= Len(Plan) + 1
    <2>1. Budgeted(h..(next - 1))
      <3>1. Window \subseteq Downloads /\ (h..(next - 1)) \subseteq Window
        BY <1>2, StateFacts DEF Window, Downloads
      <3> QED BY <3>1, BudgetOfPart DEF IInv, WindowIsBudgeted
    <2>2. next' \in next..(Len(Plan) + 1) /\ Budgeted(h..(next' - 1))
      BY <1>2, <2>1, FillFacts
    <2> QED BY <1>2, <2>2
  <1>4. \A d \in Downloads :
            /\ d \in Nat /\ d >= 1
            /\ d >= next /\ d < next' =>
                    pump'[d] = "read" /\ limit'[d] \in {OutstandingHwm, TailHwm}
            /\ ~ (d >= next /\ d < next') => pump'[d] = pump[d] /\ limit'[d] = limit[d]
    <2> SUFFICES ASSUME NEW d \in Downloads
                 PROVE  /\ d \in Nat /\ d >= 1
                        /\ d >= next /\ d < next' =>
                                pump'[d] = "read" /\ limit'[d] \in {OutstandingHwm, TailHwm}
                        /\ ~ (d >= next /\ d < next') => pump'[d] = pump[d] /\ limit'[d] = limit[d]
      OBVIOUS
    <2>1. d \in Nat /\ d >= 1
      BY <1>2, StateFacts
    <2>2. d \in next..(next' - 1) <=> (d >= next /\ d < next')
      <3>1. next \in Nat /\ next' \in Nat
        BY <1>2, <1>3
      <3>2. \A a, b, c \in Nat : a \in b..(c - 1) <=> (a >= b /\ a < c)
        OBVIOUS
      <3> QED BY <2>1, <3>1, <3>2
    <2>3. /\ pump'[d] = IF d \in next..(next' - 1) THEN "read" ELSE pump[d]
          /\ limit'[d] = IF d \in next..(next' - 1)
                          THEN IF d = h THEN OutstandingHwm ELSE TailHwm
                          ELSE limit[d]
      BY DEF Fill
    <2> QED BY <2>1, <2>2, <2>3
  <1>5. TransferInv'
    BY <1>1 DEF IInv, TransferInv, TransferTypeOK, BodyContinues, EtagNamesBody, NoSplice,
                Units, Open, Resuming, Closed
  <1>6. TypeOK'
    <2>1. pump' \in [Downloads -> {"none", "read", "parked", "woken", "done"}]
      <3>1. pump' = [d \in Downloads |-> pump'[d]]
        BY DEF Fill
      <3>2. \A d \in Downloads : pump'[d] \in {"none", "read", "parked", "woken", "done"}
        BY <1>2, <1>4 DEF TypeOK
      <3> QED BY <3>1, <3>2
    <2>2. limit' \in [Downloads -> {0, OutstandingHwm, TailHwm}]
      <3>1. limit' = [d \in Downloads |-> limit'[d]]
        BY DEF Fill
      <3>2. \A d \in Downloads : limit'[d] \in {0, OutstandingHwm, TailHwm}
        BY <1>2, <1>4 DEF TypeOK
      <3> QED BY <3>1, <3>2
    <2>3. head' \in 1..(Len(Plan) + 1) /\ next' \in 1..(Len(Plan) + 1)
      BY <1>1, <1>2, <1>3
    <2> QED BY <1>1, <1>2, <2>1, <2>2, <2>3 DEF TypeOK, Running, Frames, Downloads
  <1>7. WindowIsBudgeted'
    <2>1. Window' = h..(next' - 1) /\ head' <= next'
      BY <1>1, <1>2, <1>3 DEF Window
    <2> QED BY <1>3, <2>1 DEF WindowIsBudgeted, Budgeted, Count
  <1>8. LaunchedInOrder'
    <2> SUFFICES ASSUME NEW d \in Downloads
                 PROVE  /\ d < h => pump'[d] = "done"
                        /\ d < next' => limit'[d] # 0 /\ pump'[d] # "none"
                        /\ d >= next' => pump'[d] = "none" /\ recv[d] = <<>> /\ buf[d] = <<>>
      BY <1>1 DEF LaunchedInOrder
    <2>1. /\ d < next => limit[d] # 0 /\ pump[d] # "none"
          /\ d >= next => pump[d] = "none" /\ recv[d] = <<>> /\ buf[d] = <<>>
      BY DEF IInv, LaunchedInOrder
    <2>2. d < h => pump'[d] = "done"
      <3>1. d < h => ~ (d >= next /\ d < next')
        BY <1>2, <1>4
      <3> QED BY <1>4, <3>1
    <2>3. CASE d >= next /\ d < next'
      <3>1. pump'[d] = "read" /\ limit'[d] # 0 /\ ~ (d >= next')
        BY <1>3, <1>4, <2>3, LimitsAssumption
      <3> QED BY <2>2, <3>1
    <2>4. CASE ~ (d >= next /\ d < next')
      <3>1. pump'[d] = pump[d] /\ limit'[d] = limit[d]
        BY <1>4, <2>4
      <3>2. (d < next' => d < next) /\ (d >= next' => d >= next)
        BY <1>2, <1>3, <1>4, <2>4
      <3> QED BY <2>1, <2>2, <3>1, <3>2
    <2> QED BY <2>3, <2>4
  <1>9. \A d \in Downloads : /\ FramesRead(d)' = FramesRead(d)
                             /\ AllRead(d)' <=> AllRead(d)
                             /\ Taken(d)' = Taken(d)
    BY <1>1 DEF FramesRead, AllRead, Taken
  <1>10. \A d \in Downloads : d >= next => pump[d] = "none" /\ buf[d] = <<>>
    BY DEF IInv, LaunchedInOrder
  <1>11. EndedIsRead'
    <2> SUFFICES ASSUME NEW d \in Downloads
                 PROVE  /\ pump'[d] = "done" /\ ~ err[d] => AllRead(d)
                        /\ err[d] => pump'[d] = "done"
      BY <1>1, <1>9 DEF EndedIsRead
    <2>1. /\ pump[d] = "done" /\ ~ err[d] => AllRead(d)
          /\ err[d] => pump[d] = "done"
      BY DEF IInv, EndedIsRead
    <2>2. CASE d >= next /\ d < next'
      BY <1>4, <1>10, <2>1, <2>2
    <2>3. CASE ~ (d >= next /\ d < next')
      BY <1>4, <2>1, <2>3
    <2> QED BY <2>2, <2>3
  <1>12. BufferIsTail'
    BY <1>1, <1>9 DEF IInv, BufferIsTail
  <1>13. BufferIsBounded'
    <2> SUFFICES ASSUME ~ aborted, NEW d \in Downloads
                 PROVE  /\ buf[d] # <<>> => Bytes(d, buf[d]) < limit'[d] + LargestFrame(d)
                        /\ pump'[d] = "read" => Bytes(d, buf[d]) < limit'[d]
      BY <1>1 DEF BufferIsBounded, Bytes, LargestFrame
    <2>1. CASE d >= next /\ d < next'
      <3>1. buf[d] = <<>> /\ limit'[d] \in Nat \ {0}
        BY <1>4, <1>10, <2>1, LimitsAssumption
      <3> QED BY <3>1 DEF Bytes
    <2>2. CASE ~ (d >= next /\ d < next')
      <3>1. pump'[d] = pump[d] /\ limit'[d] = limit[d]
        BY <1>4, <2>2
      <3> QED BY <3>1 DEF IInv, BufferIsBounded
    <2> QED BY <2>1, <2>2
  <1>14. NoLostWakeup'
    <2> SUFFICES ASSUME NEW d \in Downloads
                 PROVE  /\ wake[d] = "drain" <=> d = h /\ main' \in {"wait", "settleWait"}
                        /\ wake[d] = "pump" <=> pump'[d] = "parked"
                        /\ wake[d] = "drain" => buf[d] = <<>> /\ pump'[d] # "done"
                        /\ pump'[d] = "parked" => buf[d] # <<>>
      BY <1>1 DEF NoLostWakeup
    <2>1. /\ wake[d] # "drain" /\ main' \notin {"wait", "settleWait"}
          /\ wake[d] = "pump" <=> pump[d] = "parked"
          /\ pump[d] = "parked" => buf[d] # <<>>
      BY DEF IInv, NoLostWakeup
    <2>2. CASE d >= next /\ d < next'
      BY <1>4, <1>10, <2>1, <2>2
    <2>3. CASE ~ (d >= next /\ d < next')
      BY <1>4, <2>1, <2>3
    <2> QED BY <2>2, <2>3
  <1>15. InPlanOrder'
    <2>1. outcome' # "threw" /\ main' # "done"
      OBVIOUS
    <2> QED BY <1>1, <2>1 DEF IInv, InPlanOrder
  <1> QED BY <1>5, <1>6, <1>7, <1>8, <1>11, <1>12, <1>13, <1>14, <1>15 DEF IInv

(* The first next() fetches, unless the caller aborted or nothing is planned. *)
LEMMA StartStep == ASSUME IInv, Start PROVE IInv'
  <1>1. /\ main = "new" /\ outcome = "ok" /\ next = 1 /\ head = 1 /\ out = <<>>
        /\ UNCHANGED <<transferVars, aborted, out, err, buf, wake>>
    <2>1. main = "new" /\ UNCHANGED <<transferVars, aborted, out, err, buf, wake>>
      BY DEF Start
    <2>2. next = 1 /\ outcome = "ok" /\ out = <<>> /\ head <= next
      BY <2>1 DEF IInv, HeadIsHeld, YieldedSoFar, WindowIsBudgeted
    <2> QED BY <2>1, <2>2, StateFacts DEF IInv, TransferInv
  <1>2. CASE aborted \/ Plan = <<>>
    <2>1. /\ main' = "done" /\ outcome' \in {"returned", "ok"}
          /\ outcome' = "ok" => Plan = <<>>
          /\ UNCHANGED <<head, next, pump, limit>>
      BY <1>2 DEF Start
    <2>2. HeadIsHeld'
      BY <1>1, <2>1 DEF HeadIsHeld, Running
    <2>3. outcome' = "ok" => EndsAt(Len(Plan) + 1, 0)'
      <3>1. Plan = <<>> => Len(Plan) = 0
        BY EmptySeq
      <3> QED BY <1>1, <2>1, <3>1 DEF EndsAt
    <2>4. YieldedSoFar'
      BY <2>1, <2>3 DEF YieldedSoFar, Running
    <2> QED BY <1>1, <2>1, <2>2, <2>4, GeneratorStep DEF fetchVars
  <1>3. CASE ~ (aborted \/ Plan = <<>>)
    <2>1. main' = "step" /\ outcome' = "ok" /\ Fill(1, next) /\ head' = 1
      BY <1>1, <1>3 DEF Start, Fill
    <2>2. Len(Plan) \in Nat /\ 1 <= Len(Plan)
      <3>1. Len(Plan) \in Nat /\ (Len(Plan) = 0 => Plan = <<>>)
        BY PlanAssumption, LenProperties, EmptySeq
      <3> QED BY <1>3, <3>1
    <2>3. next' > 1
      <3>1. Budgeted(1..(1 - 1))
        BY <1>1 DEF IInv, WindowIsBudgeted, Window
      <3>2. Fill(1, 1)
        BY <1>1, <2>1
      <3>3. 1 \in Nat /\ 1 <= 1 /\ 1 <= Len(Plan) + 1
        BY <2>2
      <3> QED BY <2>2, <3>1, <3>2, <3>3, FillFacts
    <2>4. HeadIsHeld'
      BY <2>1, <2>3 DEF HeadIsHeld, Running
    <2>5. \A d \in Downloads : Taken(d)' = 0
      <3>1. \A d \in Downloads : recv'[d] = <<>> /\ buf'[d] = <<>>
        BY <1>1, StateFacts DEF IInv, TransferInv, LaunchedInOrder, transferVars
      <3>2. \A d \in Downloads : ReadAt(d, 0) = 0
        BY ReadNone
      <3>3. \A d \in Downloads : FramesRead(d)' = ReadAt(d, Len(recv'[d]))
        BY DEF FramesRead, ReadAt
      <3> QED BY <3>1, <3>2, <3>3, EmptySeq DEF Taken
    <2>6. YieldedSoFar'
      <3>1. 1 \in Downloads
        BY <2>2 DEF Downloads
      <3>2. EndsAt(1, 0)'
        BY <1>1 DEF EndsAt
      <3>3. EndsAt(head, Taken(head))'
        <4>1. head' = 1 /\ Taken(head)' = 0
          BY <2>1, <2>5, <3>1 DEF Taken
        <4> QED BY <3>2, <4>1 DEF EndsAt
      <3> QED BY <2>1, <2>5, <3>3 DEF YieldedSoFar, Running
    <2>7. \A d \in Downloads : ~ (d < 1)
      BY StateFacts DEF IInv, TransferInv
    <2>8. 1 \in Nat /\ head <= 1 /\ 1 <= next
      BY <1>1
    <2> QED BY <1>1, <2>1, <2>4, <2>6, <2>7, <2>8, FillStep
  <1> QED BY <1>2, <1>3

(* The head was yielded to its end: the next download is the head, or the   *)
(* plan was yielded.                                                        *)
LEMMA HeadEndsStep == ASSUME IInv, HeadEnds PROVE IInv'
  <1>1. /\ main = "step" /\ outcome = "ok" /\ head < next
        /\ buf[head] = <<>> /\ pump[head] = "done" /\ ~ err[head]
        /\ Fill(head + 1, next) /\ head' = head + 1
        /\ UNCHANGED <<transferVars, aborted, out, err, buf, wake>>
    BY DEF HeadEnds, Fill, IInv, HeadIsHeld, Running
  <1>2. /\ TransferTypeOK /\ TypeOK /\ head \in Nat /\ next \in Nat /\ 1 <= head
        /\ next <= Len(Plan) + 1 /\ Len(Plan) \in Nat /\ head \in Downloads
    BY <1>1, StateFacts DEF IInv, TransferInv
  <1>3. /\ main' \in {"step", "settle"} /\ outcome' \in {"ok", "returned"}
        /\ main' = "step" => outcome' = "ok" /\ next' # head'
        /\ main' = "settle" /\ outcome' = "ok" => next' = head'
    <2> DEFINE returns == aborted /\ next' > head'
    <2>1. /\ main' = IF returns \/ next' = head' THEN "settle" ELSE "step"
          /\ outcome' = IF returns THEN "returned" ELSE outcome
      BY DEF HeadEnds
    <2> HIDE DEF returns
    <2> QED BY <1>1, <2>1
  <1>4. /\ next' \in next..(Len(Plan) + 1) /\ next' \in Nat
        /\ next' = head' => head + 1 = Len(Plan) + 1
    <2>1. Budgeted((head + 1)..(next - 1))
      <3>1. Window \subseteq Downloads /\ ((head + 1)..(next - 1)) \subseteq Window
        BY <1>2, StateFacts DEF Window, Downloads
      <3> QED BY <3>1, BudgetOfPart DEF IInv, WindowIsBudgeted
    <2>2. head + 1 \in Nat /\ 1 <= head + 1 /\ head + 1 <= next
      BY <1>1, <1>2
    <2>3. /\ next' \in next..(Len(Plan) + 1)
          /\ head + 1 = next /\ head + 1 <= Len(Plan) => next' > head + 1
      BY <1>1, <1>2, <2>1, <2>2, FillFacts
    <2>4. next' = head' => head + 1 = Len(Plan) + 1
      <3> SUFFICES ASSUME next' = head + 1 PROVE head + 1 = Len(Plan) + 1
        BY <1>1
      <3>1. head + 1 = next
        BY <1>2, <2>2, <2>3
      <3>2. ~ (head + 1 <= Len(Plan))
        BY <1>2, <2>3, <3>1
      <3> QED BY <1>2, <2>2, <3>2
    <2> QED BY <1>2, <2>3, <2>4
  <1>5. HeadIsHeld'
    <2>1. main' = "step" => head' < next'
      BY <1>1, <1>2, <1>3, <1>4
    <2> QED BY <1>3, <2>1 DEF HeadIsHeld, Running
  <1>6. EndsAt(head + 1, 0)
    <2>1. Taken(head) = FrameCount(head) /\ FrameCount(head) \in Nat /\ FrameCount(head) > 0
      <3>1. AllRead(head) /\ FramesRead(head) \in Nat
        BY <1>1, <1>2, StateFacts DEF IInv, EndedIsRead
      <3>2. Len(buf[head]) = 0
        BY <1>1, EmptySeq
      <3> QED BY <1>2, <3>1, <3>2, PlanFacts DEF Taken, AllRead
    <2>2. out # <<>> /\ Last(out) = <<head, FrameCount(head)>>
      BY <1>1, <2>1 DEF IInv, YieldedSoFar, Running, EndsAt
    <2>3. (head + 1) - 1 = head /\ head + 1 # 1
      BY <1>2
    <2> QED BY <2>2, <2>3 DEF EndsAt
  <1>7. \A d \in Downloads : /\ d > head => Taken(d)' = 0
                             /\ d > head + 1 => d > head
    <2>1. \A d \in Downloads : Taken(d)' = Taken(d)
      BY <1>1 DEF Taken, FramesRead, transferVars
    <2>2. \A d \in Downloads : d > head => Taken(d) = 0
      BY <1>1 DEF IInv, YieldedSoFar, Running
    <2>3. \A d \in Downloads : d > head + 1 => d > head
      BY <1>2, StateFacts
    <2> QED BY <2>1, <2>2, <2>3
  <1>8. YieldedSoFar'
    <2>1. main' = "step" => EndsAt(head, Taken(head))'
      <3> SUFFICES ASSUME main' = "step" PROVE EndsAt(head, Taken(head))'
        OBVIOUS
      <3>1. head + 1 \in Downloads /\ head + 1 > head
        <4>1. head + 1 <= Len(Plan)
          BY <1>1, <1>2, <1>3, <1>4
        <4> QED BY <1>2, <4>1 DEF Downloads
      <3>2. head' = head + 1 /\ Taken(head)' = 0
        <4>1. Taken(head + 1) = 0
          BY <1>1, <3>1 DEF IInv, YieldedSoFar, Running
        <4> QED BY <1>1, <4>1 DEF Taken, FramesRead, transferVars, FrameCount, FrameEnd, HeaderSize, Segment
      <3> QED BY <1>1, <1>6, <3>2 DEF EndsAt
    <2>2. main' = "settle" /\ outcome' = "ok" => EndsAt(Len(Plan) + 1, 0)'
      BY <1>1, <1>3, <1>4, <1>6 DEF EndsAt
    <2> QED BY <1>1, <1>3, <1>7, <2>1, <2>2 DEF YieldedSoFar, Running
  <1>9. \A d \in Downloads : d < head + 1 => pump[d] = "done"
    <2>1. \A d \in Downloads : d < head + 1 => d < head \/ d = head
      BY <1>2, StateFacts
    <2> QED BY <1>1, <2>1 DEF IInv, LaunchedInOrder
  <1>10. head + 1 \in Nat /\ head <= head + 1 /\ head + 1 <= next
    BY <1>1, <1>2
  <1> QED BY <1>1, <1>3, <1>5, <1>8, <1>9, <1>10, FillStep

(* A chunk, with a frame completed or without.                              *)
LEMMA PumpReadsStep == ASSUME IInv, NEW d \in Downloads, PumpReads(d) PROVE IInv'
  <1>1. pump[d] = "read" /\ ~ AllRead(d) /\ Chunk(d)
    BY DEF PumpReads
  <1>2. CASE FramesRead(d)' = FramesRead(d)
    <2>1. /\ UNCHANGED <<main, pump, buf, wake>>
          /\ UNCHANGED <<aborted, outcome, head, next, out, err, limit>>
      BY <1>2 DEF PumpReads
    <2>2. UNCHANGED <<readerVars, fetchVars>>
      BY <2>1 DEF readerVars, fetchVars
    <2>3. TransferInv'
      BY <1>1, ChunkStep DEF IInv
    <2>4. \A e \in Downloads : /\ FramesRead(e)' = FramesRead(e)
                               /\ pump[e] = "none" => recv'[e] = recv[e]
      <3>1. \A e \in Downloads : e # d => FramesRead(e)' = FramesRead(e) /\ recv'[e] = recv[e]
        BY <1>1, ChunkReads, ChunkAdds DEF IInv
      <3> QED BY <1>1, <1>2, <3>1
    <2>5. aborted' \in BOOLEAN /\ (aborted => aborted')
      BY <2>1 DEF IInv, TypeOK
    <2> QED BY <2>2, <2>3, <2>4, <2>5, QuietStep
  <1>3. CASE FramesRead(d)' # FramesRead(d)
    BY <1>3, FrameReadStep
  <1> QED BY <1>2, <1>3

(* The steps that leave the scheduler alone.                                *)
LEMMA BackgroundStep ==
    ASSUME IInv, Abort \/ Server \/ (\E d \in Downloads : PumpFetches(d)) \/ UNCHANGED vars
    PROVE  IInv'
  <1>1. /\ recv' = recv /\ UNCHANGED <<readerVars, fetchVars>>
        /\ aborted' = aborted \/ aborted' = TRUE
    BY DEF Abort, Server, Rewrite, PumpFetches, Respond, Retry, RetryRequest, RetryBody,
           vars, transferVars
  <1>2. TransferInv'
    <2>1. CASE Abort \/ UNCHANGED vars
      <3>1. UNCHANGED <<gen, body, etag, recv, attempt>>
        BY <2>1 DEF Abort, vars, transferVars
      <3> QED BY <3>1 DEF IInv, TransferInv, TransferTypeOK, BodyContinues, EtagNamesBody,
                          NoSplice, Units, Open, Resuming, Closed
    <2>2. CASE Server
      BY <2>2, RewriteStep DEF Server, IInv
    <2>3. CASE \E d \in Downloads : PumpFetches(d)
      BY <2>3, RespondStep, RetryStep DEF PumpFetches, IInv
    <2> QED BY <2>1, <2>2, <2>3
  <1>3. \A e \in Downloads : /\ FramesRead(e)' = FramesRead(e)
                             /\ pump[e] = "none" => recv'[e] = recv[e]
    BY <1>1 DEF FramesRead
  <1>4. aborted' \in BOOLEAN /\ (aborted => aborted')
    BY <1>1 DEF IInv, TypeOK
  <1> QED BY <1>1, <1>2, <1>3, <1>4, QuietStep

-------------------------------------------------------------------------------
(* The theorems *)

(* Before anything is launched.                                             *)
LEMMA InitInv == Init => IInv
  <1> SUFFICES ASSUME Init PROVE IInv
    OBVIOUS
  <1>1. TransferInv /\ \A d \in Downloads : recv[d] = <<>>
    BY TransferInitInv DEF Init, TransferInit
  <1>2. /\ main = "new" /\ outcome = "ok" /\ head = 1 /\ next = 1 /\ out = <<>>
        /\ \A d \in Downloads : /\ pump[d] = "none" /\ err[d] = FALSE /\ buf[d] = <<>>
                                /\ wake[d] = "nobody" /\ limit[d] = 0
    BY DEF Init
  <1>3. Len(Plan) \in Nat
    BY PlanFacts
  <1>4. TypeOK
    <2>1. out \in Seq(Frames) /\ <<>> \in Seq(Nat \ {0})
      BY <1>2, EmptySeq
    <2>2. head \in 1..(Len(Plan) + 1)
      BY <1>2, <1>3
    <2> QED BY <1>2, <2>1, <2>2 DEF Init, TypeOK
  <1>5. \A d \in Downloads : FramesRead(d) = 0 /\ Taken(d) = 0 /\ Len(buf[d]) = 0
    <2>1. \A d \in Downloads : FramesRead(d) = ReadAt(d, Len(recv[d]))
      BY DEF FramesRead, ReadAt
    <2> QED BY <1>1, <1>2, <2>1, ReadNone, EmptySeq DEF Taken
  <1>6. WindowIsBudgeted
    <2>1. Window = {}
      BY <1>2 DEF Window
    <2>2. \A kind : Count(kind, {}) = 0
      <3>1. \A kind : {d \in {} : Plan[d].kind = kind} = {}
        OBVIOUS
      <3> QED BY <3>1, FS_EmptySet DEF Count
    <2>3. Budgeted({})
      BY <2>2, LimitsAssumption DEF Budgeted
    <2> QED BY <1>2, <2>1, <2>3 DEF WindowIsBudgeted
  <1>7. LaunchedInOrder
    <2>1. \A d \in Downloads : ~ (d < 1)
      BY StateFacts, <1>1, <1>4 DEF TransferInv
    <2> QED BY <1>1, <1>2, <2>1 DEF LaunchedInOrder
  <1>8. HeadIsHeld /\ EndedIsRead
    BY <1>2 DEF HeadIsHeld, EndedIsRead, Running
  <1>9. BufferIsTail /\ BufferIsBounded
    BY <1>2, <1>5, EmptySeq DEF BufferIsTail, BufferIsBounded
  <1>10. NoLostWakeup
    BY <1>2 DEF NoLostWakeup
  <1>11. YieldedSoFar /\ InPlanOrder
    BY <1>2, EmptySeq DEF YieldedSoFar, InPlanOrder, Running
  <1> QED BY <1>1, <1>4, <1>6, <1>7, <1>8, <1>9, <1>10, <1>11 DEF IInv

(* Every step keeps the invariant.                                          *)
LEMMA NextInv == IInv /\ [Next]_vars => IInv'
  <1> SUFFICES ASSUME IInv, [Next]_vars PROVE IInv'
    OBVIOUS
  <1>1. CASE Abort \/ Server \/ UNCHANGED vars
    BY <1>1, BackgroundStep
  <1>2. ASSUME NEW d \in Downloads, Pump(d) PROVE IInv'
    <2>1. CASE PumpReads(d)
      BY <2>1, PumpReadsStep
    <2>2. CASE PumpWakes(d)
      BY <2>2, PumpWakesStep
    <2>3. CASE PumpFetches(d)
      BY <2>3, BackgroundStep
    <2>4. CASE PumpEnds(d)
      BY <2>4, PumpEndsStep
    <2> QED BY <1>2, <2>1, <2>2, <2>3, <2>4 DEF Pump
  <1>3. CASE Reader
    <2>1. CASE Start
      BY <2>1, StartStep
    <2>2. CASE Yield
      BY <2>2, YieldStep
    <2>3. CASE Await
      BY <2>3, AwaitStep
    <2>4. CASE HeadFails
      BY <2>4, HeadFailsStep
    <2>5. CASE HeadEnds
      BY <2>5, HeadEndsStep
    <2>6. CASE Discard
      BY <2>6, DiscardStep
    <2>7. CASE Settled \/ Finish
      BY <2>7, SettleStep
    <2> QED BY <1>3, <2>1, <2>2, <2>3, <2>4, <2>5, <2>6, <2>7 DEF Reader
  <1>4. CASE Ask \/ Leave
    BY <1>4, ConsumerStep
  <1> QED BY <1>1, <1>2, <1>3, <1>4 DEF Next

(* IInv holds throughout: the strengthening the theorems below rest on.     *)
THEOREM Invariance == Spec => []IInv
  <1> QED BY InitInv, NextInv, PTL DEF Spec

(* The variables of the scheduler and of its downloads keep their types.    *)
THEOREM TypeCorrect == Spec => [](TransferTypeOK /\ TypeOK)
  <1>1. IInv => TransferTypeOK /\ TypeOK
    BY DEF IInv, TransferInv
  <1> QED BY <1>1, Invariance, PTL

(* The generator yields the frames of the plan in its order, however the    *)
(* downloads run ahead; all of them when it ends well, and when it throws   *)
(* every frame that was read before the error (blockSource).                *)
THEOREM FramesInPlanOrder == Spec => []InPlanOrder
  <1>1. IInv => InPlanOrder
    BY DEF IInv
  <1> QED BY <1>1, Invariance, PTL

(* A download yields one generation of its file, from its first unit on,    *)
(* over any number of breaks, resumes and rewrites (streamSegment).         *)
THEOREM NoSplicedSegment == Spec => []NoSplice
  <1>1. IInv => NoSplice
    BY DEF IInv, TransferInv
  <1> QED BY <1>1, Invariance, PTL

(* At most one segment and blockConcurrency blocks are in flight, and a     *)
(* pump reads ahead by no more than one frame over its limit (fill, pump).  *)
THEOREM BudgetsHold == Spec => []WithinBudgets
  <1>1. IInv => WithinBudgets
    <2> SUFFICES ASSUME IInv PROVE WithinBudgets
      OBVIOUS
    <2> DEFINE inFlight == {d \in Downloads : pump[d] \notin {"none", "done"}}
    <2>1. inFlight \subseteq Window /\ Window \subseteq Downloads
      <3>1. \A d \in inFlight : ~ (d < head) /\ ~ (d >= next)
        BY DEF IInv, LaunchedInOrder
      <3> QED BY <3>1, StateFacts DEF IInv, TransferInv, Window, Downloads
    <2>2. Budgeted(inFlight)
      BY <2>1, BudgetOfPart DEF IInv, WindowIsBudgeted
    <2> QED BY <2>2 DEF WithinBudgets, Budgeted, IInv, BufferIsBounded
  <1> QED BY <1>1, Invariance, PTL

(* However the generator ends, no pump is left running (drainAll).          *)
THEOREM NothingIsLeft == Spec => []NothingLeaks
  <1>1. IInv => NothingLeaks
    <2> SUFFICES ASSUME IInv, main = "done", NEW d \in Downloads
                 PROVE  pump[d] \in {"none", "done"}
      BY DEF NothingLeaks
    <2>1. head = next /\ head \in Nat /\ d \in Nat
      BY StateFacts DEF IInv, TransferInv, HeadIsHeld
    <2>2. d < head \/ d >= next
      BY <2>1
    <2> QED BY <2>2 DEF IInv, LaunchedInOrder
  <1> QED BY <1>1, Invariance, PTL

(* The single slot of a latch is always held by the side that waits there,  *)
(* so a notify wakes it, and pump and drain never wait for each other.      *)
THEOREM WakeupsAreKept == Spec => []NoLostWakeup
  <1>1. IInv => NoLostWakeup
    BY DEF IInv
  <1> QED BY <1>1, Invariance, PTL
==============================================================================
