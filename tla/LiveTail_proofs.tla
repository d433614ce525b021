--------------------------- MODULE LiveTail_proofs ---------------------------
(* Proofs about LiveTail, for every history of the server, every filter and *)
(* any number of lost connections and malformed frames.                     *)
EXTENDS LiveTail, SequenceTheorems, WellFoundedInduction, TLAPS

(* The least element of a set of naturals, and the greater of two integers. *)
LEMMA MinOfNats ==
    ASSUME NEW T, T \subseteq Nat, T # {}
    PROVE  Min(T) \in T /\ \A y \in T : Min(T) <= y
  <1>1. \E x \in T : \A y \in T : ~ (<<y, x>> \in OpToRel(<, Nat))
    BY NatLessThanWellFounded, WFMin, Zenon
  <1>2. \A a, b \in Nat : a < b => <<a, b>> \in OpToRel(<, Nat)
    BY Zenon DEF OpToRel
  <1>3. \E x \in T : \A y \in T : ~ (y < x)
    BY <1>1, <1>2, Zenon
  <1>4. \E x \in T : \A y \in T : x <= y
    BY <1>3
  <1> QED BY <1>4 DEF Min

(* What the larger of two numbers is: the dedup floor after a delivery.     *)
LEMMA MaxOfTwo ==
    ASSUME NEW a \in Int, NEW b \in Int
    PROVE  Max({a, b}) = IF a >= b THEN a ELSE b
  <1>1. \E x \in {a, b} : \A y \in {a, b} : x >= y
    OBVIOUS
  <1>2. Max({a, b}) \in {a, b} /\ \A y \in {a, b} : Max({a, b}) >= y
    BY <1>1 DEF Max
  <1> QED BY <1>2

(* Where the server starts sending for a cursor it accepts.                 *)
LEMMA FirstForFacts ==
    ASSUME TypeOK, NEW wire, wire \in Starts \/ wire \in 0..MaxSeq \/ wire = None
    PROVE  /\ FirstFor(wire) \in 1..(MaxSeq + 1)
           /\ wire # None /\ ~ IsTimestamp(wire) /\ ~ Refuses(wire) =>
                FirstFor(wire) <= wire + 1
           /\ wire = None \/ wire \in Nat
  <1>1. /\ MaxSeq \in Nat /\ Threshold \in Nat /\ Threshold > MaxSeq
        /\ head \in 0..MaxSeq /\ low \in 1..(MaxSeq + 1)
        /\ wire \in {None} \union (0..MaxSeq) \union (Threshold..Threshold + MaxSeq)
    BY BoundsAssumption DEF TypeOK
  <1>2. CASE wire = None
    BY <1>1, <1>2 DEF FirstFor, None
  <1>3. CASE wire \in 0..MaxSeq
    <2>1. wire \in Int /\ low \in Int /\ wire # None /\ ~ (wire >= Threshold) /\ wire \in Nat
      BY <1>1, <1>3 DEF None
    <2>2. FirstFor(wire) = IF wire >= low THEN wire ELSE low
      BY <2>1, MaxOfTwo DEF FirstFor, IsTimestamp
    <2>3. ~ Refuses(wire) => low <= wire + 1
      BY <1>1, <2>1 DEF Refuses, IsTimestamp
    <2> QED BY <1>1, <1>3, <2>1, <2>2, <2>3
  <1>4. CASE wire \in Threshold..(Threshold + MaxSeq)
    <2>1. /\ wire \in Nat /\ wire # None /\ wire >= Threshold
          /\ wire - Threshold \in 0..MaxSeq /\ low \in Int
      BY <1>1, <1>4 DEF None
    <2>2. FirstFor(wire) = IF wire - Threshold >= low THEN wire - Threshold ELSE low
      BY <2>1, MaxOfTwo DEF FirstFor, IsTimestamp
    <2> QED BY <1>1, <2>1, <2>2 DEF IsTimestamp
  <1> QED BY <1>1, <1>2, <1>3, <1>4

(* Elements of `out`, before and after a delivery.                          *)
LEMMA OutFacts ==
    ASSUME TypeOK
    PROVE  /\ Len(out) \in Nat /\ DOMAIN out = 1..Len(out)
           /\ \A i \in DOMAIN out : out[i] \in Wanted
           /\ \A s \in Range(out) : \E i \in DOMAIN out : out[i] = s
           /\ \A w \in Wanted : w \in 1..MaxSeq /\ w \in Nat
  <1>1. out \in Seq(Wanted)
    BY DEF TypeOK
  <1>2. /\ Len(out) \in Nat /\ DOMAIN out = 1..Len(out)
        /\ \A i \in DOMAIN out : out[i] \in Wanted
    BY <1>1
  <1>3. \A s \in Range(out) : \E i \in DOMAIN out : out[i] = s
    BY Zenon DEF Range
  <1>4. \A w \in Wanted : w \in 1..MaxSeq /\ w \in Nat
    BY BoundsAssumption
  <1> QED BY <1>2, <1>3, <1>4

(* What a delivery makes of `out`.                                         *)
LEMMA DeliveredFacts ==
    ASSUME TypeOK, NEW s \in Wanted, out' = Append(out, s)
    PROVE  /\ out' \in Seq(Wanted) /\ DOMAIN out' = 1..(Len(out) + 1)
           /\ \A i \in DOMAIN out : out'[i] = out[i]
           /\ out'[Len(out) + 1] = s
           /\ Range(out') = Range(out) \union {s}
  <1>1. out \in Seq(Wanted)
    BY DEF TypeOK
  <1>2. /\ out' \in Seq(Wanted) /\ Len(out') = Len(out) + 1
        /\ \A i \in 1..Len(out) : out'[i] = out[i]
        /\ out'[Len(out) + 1] = s
    BY <1>1, AppendProperties
  <1>3. DOMAIN out' = 1..(Len(out) + 1) /\ DOMAIN out = 1..Len(out) /\ Len(out) \in Nat
    BY <1>1, <1>2, LenProperties
  <1>4. Range(out') = Range(out) \union {s}
    BY <1>2, <1>3 DEF Range
  <1> QED BY <1>2, <1>3, <1>4

(* Nothing is delivered yet, and nothing owed before the first dial, unless *)
(* a seq is named.                                                          *)
LEMMA InitInv == Init => IInv
  <1> SUFFICES ASSUME Init PROVE IInv
    OBVIOUS
  <1>1. /\ out = <<>> /\ DOMAIN out = {} /\ out \in Seq(Wanted)
    BY EmptySeq DEF Init
  <1>2. /\ cursor \in Starts
        /\ cursor \in {None} \union (0..MaxSeq) \union (Threshold..Threshold + MaxSeq)
        /\ MaxSeq \in Nat /\ Threshold \in Nat /\ Threshold > MaxSeq
    BY BoundsAssumption DEF Init
  <1>3. /\ lastSeq \in {None} \union 0..MaxSeq /\ owed \in {None} \union 0..MaxSeq
        /\ owed = lastSeq /\ (lastSeq = None <=> cursor = None \/ IsTimestamp(cursor))
        /\ lastSeq # None => lastSeq = cursor
    <2>1. CASE cursor = None
      <3>1. ~ IsTimestamp(None) /\ FloorFrom(None) = None
        BY <1>2 DEF FloorFrom, IsTimestamp, None
      <3> QED BY <2>1, <3>1 DEF Init
    <2>2. CASE cursor \in 0..MaxSeq
      <3>1. ~ IsTimestamp(cursor) /\ cursor # None
        BY <1>2, <2>2 DEF IsTimestamp, None
      <3> QED BY <2>2, <3>1 DEF Init, FloorFrom
    <2>3. CASE cursor \in Threshold..Threshold + MaxSeq
      <3>1. IsTimestamp(cursor)
        BY <1>2, <2>3 DEF IsTimestamp
      <3> QED BY <3>1 DEF Init, FloorFrom
    <2> QED BY <1>2, <2>1, <2>2, <2>3
  <1>4. TypeOK
    BY <1>1, <1>2, <1>3, BoundsAssumption DEF Init, TypeOK
  <1>5. NothingMissed
    <2>1. \A w \in Wanted : ~ (owed < w /\ w < lastSeq + 1)
      BY <1>3, <1>4, OutFacts DEF None
    <2> QED BY <2>1 DEF Init, NothingMissed, SettledBelow
  <1> QED
    BY <1>1, <1>2, <1>3, <1>4, <1>5
       DEF Init, IInv, Ascending, FloorIsHighest, OwedSinceAccepted

(* The server's own steps touch nothing of the subscription.                *)
LEMMA ServerStep == ASSUME IInv, Server PROVE IInv'
  <1>1. /\ UNCHANGED <<conn, send, cursor, lastSeq, drops, out, bad, owed>>
        /\ head' \in 0..MaxSeq /\ low' \in 1..(MaxSeq + 1)
    BY BoundsAssumption DEF Server, AppendSeq, Expire, IInv, TypeOK
  <1> QED
    BY <1>1 DEF IInv, TypeOK, Ascending, FloorIsHighest, OwedSinceAccepted,
                NothingMissed, SettledBelow, IsTimestamp

(* Connections lost or given up: nothing is open any more.                  *)
LEMMA CloseStep == ASSUME IInv, Drop \/ Stop PROVE IInv'
  <1>1. /\ UNCHANGED <<head, low, send, cursor, lastSeq, out, bad, owed>>
        /\ conn' \in {"down", "fatal", "ended"}
        /\ drops' \in 0..MaxDrops
    BY BoundsAssumption DEF Drop, Stop, IInv, TypeOK
  <1> QED
    BY <1>1 DEF IInv, TypeOK, Ascending, FloorIsHighest, OwedSinceAccepted,
                NothingMissed, SettledBelow, IsTimestamp

(* A dial.  It names the floor once there is one: the connection starts no  *)
(* later than just behind it, and below it everything is settled.           *)
LEMMA ConnectStep == ASSUME IInv, Connect PROVE IInv'
  <1>1. UNCHANGED <<head, low, cursor, lastSeq, drops, out, bad>>
    BY DEF Connect
  <1>2. CASE Refuses(WireCursor)
    <2>1. conn' = "refused" /\ UNCHANGED <<send, owed>>
      BY <1>2 DEF Connect
    <2> QED
      BY <1>1, <2>1 DEF IInv, TypeOK, Ascending, FloorIsHighest, OwedSinceAccepted,
                        NothingMissed, SettledBelow, IsTimestamp
  <1>3. CASE ~ Refuses(WireCursor)
    <2>1. /\ conn' = "open" /\ send' = FirstFor(WireCursor)
          /\ owed' = IF owed = None \/ IsTimestamp(WireCursor)
                     THEN FirstFor(WireCursor) - 1 ELSE owed
      BY <1>3 DEF Connect
    <2>2. WireCursor \in Starts \/ WireCursor \in 0..MaxSeq
      BY DEF WireCursor, IInv, TypeOK
    <2>3. /\ send' \in 1..(MaxSeq + 1)
          /\ WireCursor # None /\ ~ IsTimestamp(WireCursor) => send' <= WireCursor + 1
      BY <1>3, <2>1, <2>2, FirstForFacts DEF IInv
    <2>4. owed' \in 0..MaxSeq /\ MaxSeq \in Nat
      BY <2>1, <2>3, BoundsAssumption DEF IInv, TypeOK
    <2>5. TypeOK'
      BY <1>1, <2>1, <2>3, <2>4 DEF IInv, TypeOK
    <2>6. OwedSinceAccepted'
      BY <2>4 DEF OwedSinceAccepted, None
    <2>7. NothingMissed'
      <3> SUFFICES ASSUME cursor # None
                   PROVE  /\ lastSeq # None => SettledBelow(lastSeq + 1)'
                          /\ SettledBelow(send)'
        BY <1>1 DEF NothingMissed, SettledBelow
      <3>1. CASE owed = None \/ IsTimestamp(WireCursor)
        <4>1. lastSeq = None
          <5>1. lastSeq # None => WireCursor = lastSeq /\ lastSeq \in 0..MaxSeq
            BY DEF WireCursor, IInv, TypeOK
          <5>2. lastSeq # None => ~ IsTimestamp(WireCursor)
            BY <5>1, BoundsAssumption DEF IsTimestamp
          <5> QED BY <3>1, <5>2 DEF IInv, OwedSinceAccepted
        <4>2. \A w \in Wanted : ~ (owed' < w /\ w < send')
          BY <2>1, <2>3, <3>1, OutFacts DEF IInv
        <4> QED BY <1>1, <4>1, <4>2 DEF SettledBelow
      <3>2. CASE owed # None /\ ~ IsTimestamp(WireCursor)
        <4>1. owed' = owed /\ owed \in Nat
          BY <2>1, <3>2 DEF IInv, TypeOK
        <4>2. send' <= WireCursor + 1 /\ send' \in Nat /\ WireCursor # None
          BY <2>2, <2>3, <3>2 DEF WireCursor, IInv, TypeOK
        <4>3. CASE lastSeq # None
          <5>1. WireCursor = lastSeq /\ lastSeq \in Nat
            BY <4>3 DEF WireCursor, IInv, TypeOK
          <5>2. SettledBelow(lastSeq + 1)
            BY <3>2, <4>3 DEF IInv, NothingMissed
          <5>3. \A w \in Wanted : w < send' => w < lastSeq + 1
            BY <4>2, <5>1, OutFacts DEF IInv
          <5> QED BY <1>1, <4>1, <5>2, <5>3 DEF SettledBelow
        <4>4. CASE lastSeq = None
          <5>1. WireCursor = cursor /\ cursor <= owed /\ cursor \in Nat
            BY <3>2, <4>4 DEF WireCursor, IInv, TypeOK, FloorIsHighest
          <5>2. \A w \in Wanted : ~ (owed < w /\ w < send')
            BY <4>1, <4>2, <5>1, OutFacts DEF IInv
          <5> QED BY <1>1, <4>1, <4>4, <5>2 DEF SettledBelow
        <4> QED BY <4>3, <4>4
      <3> QED BY <3>1, <3>2
    <2>8. FloorIsHighest'
      <3>1. ASSUME lastSeq = None
            PROVE  \/ cursor = None \/ IsTimestamp(cursor)
                   \/ owed' # None /\ cursor <= owed'
        <4>1. WireCursor = cursor
          BY <3>1 DEF WireCursor
        <4>2. CASE owed # None /\ ~ IsTimestamp(WireCursor)
          BY <2>1, <3>1, <4>2 DEF IInv, FloorIsHighest
        <4> QED BY <3>1, <4>1, <4>2 DEF IInv, FloorIsHighest
      <3> QED BY <1>1, <3>1 DEF IInv, FloorIsHighest, IsTimestamp
    <2> QED BY <1>1, <2>5, <2>6, <2>7, <2>8 DEF IInv, Ascending
  <1> QED BY <1>2, <1>3

(* The frame the connection offers is the first wanted one from `send` on.  *)
LEMMA FrameFacts ==
    ASSUME TypeOK, NEW s \in Wanted, Frame(s)
    PROVE  /\ conn = "open" /\ send <= s /\ s \in 1..MaxSeq /\ s \in Nat
           /\ send' = s + 1 /\ send' \in 0..(MaxSeq + 1)
           /\ \A w \in Wanted : send <= w /\ w < s => FALSE
  <1>1. /\ Pending \subseteq Nat /\ Pending # {} /\ s = Min(Pending)
        /\ conn = "open" /\ send' = s + 1
    BY OutFacts DEF Frame, Pending
  <1>2. s \in Pending /\ \A y \in Pending : s <= y
    BY <1>1, MinOfNats
  <1>3. /\ s \in 1..MaxSeq /\ s \in Nat /\ send <= s /\ s <= head
        /\ head \in Nat /\ send \in Nat /\ MaxSeq \in Nat
    BY <1>2, OutFacts, BoundsAssumption DEF Pending, TypeOK
  <1>4. ASSUME NEW w \in Wanted, send <= w, w < s PROVE FALSE
    <2>1. w \in Nat /\ w <= head
      BY <1>3, <1>4, OutFacts
    <2> QED BY <1>2, <1>3, <1>4, <2>1 DEF Pending
  <1> QED BY <1>1, <1>3, <1>4

(* A frame arrives: dropped at or below the floor, else the new floor.      *)
LEMMA DeliverStep == ASSUME IInv, NEW s \in Wanted, Deliver(s) PROVE IInv'
  <1>1. /\ UNCHANGED <<head, low, conn, cursor, drops, bad, owed>>
        /\ Frame(s) /\ TypeOK
    BY DEF Deliver, IInv
  <1>2. /\ conn = "open" /\ send <= s /\ s \in 1..MaxSeq /\ s \in Nat
        /\ send' = s + 1 /\ send' \in 0..(MaxSeq + 1)
        /\ \A w \in Wanted : send <= w /\ w < s => FALSE
    BY <1>1, FrameFacts
  <1>3. /\ lastSeq = None \/ lastSeq \in Nat
        /\ send \in Nat /\ (owed = None \/ owed \in Nat)
    BY <1>1 DEF TypeOK
  <1>4. owed # None
    BY <1>2 DEF IInv, OwedSinceAccepted
  (* every owed event up to s is settled, s itself perhaps apart *)
  <1>5. cursor # None => \A w \in Wanted : owed < w /\ w < s => w \in Range(out) \union bad
    <2> SUFFICES ASSUME cursor # None, NEW w \in Wanted, owed < w, w < s
                 PROVE  w \in Range(out) \union bad
      OBVIOUS
    <2>1. w \in Nat /\ w < send
      BY <1>1, <1>2, <1>3, OutFacts
    <2> QED BY <1>2, <1>4, <2>1 DEF IInv, NothingMissed, SettledBelow
  <1>6. CASE IsDuplicate(s)
    <2>1. lastSeq' = lastSeq /\ out' = out /\ lastSeq # None /\ s <= lastSeq
      BY <1>6 DEF Deliver, IsDuplicate
    <2>2. NothingMissed'
      <3> SUFFICES ASSUME cursor # None
                   PROVE  SettledBelow(lastSeq + 1)' /\ SettledBelow(send)'
        BY <1>1, <2>1 DEF NothingMissed
      <3>1. SettledBelow(lastSeq + 1)
        BY <1>4, <2>1 DEF IInv, NothingMissed
      <3>2. \A w \in Wanted : w < s + 1 => w < lastSeq + 1
        BY <1>1, <1>2, <1>3, <2>1, OutFacts
      <3> QED BY <1>1, <1>2, <2>1, <3>1, <3>2 DEF SettledBelow
    <2> QED
      BY <1>1, <1>2, <2>1, <2>2
         DEF IInv, TypeOK, Ascending, FloorIsHighest, OwedSinceAccepted, IsTimestamp
  <1>7. CASE ~ IsDuplicate(s)
    <2>1. lastSeq' = s /\ out' = Append(out, s) /\ (lastSeq = None \/ lastSeq < s)
      BY <1>2, <1>3, <1>7 DEF Deliver, IsDuplicate
    <2>2. /\ out' \in Seq(Wanted) /\ DOMAIN out' = 1..(Len(out) + 1)
          /\ \A i \in DOMAIN out : out'[i] = out[i]
          /\ out'[Len(out) + 1] = s
          /\ Range(out') = Range(out) \union {s}
      BY <1>1, <2>1, DeliveredFacts
    <2>3. /\ Len(out) \in Nat /\ DOMAIN out = 1..Len(out)
          /\ \A i \in DOMAIN out : out[i] \in Nat
      BY <1>1, OutFacts
    <2>4. \A i \in DOMAIN out : out[i] < s
      BY <1>2, <1>3, <2>1, <2>3 DEF IInv, FloorIsHighest
    <2>5. \A i \in DOMAIN out' : i \in DOMAIN out \/ i = Len(out) + 1
      BY <2>2, <2>3
    <2>6. Ascending'
      BY <2>2, <2>3, <2>4, <2>5 DEF IInv, Ascending
    <2>7. FloorIsHighest'
      <3>1. lastSeq' # None
        BY <1>2, <2>1 DEF None
      <3> QED BY <1>2, <2>1, <2>2, <2>3, <2>4, <2>5, <3>1 DEF FloorIsHighest
    <2>8. NothingMissed'
      <3> SUFFICES ASSUME cursor # None
                   PROVE  SettledBelow(s + 1)'
        BY <1>1, <1>2, <2>1 DEF NothingMissed, SettledBelow
      <3>1. \A w \in Wanted : w < s + 1 => w < s \/ w = s
        BY <1>1, <1>2, OutFacts
      <3> QED BY <1>1, <1>5, <2>2, <3>1 DEF SettledBelow
    <2>9. OwedSinceAccepted'
      BY <1>1, <1>4 DEF OwedSinceAccepted
    <2> QED BY <1>1, <1>2, <2>1, <2>2, <2>6, <2>7, <2>8, <2>9 DEF IInv, TypeOK
  <1> QED BY <1>6, <1>7

(* A malformed frame settles its seq as reported.                           *)
LEMMA MalformedStep == ASSUME IInv, NEW s \in Wanted, Malformed(s) PROVE IInv'
  <1>1. /\ UNCHANGED <<head, low, cursor, lastSeq, drops, out, owed>>
        /\ Frame(s) /\ TypeOK /\ bad' = bad \union {s}
        /\ conn' \in {"fatal", conn}
    BY DEF Malformed, IInv
  <1>2. /\ conn = "open" /\ send <= s /\ s \in 1..MaxSeq /\ s \in Nat
        /\ send' = s + 1 /\ send' \in 0..(MaxSeq + 1)
        /\ \A w \in Wanted : send <= w /\ w < s => FALSE
    BY <1>1, FrameFacts
  <1>3. NothingMissed'
    <2> SUFFICES ASSUME cursor # None, owed # None
                 PROVE  /\ lastSeq # None => SettledBelow(lastSeq + 1)'
                        /\ SettledBelow(s + 1)'
      BY <1>1, <1>2 DEF NothingMissed, SettledBelow
    <2>1. lastSeq # None => SettledBelow(lastSeq + 1)'
      BY <1>1 DEF IInv, NothingMissed, SettledBelow
    <2>2. SettledBelow(send)
      BY <1>2 DEF IInv, NothingMissed
    <2>3. \A w \in Wanted : w < s + 1 => w < send \/ w = s
      BY <1>1, <1>2, OutFacts DEF TypeOK
    <2> QED BY <1>1, <2>1, <2>2, <2>3 DEF SettledBelow
  <1>4. OwedSinceAccepted'
    BY <1>1, <1>2 DEF IInv, OwedSinceAccepted
  <1> QED
    BY <1>1, <1>2, <1>3, <1>4 DEF IInv, TypeOK, Ascending, FloorIsHighest, IsTimestamp

(* A step of the client keeps the invariant, only ever adds to what is      *)
(* delivered or reported, and moves neither the server nor the cursor.      *)
LEMMA ClientStep ==
    ASSUME IInv, Client
    PROVE  /\ IInv' /\ UNCHANGED <<head, low, cursor>>
           /\ bad \subseteq bad'
           /\ \/ out' = out
              \/ \E s \in Wanted : /\ out' = Append(out, s) /\ lastSeq' = s
                                   /\ \A r \in Range(out) : r < s
           /\ owed' = owed \/ owed = None \/ IsTimestamp(cursor)
  <1>1. CASE Connect
    <2>1. UNCHANGED <<head, low, cursor, bad, out>>
      BY <1>1 DEF Connect
    <2>2. owed' = owed \/ owed = None \/ IsTimestamp(WireCursor)
      BY <1>1 DEF Connect
    <2>3. IsTimestamp(WireCursor) => IsTimestamp(cursor)
      <3>1. lastSeq # None => ~ IsTimestamp(lastSeq)
        BY BoundsAssumption DEF IInv, TypeOK, IsTimestamp
      <3> QED BY <3>1 DEF WireCursor
    <2> QED BY <1>1, <2>1, <2>2, <2>3, ConnectStep
  <1>2. ASSUME NEW s \in Wanted, Deliver(s)
        PROVE  /\ IInv' /\ UNCHANGED <<head, low, cursor, bad, owed>>
               /\ \/ out' = out
                  \/ /\ out' = Append(out, s) /\ lastSeq' = s
                     /\ \A r \in Range(out) : r < s
    <2>1. /\ UNCHANGED <<head, low, cursor, bad, owed>>
          /\ \/ out' = out
             \/ out' = Append(out, s) /\ lastSeq' = s /\ ~ IsDuplicate(s)
      BY <1>2 DEF Deliver
    <2>2. ~ IsDuplicate(s) => \A r \in Range(out) : r < s
      <3>1. \A r \in Range(out) : r \in Nat /\ lastSeq # None /\ r <= lastSeq
        BY OutFacts DEF IInv, FloorIsHighest
      <3> QED BY <3>1, OutFacts DEF IInv, TypeOK, IsDuplicate
    <2> QED BY <1>2, <2>1, <2>2, DeliverStep
  <1>3. ASSUME NEW s \in Wanted, Malformed(s)
        PROVE  IInv' /\ UNCHANGED <<head, low, cursor, out, owed>> /\ bad \subseteq bad'
    BY <1>3, MalformedStep DEF Malformed
  <1>4. CASE Drop \/ Stop
    BY <1>4, CloseStep DEF Drop, Stop
  <1> QED BY <1>1, <1>2, <1>3, <1>4 DEF Client

(* Every step keeps the invariant.                                          *)
LEMMA NextInv == IInv /\ [Next]_vars => IInv'
  <1> SUFFICES ASSUME IInv, [Next]_vars PROVE IInv'
    OBVIOUS
  <1>1. CASE UNCHANGED vars
    BY <1>1 DEF vars, IInv, TypeOK, Ascending, FloorIsHighest, OwedSinceAccepted,
                NothingMissed, SettledBelow, IsTimestamp
  <1>2. CASE Server
    BY <1>2, ServerStep
  <1>3. CASE Client
    BY <1>3, ClientStep
  <1> QED BY <1>1, <1>2, <1>3 DEF Next

-------------------------------------------------------------------------------
(* The inductive invariant holds of every subscription.                     *)
THEOREM Invariance == Spec => []IInv
  BY InitInv, NextInv, PTL DEF Spec

(* Seqs are delivered in strictly increasing order, over any number of      *)
(* inclusive resumes, from whatever cursor, or none.                        *)
THEOREM DeliveryAscends == Spec => []Ascending
  <1>1. IInv => Ascending
    BY DEF IInv
  <1> QED BY <1>1, Invariance, PTL

(* A subscription that names a cursor, a seq or a time, loses nothing: below*)
(* the highest delivered seq every owed event was delivered or reported.    *)
(* (Without a cursor NoLoss does not hold: run live_tail_tip.)              *)
THEOREM NothingIsLost == Spec => [](cursor # None => NoLoss)
  <1>1. IInv => (cursor # None => NoLoss)
    <2> SUFFICES ASSUME IInv, cursor # None, NEW w \in Wanted, owed # None, owed < w,
                        NEW s \in Range(out), w < s
                 PROVE  w \in Range(out) \union bad
      BY DEF NoLoss
    <2>1. s \in Nat /\ w \in Nat /\ lastSeq # None /\ s <= lastSeq
      BY OutFacts DEF IInv, FloorIsHighest
    <2>2. SettledBelow(lastSeq + 1) /\ lastSeq \in Nat
      BY <2>1 DEF IInv, NothingMissed, TypeOK
    <2> QED BY <2>1, <2>2 DEF SettledBelow
  <1> QED BY <1>1, Invariance, PTL

==============================================================================
