------------------------------ MODULE Sdk_proofs ------------------------------
(* Proofs about @bsky/sdk: the preference calls of any number of clients,   *)
(* scripts and failures, the profile updates of any number of callers, the  *)
(* TIDs under any clock, any texts under any edits, the decisions about any *)
(* views and preferences, and the rules of any configuration of regions.    *)
EXTENDS Sdk, FiniteSetTheorems, SequenceTheorems, WellFoundedInduction, TLAPS

(* A sequence is a function on its positions, whatever it holds.            *)
LEMMA SeqFacts ==
    ASSUME NEW s, s \in Seq(ToSet(s))
    PROVE  /\ Len(s) \in Nat /\ DOMAIN s = 1..Len(s)
           /\ s = [i \in 1..Len(s) |-> s[i]]
  BY LenProperties

(* And conversely.                                                          *)
LEMMA AsSeq ==
    ASSUME NEW n \in Nat, NEW s, s = [i \in 1..n |-> s[i]]
    PROVE  s \in Seq(ToSet(s)) /\ Len(s) = n /\ DOMAIN s = 1..n
  <1>1. DOMAIN s = 1..n
    OBVIOUS
  <1>2. \A i \in 1..n : s[i] \in ToSet(s)
    BY <1>1 DEF ToSet
  <1>3. s \in [1..n -> ToSet(s)]
    BY <1>2
  <1>4. s \in Seq(ToSet(s))
    BY <1>3, SeqDef
  <1> QED BY <1>1, <1>3, <1>4, LenProperties

(* A function on the first numbers is a sequence of what its values are in. *)
LEMMA Enlisted ==
    ASSUME NEW n \in Nat, NEW S, NEW s \in [1..n -> S]
    PROVE  s \in Seq(S)
  BY SeqDef

-------------------------------------------------------------------------------
(* The cycles of the preference calls *)

(* The types of a client's chain, one by one.                               *)
LEMMA ChainFacts ==
    ASSUME PrefsTypeOK, NEW c \in Clients
    PROVE  /\ Len(jobs[c]) \in Nat /\ DOMAIN jobs[c] = 1..Len(jobs[c])
           /\ jobs[c] = [j \in 1..Len(jobs[c]) |-> jobs[c][j]]
           /\ tail[c] \in Nat /\ issued[c] \in Nat
           /\ \A j \in DOMAIN jobs[c] :
                /\ j \in Nat /\ j >= 1 /\ j <= Len(jobs[c])
                /\ jobs[c][j] = [f \in JobFields |-> jobs[c][j][f]]
                /\ jobs[c][j].phase \in Phases
                /\ jobs[c][j].prev \in Nat /\ jobs[c][j].seen \in Nat /\ jobs[c][j].landed \in Nat
  <1>1. jobs[c] \in Seq(ToSet(jobs[c]))
    BY DEF PrefsTypeOK
  <1>2. /\ Len(jobs[c]) \in Nat /\ DOMAIN jobs[c] = 1..Len(jobs[c])
        /\ jobs[c] = [j \in 1..Len(jobs[c]) |-> jobs[c][j]]
    BY <1>1, SeqFacts
  <1>3. tail[c] \in Nat /\ issued[c] \in Nat
    BY DEF PrefsTypeOK
  <1>4. \A j \in DOMAIN jobs[c] :
                /\ jobs[c][j] = [f \in JobFields |-> jobs[c][j][f]]
                /\ jobs[c][j].phase \in Phases
                /\ jobs[c][j].prev \in Nat /\ jobs[c][j].seen \in Nat /\ jobs[c][j].landed \in Nat
    BY DEF PrefsTypeOK
  <1>5. \A j \in DOMAIN jobs[c] : j \in Nat /\ j >= 1 /\ j <= Len(jobs[c])
    BY <1>2
  <1> QED BY <1>2, <1>3, <1>4, <1>5

(* A cycle is replaced by its next state: no other is.                      *)
LEMMA OthersStay ==
    ASSUME PrefsTypeOK, NEW c \in Clients, NEW j \in DOMAIN jobs[c], NEW r,
           r = [f \in JobFields |-> r[f]], SetJob(c, j, r)
    PROVE  /\ jobs' = [e \in Clients |-> jobs'[e]]
           /\ \A e \in Clients : jobs'[e] \in Seq(ToSet(jobs'[e])) /\ Len(jobs'[e]) = Len(jobs[e])
                                 /\ DOMAIN jobs'[e] = DOMAIN jobs[e]
           /\ \A e \in Clients : e # c => jobs'[e] = jobs[e]
           /\ \A i \in DOMAIN jobs[c] : i # j => jobs'[c][i] = jobs[c][i]
           /\ jobs'[c][j] = r
  <1>1. /\ jobs = [e \in Clients |-> jobs[e]]
        /\ jobs' = [jobs EXCEPT ![c] = [jobs[c] EXCEPT ![j] = r]]
    BY DEF SetJob, PrefsTypeOK
  <1>2. /\ jobs' = [e \in Clients |-> jobs'[e]]
        /\ \A e \in Clients : e # c => jobs'[e] = jobs[e]
        /\ jobs'[c] = [jobs[c] EXCEPT ![j] = r]
    BY <1>1
  <1>3. /\ Len(jobs[c]) \in Nat /\ DOMAIN jobs[c] = 1..Len(jobs[c])
        /\ jobs[c] = [i \in 1..Len(jobs[c]) |-> jobs[c][i]]
    BY ChainFacts
  <1>4. /\ jobs'[c] = [i \in 1..Len(jobs[c]) |-> jobs'[c][i]]
        /\ \A i \in DOMAIN jobs[c] : i # j => jobs'[c][i] = jobs[c][i]
        /\ jobs'[c][j] = r
    BY <1>2, <1>3
  <1>5. /\ jobs'[c] \in Seq(ToSet(jobs'[c])) /\ Len(jobs'[c]) = Len(jobs[c])
        /\ DOMAIN jobs'[c] = DOMAIN jobs[c]
    BY <1>3, <1>4, AsSeq
  <1>6. \A e \in Clients : e # c => jobs'[e] \in Seq(ToSet(jobs'[e])) /\ Len(jobs'[e]) = Len(jobs[e])
                                    /\ DOMAIN jobs'[e] = DOMAIN jobs[e]
    BY <1>2 DEF PrefsTypeOK
  <1> QED BY <1>2, <1>4, <1>5, <1>6

(* A step of one cycle keeps the invariant if it goes by these rules: it    *)
(* starts behind settled ones, settles for good, reads what is stored, and  *)
(* lands what it read.                                                      *)
LEMMA JobStep ==
    ASSUME PrefsInv, NEW c \in Clients, NEW j \in DOMAIN jobs[c], NEW r,
           r = [f \in JobFields |-> r[f]], SetJob(c, j, r), issued' = issued,
           tail' = tail \/ ( /\ tail' = [tail EXCEPT ![c] = IF @ = j THEN 0 ELSE @]
                             /\ jobs[c][j].phase \in Settled ),
           writes' \in {writes, writes + 1},
           r.phase \in Phases, r.prev = jobs[c][j].prev, r.seen \in Nat, r.landed \in Nat,
           r.landed <= writes',
           jobs[c][j].phase \in Settled => r.phase \in Settled,
           jobs[c][j].phase = "queued" /\ r.phase # "queued" => SettledBefore(c, j),
           r.phase = "read" => jobs[c][j].phase = "queued" /\ r.seen = writes,
           r.phase \in {"written", "done"} =>
                \/ jobs[c][j].phase = "read"
                \/ jobs[c][j].phase \in {"written", "done"} /\ r.landed = jobs[c][j].landed
    PROVE  PrefsInv'
  <1>1. /\ PrefsTypeOK /\ writes \in Nat /\ writes' \in Nat /\ writes <= writes'
    BY DEF PrefsInv, PrefsTypeOK
  <1>2. /\ jobs' = [e \in Clients |-> jobs'[e]]
        /\ \A e \in Clients : jobs'[e] \in Seq(ToSet(jobs'[e])) /\ Len(jobs'[e]) = Len(jobs[e])
                              /\ DOMAIN jobs'[e] = DOMAIN jobs[e]
        /\ \A e \in Clients : e # c => jobs'[e] = jobs[e]
        /\ \A i \in DOMAIN jobs[c] : i # j => jobs'[c][i] = jobs[c][i]
        /\ jobs'[c][j] = r
    BY <1>1, OthersStay
  <1>3. /\ tail' \in [Clients -> Nat]
        /\ \A e \in Clients : tail'[e] # tail[e] =>
                e = c /\ tail'[c] = 0 /\ tail[c] = j /\ jobs[c][j].phase \in Settled
    <2>1. tail \in [Clients -> Nat]
      BY <1>1 DEF PrefsTypeOK
    <2>2. CASE tail' = tail
      BY <2>1, <2>2
    <2>3. CASE /\ tail' = [tail EXCEPT ![c] = IF tail[c] = j THEN 0 ELSE tail[c]]
               /\ jobs[c][j].phase \in Settled
      BY <2>1, <2>3
    <2> QED BY <2>2, <2>3, Zenon
  <1>4. PrefsTypeOK'
    <2>1. \A e \in Clients : \A i \in DOMAIN jobs'[e] :
            /\ jobs'[e][i] = [f \in JobFields |-> jobs'[e][i][f]]
            /\ jobs'[e][i].phase \in Phases
            /\ jobs'[e][i].prev \in Nat /\ jobs'[e][i].seen \in Nat /\ jobs'[e][i].landed \in Nat
      <3> SUFFICES ASSUME NEW e \in Clients, NEW i \in DOMAIN jobs[e]
                   PROVE  /\ jobs'[e][i] = [f \in JobFields |-> jobs'[e][i][f]]
                          /\ jobs'[e][i].phase \in Phases
                          /\ jobs'[e][i].prev \in Nat /\ jobs'[e][i].seen \in Nat
                          /\ jobs'[e][i].landed \in Nat
        BY <1>2
      <3>1. CASE e = c /\ i = j
        BY <1>1, <1>2, <3>1, ChainFacts
      <3>2. CASE ~ (e = c /\ i = j)
        <4>1. jobs'[e][i] = jobs[e][i]
          BY <1>2, <3>2
        <4>2. /\ jobs[e][i] = [f \in JobFields |-> jobs[e][i][f]]
              /\ jobs[e][i].phase \in Phases
              /\ jobs[e][i].prev \in Nat /\ jobs[e][i].seen \in Nat /\ jobs[e][i].landed \in Nat
          BY <1>1, ChainFacts
        <4> QED BY <4>1, <4>2
      <3> QED BY <3>1, <3>2
    <2> QED BY <1>1, <1>2, <1>3, <2>1 DEF PrefsTypeOK
  <1>5. ASSUME NEW e \in Clients, NEW i, SettledBefore(e, i)
        PROVE  \A k \in DOMAIN jobs[e] : k < i => jobs'[e][k].phase \in Settled
    <2> SUFFICES ASSUME NEW k \in DOMAIN jobs[e], k < i
                 PROVE  jobs'[e][k].phase \in Settled
      OBVIOUS
    <2>1. jobs[e][k].phase \in Settled
      BY <1>5 DEF SettledBefore
    <2> QED BY <1>2, <2>1
  <1>6. OneAtATime'
    <2> SUFFICES ASSUME NEW e \in Clients, NEW i \in DOMAIN jobs[e], jobs'[e][i].phase # "queued"
                 PROVE  \A k \in DOMAIN jobs[e] : k < i => jobs'[e][k].phase \in Settled
      BY <1>2 DEF OneAtATime, SettledBefore, Settled
    <2>1. \A k \in Clients : \A o \in DOMAIN jobs[k] : jobs[k][o].phase # "queued" => SettledBefore(k, o)
      BY DEF PrefsInv, OneAtATime
    <2>2. SettledBefore(e, i)
      <3>1. CASE e = c /\ i = j
        <4>1. jobs'[c][j] = r
          BY <1>2
        <4>2. r.phase # "queued"
          BY <3>1, <4>1, Zenon
        <4>3. jobs[c][j].phase = "queued" => SettledBefore(c, j)
          BY <4>2, Zenon
        <4> QED BY <2>1, <3>1, <4>3, Zenon
      <3>2. CASE ~ (e = c /\ i = j)
        <4>1. jobs'[e][i] = jobs[e][i]
          BY <1>2, <3>2
        <4> QED BY <2>1, <4>1, Zenon
      <3> QED BY <3>1, <3>2, Zenon
    <2> QED BY <1>5, <2>2
  <1>7. Chained'
    <2> SUFFICES ASSUME NEW e \in Clients
                 PROVE  /\ tail'[e] \in {0, Len(jobs[e])}
                        /\ tail'[e] = 0 => \A k \in DOMAIN jobs[e] :
                                k < Len(jobs[e]) + 1 => jobs'[e][k].phase \in Settled
                        /\ \A i \in DOMAIN jobs[e] :
                            /\ jobs'[e][i].prev \in {0, i - 1}
                            /\ jobs'[e][i].prev = 0 => \A k \in DOMAIN jobs[e] :
                                    k < i => jobs'[e][k].phase \in Settled
      BY <1>2 DEF Chained, SettledBefore, Settled
    <2>1. tail'[e] \in {0, Len(jobs[e])}
      BY <1>3 DEF PrefsInv, Chained
    <2>2. tail'[e] = 0 => SettledBefore(e, Len(jobs[e]) + 1)
      <3>1. CASE tail'[e] = tail[e]
        BY <3>1 DEF PrefsInv, Chained
      <3>2. CASE tail'[e] # tail[e]
        <4>1. e = c /\ tail[c] = j /\ jobs[c][j].phase \in Settled /\ j \in Nat /\ j >= 1
          BY <1>1, <1>3, <3>2, ChainFacts
        <4>2. j = Len(jobs[c])
          BY <4>1 DEF PrefsInv, Chained
        <4>3. SettledBefore(c, j)
          BY <4>1 DEF PrefsInv, OneAtATime, Settled
        <4>4. \A k \in DOMAIN jobs[c] : k < j + 1 => k < j \/ k = j
          <5>1. DOMAIN jobs[c] = 1..Len(jobs[c]) /\ Len(jobs[c]) \in Nat
            BY <1>1, ChainFacts
          <5>2. \A k \in Nat : k < j + 1 => k < j \/ k = j
            BY <4>1
          <5> QED BY <5>1, <5>2
        <4>5. \A k \in DOMAIN jobs[c] : k < j => jobs[c][k].phase \in Settled
          BY <4>3, Zenon DEF SettledBefore
        <4>6. \A k \in DOMAIN jobs[c] : k < j + 1 => jobs[c][k].phase \in Settled
          BY <4>1, <4>4, <4>5, Zenon
        <4> QED BY <4>1, <4>2, <4>6, Zenon DEF SettledBefore
      <3> QED BY <3>1, <3>2
    <2>3. \A i \in DOMAIN jobs[e] : jobs'[e][i].prev = jobs[e][i].prev
      BY <1>2
    <2>4. \A i : SettledBefore(e, i) => \A k \in DOMAIN jobs[e] : k < i => jobs'[e][k].phase \in Settled
      BY <1>5, Zenon
    <2>5. tail'[e] = 0 => \A k \in DOMAIN jobs[e] :
                            k < Len(jobs[e]) + 1 => jobs'[e][k].phase \in Settled
      BY <2>2, <2>4, Zenon
    <2>6. \A i \in DOMAIN jobs[e] : /\ jobs[e][i].prev \in {0, i - 1}
                                    /\ jobs[e][i].prev = 0 => SettledBefore(e, i)
      BY Zenon DEF PrefsInv, Chained
    <2>7. \A i \in DOMAIN jobs[e] :
             /\ jobs'[e][i].prev \in {0, i - 1}
             /\ jobs'[e][i].prev = 0 => \A k \in DOMAIN jobs[e] :
                                           k < i => jobs'[e][k].phase \in Settled
      <3> TAKE i \in DOMAIN jobs[e]
      <3>1. jobs'[e][i].prev = jobs[e][i].prev /\ jobs[e][i].prev \in {0, i - 1}
        BY <2>3, <2>6, Zenon
      <3>2. jobs[e][i].prev = 0 => \A k \in DOMAIN jobs[e] : k < i => jobs'[e][k].phase \in Settled
        BY <2>4, <2>6, Zenon
      <3> QED BY <3>1, <3>2
    <2> QED BY <2>1, <2>5, <2>7, Zenon
  <1>8. ReadIsCurrent'
    <2> SUFFICES ASSUME NEW e \in Clients, NEW i \in DOMAIN jobs[e], NEW o \in DOMAIN jobs[e]
                 PROVE  /\ jobs'[e][o].landed <= writes'
                        /\ jobs'[e][i].phase = "read" /\ jobs'[e][o].phase \in {"written", "done"} =>
                                jobs'[e][o].landed <= jobs'[e][i].seen
      BY <1>2 DEF ReadIsCurrent
    <2>1. /\ jobs[e][o].landed \in Nat /\ jobs[e][o].landed <= writes
          /\ jobs[e][i].phase = "read" /\ jobs[e][o].phase \in {"written", "done"} =>
                                jobs[e][o].landed <= jobs[e][i].seen
      BY <1>1, ChainFacts DEF PrefsInv, ReadIsCurrent
    <2>2. jobs'[e][o].landed <= writes'
      <3>1. jobs[e][o].landed <= writes'
        BY <1>1, <2>1
      <3> QED BY <1>2, <3>1
    <2>3. ASSUME jobs'[e][i].phase = "read", jobs'[e][o].phase \in {"written", "done"}
          PROVE  jobs'[e][o].landed <= jobs'[e][i].seen
      <3>1. CASE e = c /\ i = j
        <4>1. r.phase = "read" /\ r.seen = writes /\ o # j
          BY <1>2, <2>3, <3>1
        <4> QED BY <1>2, <2>1, <3>1, <4>1
      <3>2. CASE e = c /\ o = j /\ i # j
        <4>1. jobs[c][i].phase = "read" /\ r.phase \in {"written", "done"}
          BY <1>2, <2>3, <3>2
        <4>2. jobs[c][j].phase # "read"
          <5>1. i \in Nat /\ j \in Nat
            BY <1>1, <3>2, ChainFacts
          <5>2. CASE i < j
            BY <3>2, <4>1, <5>2 DEF PrefsInv, OneAtATime, SettledBefore, Settled
          <5>3. CASE j < i
            BY <3>2, <4>1, <5>3 DEF PrefsInv, OneAtATime, SettledBefore, Settled
          <5> QED BY <3>2, <5>1, <5>2, <5>3
        <4>3. jobs[c][j].phase \in {"written", "done"} /\ r.landed = jobs[c][j].landed
          BY <4>1, <4>2
        <4> QED BY <1>2, <2>1, <3>2, <4>1, <4>3
      <3>3. CASE ~ (e = c /\ i = j) /\ ~ (e = c /\ o = j)
        <4>1. jobs'[e][i] = jobs[e][i] /\ jobs'[e][o] = jobs[e][o]
          BY <1>2, <3>3
        <4> QED BY <2>1, <2>3, <4>1
      <3> QED BY <3>1, <3>2, <3>3
    <2> QED BY <2>2, <2>3
  <1> QED BY <1>4, <1>6, <1>7, <1>8 DEF PrefsInv

(* A cycle that may start is behind settled ones only: its predecessor has  *)
(* settled, and started only when those before it had.                      *)
LEMMA StartsBehindSettled ==
    ASSUME PrefsInv, NEW c \in Clients, NEW j \in DOMAIN jobs[c], Starts(c, j)
    PROVE  SettledBefore(c, j)
  <1>1. CASE jobs[c][j].prev = 0
    BY <1>1 DEF PrefsInv, Chained
  <1>2. CASE jobs[c][j].prev # 0
    <2>1. jobs[c][j].prev = j - 1 /\ jobs[c][j - 1].phase \in Settled
      BY <1>2 DEF PrefsInv, Chained, Starts, Ready
    <2>2. j \in Nat /\ j >= 1 /\ j - 1 # 0 /\ DOMAIN jobs[c] = 1..Len(jobs[c])
          /\ Len(jobs[c]) \in Nat /\ j <= Len(jobs[c])
      BY <1>2, <2>1, ChainFacts DEF PrefsInv
    <2>3. j - 1 \in DOMAIN jobs[c]
      BY <2>2
    <2>4. SettledBefore(c, j - 1)
      BY <2>1, <2>3 DEF PrefsInv, OneAtATime, Settled
    <2>5. \A k \in DOMAIN jobs[c] : k < j => k < j - 1 \/ k = j - 1
      BY <2>2
    <2> QED BY <2>1, <2>4, <2>5 DEF SettledBefore
  <1> QED BY <1>1, <1>2

(* Every step of a cycle keeps the invariant.                               *)
LEMMA CycleKeeps ==
    ASSUME PrefsInv, NEW c \in Clients, NEW j \in DOMAIN jobs[c],
           \/ CycleStep(c, j)
           \/ Fail(c, j) \/ GiveUp(c, j) \/ LandLate(c, j)
    PROVE  PrefsInv'
  <1> DEFINE v == jobs[c][j]
  <1>1. /\ v = [f \in JobFields |-> v[f]] /\ v.phase \in Phases
        /\ v.prev \in Nat /\ v.seen \in Nat /\ v.landed \in Nat
        /\ writes \in Nat /\ v.landed <= writes
    BY ChainFacts DEF PrefsInv, PrefsTypeOK, ReadIsCurrent
  <1> HIDE DEF v
  <1>2. v.landed <= writes + 1 /\ writes + 1 <= writes + 1 /\ writes + 1 \in Nat
    BY <1>1
  <1>3. CASE Read(c, j)
    <2> DEFINE r == [v EXCEPT !.phase = "read", !.base = stored, !.seen = writes]
    <2>1. /\ r = [f \in JobFields |-> r[f]]
          /\ r.phase = "read" /\ r.prev = v.prev /\ r.seen = writes /\ r.landed = v.landed
      BY <1>1 DEF JobFields
    <2>2. /\ SetJob(c, j, r) /\ issued' = issued /\ tail' = tail /\ writes' = writes
          /\ Starts(c, j) /\ v.phase = "queued"
      BY <1>3 DEF Read, Starts, v
    <2>3. SettledBefore(c, j)
      BY <2>2, StartsBehindSettled DEF v, Starts
    <2> HIDE DEF r
    <2> QED BY <1>1, <2>1, <2>2, <2>3, JobStep DEF Phases, Settled, v
  <1>4. CASE SkipWrite(c, j) \/ Answer(c, j)
    <2> DEFINE r == [v EXCEPT !.phase = "done"]
    <2>1. /\ r = [f \in JobFields |-> r[f]]
          /\ r.phase = "done" /\ r.prev = v.prev /\ r.seen = v.seen /\ r.landed = v.landed
      BY <1>1 DEF JobFields
    <2>2. /\ SetJob(c, j, r) /\ issued' = issued /\ tail' = tail /\ writes' = writes
          /\ v.phase \in {"read", "written"}
      BY <1>4 DEF SkipWrite, Answer, v
    <2> HIDE DEF r
    <2> QED BY <1>1, <2>1, <2>2, JobStep DEF Phases, Settled, v
  <1>5. CASE Put(c, j)
    <2> DEFINE r == [v EXCEPT !.phase = "written", !.landed = writes + 1]
    <2>1. /\ r = [f \in JobFields |-> r[f]]
          /\ r.phase = "written" /\ r.prev = v.prev /\ r.seen = v.seen /\ r.landed = writes + 1
      BY <1>1 DEF JobFields
    <2>2. /\ SetJob(c, j, r) /\ issued' = issued /\ tail' = tail /\ writes' = writes + 1
          /\ v.phase = "read"
      BY <1>5 DEF Put, Land, v
    <2> HIDE DEF r
    <2> QED BY <1>1, <1>2, <2>1, <2>2, JobStep DEF Phases, Settled, v
  <1>6. CASE LandLate(c, j)
    <2> DEFINE r == [v EXCEPT !.phase = "failed", !.landed = writes + 1]
    <2>1. /\ r = [f \in JobFields |-> r[f]]
          /\ r.phase = "failed" /\ r.prev = v.prev /\ r.seen = v.seen /\ r.landed = writes + 1
      BY <1>1 DEF JobFields
    <2>2. /\ SetJob(c, j, r) /\ issued' = issued /\ tail' = tail /\ writes' = writes + 1
          /\ v.phase = "late"
      BY <1>6 DEF LandLate, Land, v
    <2> HIDE DEF r
    <2> QED BY <1>1, <1>2, <2>1, <2>2, JobStep DEF Phases, Settled, v
  <1>7. CASE Fail(c, j)
    <2> DEFINE r == [v EXCEPT !.phase = "failed"]
    <2>1. /\ r = [f \in JobFields |-> r[f]]
          /\ r.phase = "failed" /\ r.prev = v.prev /\ r.seen = v.seen /\ r.landed = v.landed
      BY <1>1 DEF JobFields
    <2>2. /\ SetJob(c, j, r) /\ issued' = issued /\ tail' = tail /\ writes' = writes
          /\ Starts(c, j) \/ v.phase \in {"read", "written"}
      BY <1>7 DEF Fail, v
    <2>3. v.phase = "queued" => SettledBefore(c, j)
      BY <2>2, StartsBehindSettled DEF v, Starts
    <2> HIDE DEF r
    <2> QED BY <1>1, <2>1, <2>2, <2>3, JobStep DEF Phases, Settled, v
  <1>8. CASE GiveUp(c, j)
    <2> DEFINE r == [v EXCEPT !.phase = "late"]
    <2>1. /\ r = [f \in JobFields |-> r[f]]
          /\ r.phase = "late" /\ r.prev = v.prev /\ r.seen = v.seen /\ r.landed = v.landed
      BY <1>1 DEF JobFields
    <2>2. /\ SetJob(c, j, r) /\ issued' = issued /\ tail' = tail /\ writes' = writes
          /\ v.phase = "read"
      BY <1>8 DEF GiveUp, v
    <2> HIDE DEF r
    <2> QED BY <1>1, <2>1, <2>2, JobStep DEF Phases, Settled, v
  <1>9. CASE Cleanup(c, j)
    <2> DEFINE r == [v EXCEPT !.cleaned = TRUE]
    <2>1. /\ r = [f \in JobFields |-> r[f]]
          /\ r.phase = v.phase /\ r.prev = v.prev /\ r.seen = v.seen /\ r.landed = v.landed
      BY <1>1 DEF JobFields
    <2>2. /\ SetJob(c, j, r) /\ issued' = issued /\ writes' = writes
          /\ tail' = [tail EXCEPT ![c] = IF @ = j THEN 0 ELSE @]
          /\ v.phase \in Settled
      BY <1>9 DEF Cleanup, v
    <2> HIDE DEF r
    <2> QED BY <1>1, <2>1, <2>2, JobStep DEF Phases, Settled, v
  <1> QED BY <1>3, <1>4, <1>5, <1>6, <1>7, <1>8, <1>9 DEF CycleStep

(* A sequence stays one over any larger set.                                *)
LEMMA SeqOver ==
    ASSUME NEW s, s \in Seq(ToSet(s)), NEW S, ToSet(s) \subseteq S
    PROVE  s \in Seq(S)
  <1>1. Len(s) \in Nat /\ s \in [1..Len(s) -> ToSet(s)]
    BY LenProperties
  <1>2. s \in [1..Len(s) -> S]
    BY <1>1
  <1> QED BY <1>1, <1>2, Enlisted

(* What a chain holds after m cycles were put on it: the old cycles, and    *)
(* new ones that are queued, each behind the one before it.                 *)
LEMMA ChainAdds ==
    ASSUME PrefsTypeOK, NEW c \in Clients, NEW m \in Nat, NEW ops, ops = [i \in 1..m |-> ops[i]],
           NEW migrates, Chain(c, ops, migrates)
    PROVE  /\ jobs' = [e \in Clients |-> jobs'[e]]
           /\ \A e \in Clients : e # c => jobs'[e] = jobs[e] /\ tail'[e] = tail[e]
           /\ jobs'[c] \in Seq(ToSet(jobs'[c])) /\ Len(jobs'[c]) = Len(jobs[c]) + m
           /\ DOMAIN jobs'[c] = 1..(Len(jobs[c]) + m)
           /\ \A i \in 1..Len(jobs[c]) : jobs'[c][i] = jobs[c][i]
           /\ \A i \in 1..(Len(jobs[c]) + m) : i > Len(jobs[c]) =>
                /\ jobs'[c][i] = [f \in JobFields |-> jobs'[c][i][f]]
                /\ jobs'[c][i].phase = "queued" /\ jobs'[c][i].seen = 0 /\ jobs'[c][i].landed = 0
                /\ jobs'[c][i].prev = IF i = Len(jobs[c]) + 1 THEN tail[c] ELSE i - 1
           /\ tail' \in [Clients -> Nat]
           /\ tail'[c] = IF m = 0 THEN tail[c] ELSE Len(jobs[c]) + m
           /\ \A i \in 1..(Len(jobs[c]) + m) : i > Len(jobs[c]) =>
                /\ i - Len(jobs[c]) \in 1..m /\ jobs'[c][i].op = ops[i - Len(jobs[c])]
                /\ jobs'[c][i].base = <<>>
  <1> DEFINE n == Len(jobs[c])
             Prev(i) == IF i = 1 THEN tail[c] ELSE n + i - 1
             more == [i \in 1..m |-> [Job(ops[i], Prev(i)) EXCEPT !.migrates = migrates]]
             S == ToSet(jobs[c]) \cup ToSet(more)
  <1>1. /\ n \in Nat /\ DOMAIN jobs[c] = 1..n /\ tail[c] \in Nat
        /\ jobs[c] = [j \in 1..n |-> jobs[c][j]] /\ jobs[c] \in Seq(ToSet(jobs[c]))
    BY ChainFacts DEF PrefsTypeOK
  <1>2. DOMAIN ops = 1..m
    OBVIOUS
  <1>3. more \in Seq(ToSet(more)) /\ Len(more) = m /\ DOMAIN more = 1..m
    <2>1. more = [i \in 1..m |-> more[i]]
      OBVIOUS
    <2> HIDE DEF more
    <2> QED BY <2>1, AsSeq
  <1>4. \A i \in 1..m :
            /\ more[i] = [f \in JobFields |-> more[i][f]]
            /\ more[i].phase = "queued" /\ more[i].seen = 0 /\ more[i].landed = 0
            /\ more[i].prev = Prev(i) /\ more[i].op = ops[i] /\ more[i].base = <<>>
    <2> TAKE i \in 1..m
    <2>1. more[i] = [Job(ops[i], Prev(i)) EXCEPT !.migrates = migrates]
      OBVIOUS
    <2> HIDE DEF more, Prev
    <2> QED BY <2>1 DEF Job, JobFields
  <1>5. /\ jobs' = [jobs EXCEPT ![c] = jobs[c] \o more]
        /\ tail' = [tail EXCEPT ![c] = IF ops = <<>> THEN @ ELSE n + Len(ops)]
    BY <1>2 DEF Chain
  <1> HIDE DEF more
  <1>6. /\ jobs[c] \o more \in Seq(S) /\ Len(jobs[c] \o more) = n + m
        /\ \A i \in 1..(n + m) :
              (jobs[c] \o more)[i] = IF i <= n THEN jobs[c][i] ELSE more[i - n]
    <2>1. jobs[c] \in Seq(S) /\ more \in Seq(S)
      BY <1>1, <1>3, SeqOver
    <2> HIDE DEF S
    <2>2. /\ jobs[c] \o more \in Seq(S) /\ Len(jobs[c] \o more) = Len(jobs[c]) + Len(more)
          /\ \A i \in 1..(Len(jobs[c]) + Len(more)) :
               (jobs[c] \o more)[i] = IF i <= Len(jobs[c]) THEN jobs[c][i] ELSE more[i - Len(jobs[c])]
      BY <2>1, ConcatProperties
    <2> QED BY <1>3, <2>2
  <1>7. /\ jobs' = [e \in Clients |-> jobs'[e]]
        /\ \A e \in Clients : e # c => jobs'[e] = jobs[e]
        /\ jobs'[c] = jobs[c] \o more
    BY <1>5 DEF PrefsTypeOK
  <1>8. n + m \in Nat /\ \A i \in 1..(n + m) : i > n =>
            i - n \in 1..m /\ ~ (i <= n) /\ (i - n = 1 <=> i = n + 1) /\ n + (i - n) - 1 = i - 1
    <2>1. \A a, b \in Nat : /\ a + b \in Nat
                            /\ \A i \in 1..(a + b) : i > a =>
                                  /\ i - a \in 1..b /\ ~ (i <= a)
                                  /\ (i - a = 1) <=> (i = a + 1)
                                  /\ a + (i - a) - 1 = i - 1
      OBVIOUS
    <2> HIDE DEF n
    <2> QED BY <1>1, <2>1
  <1>9. DOMAIN jobs'[c] = 1..(n + m) /\ Len(jobs'[c]) = n + m
        /\ jobs'[c] = [i \in 1..(n + m) |-> jobs'[c][i]]
    BY <1>6, <1>7, <1>8, LenProperties
  <1>10. jobs'[c] \in Seq(ToSet(jobs'[c]))
    BY <1>8, <1>9, AsSeq
  <1>11. \A i \in 1..n : jobs'[c][i] = jobs[c][i]
    BY <1>1, <1>6, <1>7
  <1>12. \A i \in 1..(n + m) : i > n =>
                /\ jobs'[c][i] = [f \in JobFields |-> jobs'[c][i][f]]
                /\ jobs'[c][i].phase = "queued" /\ jobs'[c][i].seen = 0 /\ jobs'[c][i].landed = 0
                /\ jobs'[c][i].prev = IF i = n + 1 THEN tail[c] ELSE i - 1
                /\ i - n \in 1..m /\ jobs'[c][i].op = ops[i - n] /\ jobs'[c][i].base = <<>>
    <2> SUFFICES ASSUME NEW i \in 1..(n + m), i > n
                 PROVE  /\ jobs'[c][i] = [f \in JobFields |-> jobs'[c][i][f]]
                        /\ jobs'[c][i].phase = "queued" /\ jobs'[c][i].seen = 0
                        /\ jobs'[c][i].landed = 0
                        /\ jobs'[c][i].prev = IF i = n + 1 THEN tail[c] ELSE i - 1
                        /\ i - n \in 1..m /\ jobs'[c][i].op = ops[i - n] /\ jobs'[c][i].base = <<>>
      OBVIOUS
    <2>1. jobs'[c][i] = more[i - n] /\ i - n \in 1..m
      BY <1>6, <1>7, <1>8
    <2>2. Prev(i - n) = IF i = n + 1 THEN tail[c] ELSE i - 1
      BY <1>8
    <2> HIDE DEF Prev
    <2> QED BY <1>4, <2>1, <2>2
  <1>13. ops = <<>> <=> m = 0
    <2>1. Len(ops) = m
      BY LenProperties, <1>2, AsSeq
    <2>2. ops = <<>> => m = 0
      BY <2>1
    <2>3. m = 0 => ops = <<>>
      <3>1. ASSUME m = 0 PROVE 1..m = {}
        BY <3>1
      <3> QED BY <2>1, <3>1, AsSeq, EmptySeq
    <2> QED BY <2>2, <2>3
  <1>14. Len(ops) = m
    BY <1>2, AsSeq
  <1>15. /\ tail' \in [Clients -> Nat] /\ \A e \in Clients : e # c => tail'[e] = tail[e]
         /\ tail'[c] = IF m = 0 THEN tail[c] ELSE n + m
    BY <1>1, <1>5, <1>8, <1>13, <1>14 DEF PrefsTypeOK
  <1> QED BY <1>7, <1>9, <1>10, <1>11, <1>12, <1>15

(* Putting cycles on a chain keeps the invariant: none of them has started, *)
(* and the first is behind the chain's tail, or everything has settled.     *)
LEMMA ChainKeeps ==
    ASSUME PrefsInv, NEW c \in Clients, NEW m \in Nat, NEW ops, ops = [i \in 1..m |-> ops[i]],
           NEW migrates, Chain(c, ops, migrates), issued' \in [Clients -> Nat], writes' = writes
    PROVE  PrefsInv'
  <1> DEFINE n == Len(jobs[c])
  <1>1. /\ PrefsTypeOK /\ n \in Nat /\ n + m \in Nat /\ tail[c] \in Nat /\ writes \in Nat
        /\ DOMAIN jobs[c] = 1..n
    BY ChainFacts DEF PrefsInv, PrefsTypeOK
  <1>2. /\ jobs' = [e \in Clients |-> jobs'[e]]
        /\ \A e \in Clients : e # c => jobs'[e] = jobs[e] /\ tail'[e] = tail[e]
        /\ jobs'[c] \in Seq(ToSet(jobs'[c])) /\ Len(jobs'[c]) = n + m /\ DOMAIN jobs'[c] = 1..(n + m)
        /\ \A i \in 1..n : jobs'[c][i] = jobs[c][i]
        /\ \A i \in 1..(n + m) : i > n =>
                /\ jobs'[c][i] = [f \in JobFields |-> jobs'[c][i][f]]
                /\ jobs'[c][i].phase = "queued" /\ jobs'[c][i].seen = 0 /\ jobs'[c][i].landed = 0
                /\ jobs'[c][i].prev = IF i = n + 1 THEN tail[c] ELSE i - 1
        /\ tail' \in [Clients -> Nat]
        /\ tail'[c] = IF m = 0 THEN tail[c] ELSE n + m
    BY <1>1, ChainAdds, SMTT(30)
  <1> HIDE DEF n
  <1>3. \A i \in 1..(n + m) : i \in Nat /\ (i <= n => i \in 1..n) /\ (~ (i <= n) => i > n /\ i - 1 \in Nat)
    BY <1>1
  <1>4. \A e \in Clients : e # c =>
            /\ jobs'[e] = jobs[e] /\ tail'[e] = tail[e] /\ DOMAIN jobs'[e] = DOMAIN jobs[e]
            /\ Len(jobs'[e]) = Len(jobs[e])
    BY <1>2
  <1>5. PrefsTypeOK'
    <2>1. \A e \in Clients : jobs'[e] \in Seq(ToSet(jobs'[e]))
      BY <1>1, <1>2 DEF PrefsTypeOK
    <2>2. \A e \in Clients : \A i \in DOMAIN jobs'[e] :
            /\ jobs'[e][i] = [f \in JobFields |-> jobs'[e][i][f]]
            /\ jobs'[e][i].phase \in Phases
            /\ jobs'[e][i].prev \in Nat /\ jobs'[e][i].seen \in Nat /\ jobs'[e][i].landed \in Nat
      <3> SUFFICES ASSUME NEW e \in Clients, NEW i \in DOMAIN jobs'[e]
                   PROVE  /\ jobs'[e][i] = [f \in JobFields |-> jobs'[e][i][f]]
                          /\ jobs'[e][i].phase \in Phases
                          /\ jobs'[e][i].prev \in Nat /\ jobs'[e][i].seen \in Nat
                          /\ jobs'[e][i].landed \in Nat
        OBVIOUS
      <3>1. CASE e = c /\ i > n
        <4>1. /\ jobs'[c][i] = [f \in JobFields |-> jobs'[c][i][f]]
              /\ jobs'[c][i].phase = "queued" /\ jobs'[c][i].seen = 0 /\ jobs'[c][i].landed = 0
              /\ jobs'[c][i].prev = IF i = n + 1 THEN tail[c] ELSE i - 1
              /\ i - 1 \in Nat
          BY <1>1, <1>2, <3>1
        <4>2. /\ 0 \in Nat /\ jobs'[c][i].prev \in Nat
              /\ "queued" \in Phases
          BY <1>1, <4>1 DEF Phases
        <4> QED BY <3>1, <4>1, <4>2, Zenon
      <3>2. CASE ~ (e = c /\ i > n)
        <4>1. i \in DOMAIN jobs[e] /\ jobs'[e][i] = jobs[e][i]
          BY <1>1, <1>2, <1>3, <1>4, <3>2
        <4>2. /\ jobs[e][i] = [f \in JobFields |-> jobs[e][i][f]]
              /\ jobs[e][i].phase \in Phases
              /\ jobs[e][i].prev \in Nat /\ jobs[e][i].seen \in Nat /\ jobs[e][i].landed \in Nat
          BY <1>1, <4>1, ChainFacts
        <4> QED BY <4>1, <4>2
      <3> QED BY <3>1, <3>2
    <2> QED BY <1>1, <1>2, <2>1, <2>2 DEF PrefsTypeOK
  <1>6. ASSUME NEW e \in Clients, NEW i, SettledBefore(e, i), e = c => i <= n + 1, i \in Nat
        PROVE  \A k \in DOMAIN jobs'[e] : k < i => jobs'[e][k].phase \in Settled
    <2> SUFFICES ASSUME NEW k \in DOMAIN jobs'[e], k < i
                 PROVE  jobs'[e][k].phase \in Settled
      OBVIOUS
    <2>1. k \in DOMAIN jobs[e] /\ jobs'[e][k] = jobs[e][k]
      <3>1. CASE e # c
        BY <1>4, <3>1
      <3>2. CASE e = c
        <4>1. k \in 1..(n + m) /\ k \in Nat /\ k <= n
          <5>1. k \in 1..(n + m)
            BY <1>2, <3>2
          <5> QED BY <1>1, <1>6, <3>2, <5>1
        <4> QED BY <1>1, <1>2, <1>3, <3>2, <4>1
      <3> QED BY <3>1, <3>2
    <2> QED BY <1>6, <2>1 DEF SettledBefore
  <1>7. OneAtATime'
    <2> SUFFICES ASSUME NEW e \in Clients, NEW i \in DOMAIN jobs'[e], jobs'[e][i].phase # "queued"
                 PROVE  \A k \in DOMAIN jobs'[e] : k < i => jobs'[e][k].phase \in Settled
      BY DEF OneAtATime, SettledBefore, Settled
    <2>1. i \in DOMAIN jobs[e] /\ jobs'[e][i] = jobs[e][i]
      <3>1. CASE e # c
        BY <1>4, <3>1
      <3>2. CASE e = c
        BY <1>1, <1>2, <1>3, <3>2
      <3> QED BY <3>1, <3>2
    <2>2. SettledBefore(e, i)
      BY <2>1 DEF PrefsInv, OneAtATime
    <2>3. i \in Nat /\ (e = c => i <= n + 1)
      <3>1. i \in Nat /\ i <= Len(jobs[e]) /\ Len(jobs[e]) \in Nat
        BY <1>1, <2>1, ChainFacts
      <3> QED BY <3>1 DEF n
    <2> QED BY <1>6, <2>2, <2>3
  <1>8. Chained'
    <2> SUFFICES ASSUME NEW e \in Clients
                 PROVE  /\ tail'[e] \in {0, Len(jobs'[e])}
                        /\ tail'[e] = 0 => \A k \in DOMAIN jobs'[e] :
                                k < Len(jobs'[e]) + 1 => jobs'[e][k].phase \in Settled
                        /\ \A i \in DOMAIN jobs'[e] :
                            /\ jobs'[e][i].prev \in {0, i - 1}
                            /\ jobs'[e][i].prev = 0 => \A k \in DOMAIN jobs'[e] :
                                    k < i => jobs'[e][k].phase \in Settled
      BY DEF Chained, SettledBefore, Settled
    <2>1. CASE e # c
      <3>1. jobs'[e] = jobs[e] /\ tail'[e] = tail[e]
        BY <1>4, <2>1
      <3> QED BY <3>1 DEF PrefsInv, Chained, SettledBefore
    <2>2. CASE e = c
      <3>1. tail[c] \in {0, n} /\ (tail[c] = 0 => SettledBefore(c, n + 1))
        BY DEF n, PrefsInv, Chained
      <3>2. n + 1 \in Nat /\ n + 1 <= n + 1
        BY <1>1
      <3>3. tail'[c] \in {0, Len(jobs'[c])}
        BY <1>1, <1>2, <3>1
      <3>4. ASSUME tail'[c] = 0
            PROVE  \A k \in DOMAIN jobs'[c] : k < Len(jobs'[c]) + 1 => jobs'[c][k].phase \in Settled
        <4>1. CASE m = 0
          <5>1. tail[c] = 0 /\ n + m = n
            BY <1>1, <1>2, <3>4, <4>1
          <5>2. Len(jobs'[c]) = n
            BY <1>2, <5>1
          <5> QED BY <1>6, <3>1, <3>2, <5>1, <5>2
        <4>2. CASE m # 0
          BY <1>1, <1>2, <3>4, <4>2
        <4> QED BY <4>1, <4>2
      <3>5. ASSUME NEW i \in DOMAIN jobs'[c]
            PROVE  /\ jobs'[c][i].prev \in {0, i - 1}
                   /\ jobs'[c][i].prev = 0 => \A k \in DOMAIN jobs'[c] :
                                    k < i => jobs'[c][k].phase \in Settled
        <4>1. i \in 1..(n + m) /\ i \in Nat
          BY <1>2, <1>3
        <4>2. CASE i <= n
          <5>1. i \in DOMAIN jobs[c] /\ jobs'[c][i] = jobs[c][i]
            BY <1>1, <1>2, <1>3, <4>1, <4>2
          <5>2. jobs[c][i].prev \in {0, i - 1} /\ (jobs[c][i].prev = 0 => SettledBefore(c, i))
            BY <5>1 DEF PrefsInv, Chained
          <5>3. i <= n + 1
            BY <1>1, <4>1, <4>2
          <5>4. SettledBefore(c, i) => \A k \in DOMAIN jobs'[c] : k < i => jobs'[c][k].phase \in Settled
            BY <1>6, <4>1, <5>3
          <5> QED BY <5>1, <5>2, <5>4
        <4>3. CASE i = n + 1
          <5>0. i > n
            BY <1>1, <4>3
          <5>1. jobs'[c][i].prev = tail[c]
            BY <1>2, <4>1, <4>3, <5>0
          <5>2. tail[c] \in {0, i - 1}
            BY <1>1, <3>1, <4>3
          <5> QED BY <1>6, <3>1, <3>2, <4>3, <5>1, <5>2
        <4>4. CASE i > n + 1
          <5>1. i > n /\ i # n + 1 /\ i - 1 # 0
            BY <1>1, <4>1, <4>4
          <5>2. jobs'[c][i].prev = i - 1
            BY <1>2, <4>1, <5>1
          <5> QED BY <5>1, <5>2
        <4>5. i <= n \/ i = n + 1 \/ i > n + 1
          BY <1>1, <4>1
        <4> QED BY <4>2, <4>3, <4>4, <4>5
      <3> QED BY <2>2, <3>3, <3>4, <3>5
    <2> QED BY <2>1, <2>2
  <1>9. ReadIsCurrent'
    <2> SUFFICES ASSUME NEW e \in Clients, NEW i \in DOMAIN jobs'[e], NEW o \in DOMAIN jobs'[e]
                 PROVE  /\ jobs'[e][o].landed <= writes
                        /\ jobs'[e][i].phase = "read" /\ jobs'[e][o].phase \in {"written", "done"} =>
                                jobs'[e][o].landed <= jobs'[e][i].seen
      BY DEF ReadIsCurrent
    <2>1. \A k \in DOMAIN jobs'[e] :
            \/ k \in DOMAIN jobs[e] /\ jobs'[e][k] = jobs[e][k]
            \/ jobs'[e][k].phase = "queued" /\ jobs'[e][k].landed = 0
      <3>1. CASE e # c
        BY <1>4, <3>1
      <3>2. CASE e = c
        BY <1>1, <1>2, <1>3, <3>2
      <3> QED BY <3>1, <3>2
    <2>2. jobs'[e][o].landed <= writes
      <3>1. CASE o \in DOMAIN jobs[e] /\ jobs'[e][o] = jobs[e][o]
        BY <3>1 DEF PrefsInv, ReadIsCurrent
      <3>2. CASE jobs'[e][o].landed = 0
        BY <1>1, <3>2
      <3> QED BY <2>1, <3>1, <3>2
    <2>3. ASSUME jobs'[e][i].phase = "read", jobs'[e][o].phase \in {"written", "done"}
          PROVE  jobs'[e][o].landed <= jobs'[e][i].seen
      <3>1. /\ i \in DOMAIN jobs[e] /\ jobs'[e][i] = jobs[e][i]
            /\ o \in DOMAIN jobs[e] /\ jobs'[e][o] = jobs[e][o]
        BY <2>1, <2>3
      <3> QED BY <2>3, <3>1 DEF PrefsInv, ReadIsCurrent
    <2> QED BY <2>2, <2>3
  <1> QED BY <1>5, <1>7, <1>8, <1>9 DEF PrefsInv

(* The cycles a call starts are a sequence of some length.                  *)
LEMMA CyclesAreFew ==
    ASSUME NEW op \in Calls
    PROVE  \E m \in Nat : CyclesOf(op) = [i \in 1..m |-> CyclesOf(op)[i]]
  <1>0. IsFiniteSet(1..1) /\ \A x : DOMAIN <<x>> = 1..1
    <2>1. 1 \in Int
      OBVIOUS
    <2>2. IsFiniteSet(1..1)
      BY <2>1, FS_Interval, Zenon
    <2>3. \A x : DOMAIN <<x>> = 1..1
      OBVIOUS
    <2> QED BY <2>2, <2>3
  <1> DEFINE PerWord(call) == MapSeq(LAMBDA w : [call |-> call, word |-> w], op.words)
             NotEmpty(o) == o.call = "addMutedWord" => SanitizeMutedWordValue(o.word.value) # <<>>
             cycles == CASE op.call = "addMutedWords"    -> PerWord("addMutedWord")
                         [] op.call = "removeMutedWords" -> PerWord("removeMutedWord")
                         [] OTHER                        -> <<WithIds(op)>>
             I == {i \in DOMAIN cycles : NotEmpty(cycles[i])}
  <1>1. IsFiniteSet(DOMAIN cycles)
    <2>1. CASE op.call \in {"addMutedWords", "removeMutedWords"}
      <3>1. DOMAIN cycles = DOMAIN op.words
        BY <2>1 DEF MapSeq
      <3>2. Len(op.words) \in Nat /\ DOMAIN op.words = 1..Len(op.words)
        BY <2>1, ScenariosAssumption, SeqFacts DEF IsList
      <3>3. IsFiniteSet(1..Len(op.words))
        BY <3>2, FS_Interval
      <3> QED BY <3>1, <3>2, <3>3
    <2>2. CASE op.call \notin {"addMutedWords", "removeMutedWords"}
      <3>1. cycles = <<WithIds(op)>>
        BY <2>2
      <3> HIDE DEF cycles
      <3> QED BY <1>0, <3>1
    <2> QED BY <2>1, <2>2
  <1>2. I \subseteq DOMAIN cycles /\ CyclesOf(op) = Keep(cycles, I)
    BY DEF CyclesOf
  <1> HIDE DEF I, cycles
  <1>3. Cardinality(I) \in Nat
    BY <1>1, <1>2, FS_Subset, FS_CardinalityType
  <1>4. CyclesOf(op) = [k \in 1..Cardinality(I) |-> CyclesOf(op)[k]]
    BY <1>2 DEF Keep, Ranked
  <1> QED BY <1>3, <1>4

(* Every step of the preference calls keeps the invariant.                  *)
LEMMA PrefsKeeps ==
    ASSUME PrefsInv, scenario \in DOMAIN Scenarios, PrefsNext
    PROVE  PrefsInv' /\ scenario' = scenario
  <1>1. ASSUME UNCHANGED <<issued, jobs, tail, writes>>
        PROVE  PrefsInv'
    BY <1>1 DEF PrefsInv, PrefsTypeOK, Chained, OneAtATime, ReadIsCurrent, SettledBefore
  <1>2. ASSUME NEW c \in Clients, NEW g \in DOMAIN gets[c], GetStep(c, g) \/ GetFails(c, g)
        PROVE  PrefsInv' /\ scenario' = scenario
    <2>1. CASE GetMigrates(c, g)
      <3> DEFINE ops == <<[call |-> "overwriteSavedFeeds",
                           feeds |-> MigratedFeeds(gets[c][g].base, tids)]>>
      <3>1. Chain(c, ops, TRUE) /\ UNCHANGED <<scenario, issued, writes>>
        BY <2>1 DEF GetMigrates
      <3>2. ops = [i \in 1..1 |-> ops[i]]
        OBVIOUS
      <3>3. issued' \in [Clients -> Nat]
        BY <3>1 DEF PrefsInv, PrefsTypeOK
      <3> HIDE DEF ops
      <3> QED BY <3>1, <3>2, <3>3, ChainKeeps
    <2>2. CASE ~ GetMigrates(c, g)
      <3>1. UNCHANGED <<issued, jobs, tail, writes, scenario>>
        BY <1>2, <2>2 DEF GetStep, GetFails, GetRead, GetReturns, GetSettles
      <3> QED BY <1>1, <3>1
    <2> QED BY <2>1, <2>2
  <1>3. ASSUME NEW c \in Clients, NEW j \in DOMAIN jobs[c],
               CycleStep(c, j) \/ Fail(c, j) \/ GiveUp(c, j) \/ LandLate(c, j)
        PROVE  PrefsInv' /\ scenario' = scenario
    <2>1. scenario' = scenario
      BY <1>3 DEF CycleStep, Read, SkipWrite, Put, Answer, Cleanup, Fail, GiveUp, LandLate
    <2>2. PrefsInv'
      BY <1>3, CycleKeeps
    <2> QED BY <2>1, <2>2
  <1>4. ASSUME NEW c \in Clients, Call(c)
        PROVE  PrefsInv' /\ scenario' = scenario
    <2> DEFINE op == Script(c)[issued[c] + 1]
    <2>1. /\ UNCHANGED <<scenario, writes>> /\ issued[c] < Len(Script(c))
          /\ issued' = [issued EXCEPT ![c] = @ + 1]
          /\ UNCHANGED <<jobs, tail>> \/ Chain(c, CyclesOf(op), FALSE)
      BY <1>4 DEF Call
    <2>2. op \in Calls
      <3>1. Script(c) \in Seq(Calls)
        BY ScenariosAssumption DEF Script
      <3>2. issued[c] \in Nat /\ Len(Script(c)) \in Nat
        BY <3>1, LenProperties DEF PrefsInv, PrefsTypeOK
      <3>3. issued[c] + 1 \in 1..Len(Script(c))
        BY <2>1, <3>2
      <3> QED BY <3>1, <3>3, LenProperties
    <2>3. issued' \in [Clients -> Nat]
      BY <2>1 DEF PrefsInv, PrefsTypeOK
    <2>4. CASE Chain(c, CyclesOf(op), FALSE)
      <3> HIDE DEF op
      <3>1. PICK m \in Nat : CyclesOf(op) = [i \in 1..m |-> CyclesOf(op)[i]]
        BY <2>2, CyclesAreFew
      <3>2. PrefsInv'
        BY <2>1, <2>3, <2>4, <3>1, ChainKeeps
      <3> QED BY <2>1, <3>2
    <2>5. CASE UNCHANGED <<jobs, tail>>
      BY <2>1, <2>3, <2>5 DEF PrefsInv, PrefsTypeOK, Chained, OneAtATime, ReadIsCurrent, SettledBefore
    <2> QED BY <2>1, <2>4, <2>5
  <1> QED BY <1>2, <1>3, <1>4 DEF PrefsNext, PrefsStep

-------------------------------------------------------------------------------
(* The profile updates *)

(* A step of one call keeps the others as they are, and the invariant when  *)
(* the call's next state is one.                                            *)
LEMMA UpsertStep ==
    ASSUME ProfileInv, NEW c \in Callers, NEW r, r = [f \in CallFields |-> r[f]], SetUpsert(c, r),
           r.phase = "put" =>
             r.updated = Record((IF r.existing # None /\ r.existing.valid
                                 THEN r.existing.changes ELSE {}) \cup {c}, TRUE)
    PROVE  /\ ProfileInv' /\ upserts'[c] = r
           /\ \A d \in Callers : d # c => upserts'[d] = upserts[d]
  <1>1. /\ upserts' = [d \in Callers |-> upserts'[d]] /\ upserts'[c] = r
        /\ \A d \in Callers : d # c => upserts'[d] = upserts[d]
    BY DEF SetUpsert, ProfileInv
  <1>2. \A d \in Callers : upserts'[d] = [f \in CallFields |-> upserts'[d][f]]
    <2> SUFFICES ASSUME NEW d \in Callers PROVE upserts'[d] = [f \in CallFields |-> upserts'[d][f]]
      OBVIOUS
    <2>1. CASE d = c
      BY <1>1, <2>1
    <2>2. CASE d # c
      <3>1. upserts'[d] = upserts[d] /\ upserts[d] = [f \in CallFields |-> upserts[d][f]]
        BY <1>1, <2>2 DEF ProfileInv
      <3> QED BY <3>1
    <2> QED BY <2>1, <2>2
  <1>3. \A d \in Callers : upserts'[d].phase = "put" =>
            upserts'[d].updated =
              Record((IF upserts'[d].existing # None /\ upserts'[d].existing.valid
                      THEN upserts'[d].existing.changes ELSE {}) \cup {d}, TRUE)
    <2> SUFFICES ASSUME NEW d \in Callers, upserts'[d].phase = "put"
                 PROVE  upserts'[d].updated =
                          Record((IF upserts'[d].existing # None /\ upserts'[d].existing.valid
                                  THEN upserts'[d].existing.changes ELSE {}) \cup {d}, TRUE)
      OBVIOUS
    <2>1. CASE d = c
      BY <1>1, <2>1
    <2>2. CASE d # c
      <3>1. upserts'[d] = upserts[d]
        BY <1>1, <2>2
      <3> QED BY <3>1 DEF ProfileInv, ExistingRecord
    <2> QED BY <2>1, <2>2
  <1> QED BY <1>1, <1>2, <1>3 DEF ProfileInv, ExistingRecord, Record

(* Every step of the profile updates keeps the invariant.                   *)
LEMMA ProfileKeeps ==
    ASSUME ProfileInv, ProfileNext
    PROVE  ProfileInv'
  <1>1. CASE OtherWrites
    BY <1>1 DEF OtherWrites, ProfileInv, ExistingRecord
  <1>2. ASSUME NEW c \in Callers
        PROVE  Get(c) \/ Update(c) \/ UpdateThrows(c) \/ Put_(c) \/ InvalidSwap(c) \/ PutFails(c)
                 => ProfileInv'
    <2> DEFINE v == upserts[c]
    <2>1. v = [f \in CallFields |-> v[f]]
      BY DEF ProfileInv
    <2> HIDE DEF v
    <2>2. ASSUME NEW r, SetUpsert(c, r), r = [f \in CallFields |-> r[f]], r.phase # "put"
          PROVE  ProfileInv'
      BY <2>2, UpsertStep
    <2>3. ASSUME NEW x, SetUpsert(c, [v EXCEPT !.phase = "update", !.existing = x])
          PROVE  ProfileInv'
      <3> DEFINE r == [v EXCEPT !.phase = "update", !.existing = x]
      <3>1. r = [f \in CallFields |-> r[f]] /\ r.phase = "update"
        BY <2>1 DEF CallFields
      <3>2. SetUpsert(c, r)
        BY <2>3
      <3> HIDE DEF r
      <3> QED BY <2>2, <3>1, <3>2
    <2>4. ASSUME NEW p \in {"done", "failed"}, SetUpsert(c, [v EXCEPT !.phase = p])
          PROVE  ProfileInv'
      <3> DEFINE r == [v EXCEPT !.phase = p]
      <3>1. r = [f \in CallFields |-> r[f]] /\ r.phase = p
        BY <2>1 DEF CallFields
      <3>2. SetUpsert(c, r)
        BY <2>4
      <3> HIDE DEF r
      <3> QED BY <2>2, <3>1, <3>2
    <2>5. CASE Get(c)
      <3>1. \E x : SetUpsert(c, [v EXCEPT !.phase = "update", !.existing = x])
        BY <2>5 DEF Get, v
      <3> QED BY <2>3, <3>1
    <2>6. CASE Update(c)
      <3> DEFINE r == [v EXCEPT !.phase = "put", !.updated = Record(ExistingRecord(c) \cup {c}, TRUE)]
      <3>1. /\ r = [f \in CallFields |-> r[f]] /\ r.existing = v.existing
            /\ r.updated = Record(ExistingRecord(c) \cup {c}, TRUE)
        BY <2>1 DEF CallFields
      <3>2. SetUpsert(c, r)
        BY <2>6 DEF Update, v
      <3> HIDE DEF r
      <3>3. r.updated = Record((IF r.existing # None /\ r.existing.valid
                                THEN r.existing.changes ELSE {}) \cup {c}, TRUE)
        BY <3>1 DEF ExistingRecord, v
      <3> QED BY <3>1, <3>2, <3>3, UpsertStep
    <2>7. CASE UpdateThrows(c) \/ Put_(c) \/ PutFails(c)
      BY <2>4, <2>7 DEF UpdateThrows, Put_, PutFails, v
    <2>8. CASE InvalidSwap(c)
      <3>1. CASE v.attempt = MAX_RETRIES - 1
        BY <2>4, <2>8, <3>1 DEF InvalidSwap, v
      <3>2. CASE v.attempt # MAX_RETRIES - 1
        <4> DEFINE r == [v EXCEPT !.phase = "get", !.attempt = @ + 1]
        <4>1. r = [f \in CallFields |-> r[f]] /\ r.phase = "get"
          BY <2>1 DEF CallFields
        <4>2. SetUpsert(c, r)
          BY <2>8, <3>2 DEF InvalidSwap, v
        <4> HIDE DEF r
        <4> QED BY <2>2, <4>1, <4>2
      <3> QED BY <3>1, <3>2
    <2> QED BY <2>5, <2>6, <2>7, <2>8
  <1> QED BY <1>1, <1>2 DEF ProfileNext

(* A put that changes the profile is its call's own, and the call read the  *)
(* profile it replaces: what it puts is that one with its own change added. *)
LEMMA SwapHonoured ==
    ASSUME ProfileInv, ProfileNext, NEW c \in Callers, Landed(c), upserts[c].existing # None,
           profile # None, profile.valid
    PROVE  profile.changes \subseteq profile'.changes
  <1>1. PICK d \in Callers : Put_(d)
    BY DEF ProfileNext, Landed, OtherWrites, Get, Update, UpdateThrows, InvalidSwap, PutFails
  <1>2. d = c
    <2>1. \E p : upserts' = [upserts EXCEPT ![d] = p]
      BY <1>1 DEF Put_, SetUpsert
    <2>2. d # c => upserts'[c] = upserts[c]
      BY <2>1 DEF ProfileInv
    <2> QED BY <2>2 DEF Landed
  <1>3. upserts[c].existing = profile /\ profile' = upserts[c].updated /\ upserts[c].phase = "put"
    BY <1>1, <1>2 DEF Put_, SwapHolds
  <1>4. profile' = Record(profile.changes \cup {c}, TRUE)
    BY <1>3 DEF ProfileInv, ExistingRecord
  <1> QED BY <1>4 DEF Record

-------------------------------------------------------------------------------
(* The TIDs *)

(* Steps of the clock and draws keep the invariant.                         *)
LEMMA TidKeeps ==
    ASSUME TidInv, TidNext
    PROVE  TidInv'
  <1>1. CASE ClockSet
    BY <1>1, TidAssumption DEF ClockSet, TidInv, Encoded
  <1>2. CASE NextTid
    <2>1. Now \in Nat
      BY DEF TidInv, Now
    <2>2. /\ tidLastTime' = Now /\ tidTimestampCount' \in Nat /\ clock' = clock
          /\ lastTid' = Encoded(Now * PerMs + tidTimestampCount', tidClockid')
      BY <1>2 DEF NextTid, TidInv
    <2>3. tidClockid' \in 0 .. ClockIds - 1 /\ tidClockid' # None
      BY <1>2, TidAssumption DEF NextTid, TidInv
    <2> QED BY <2>1, <2>2, <2>3 DEF TidInv, Encoded
  <1> QED BY <1>1, <1>2 DEF TidNext

(* Products ascend with their first factor.                                 *)
LEMMA ProductsAscend ==
    ASSUME NEW m \in Nat, NEW a \in Nat, NEW b \in Nat, a <= b
    PROVE  a * m \in Nat /\ a * m <= b * m
  <1>1. PICK d \in Nat : b = a + d
    <2>1. b - a \in Nat /\ b = a + (b - a)
      OBVIOUS
    <2> QED BY <2>1
  <1>2. b * m = a * m + d * m /\ d * m \in Nat /\ a * m \in Nat
    BY <1>1
  <1> QED BY <1>2

(* A TID drawn while its millisecond has room sorts above the last one.     *)
LEMMA DrawAscends ==
    ASSUME TidInv, NextTid, lastTid # None, tidTimestampCount < PerMs
    PROVE  lastTid' > lastTid
  <1> DEFINE t == tidLastTime * PerMs + tidTimestampCount
             u == Now * PerMs + tidTimestampCount'
  <1>1. /\ PerMs \in Nat \ {0} /\ ClockIds \in Nat \ {0} /\ clock \in Nat /\ tidLastTime \in Nat
        /\ tidTimestampCount \in Nat /\ Now \in Nat /\ tidLastTime <= Now
    BY TidAssumption DEF TidInv, Now
  <1>2. tidClockid \in 0 .. ClockIds - 1 /\ tidClockid' = tidClockid /\ tidClockid \in Nat
    BY TidAssumption DEF TidInv, NextTid
  <1>3. lastTid = t * ClockIds + tidClockid /\ lastTid' = u * ClockIds + tidClockid
    BY <1>2 DEF TidInv, NextTid, Encoded
  <1>4. tidTimestampCount' \in Nat
    BY <1>1 DEF NextTid
  <1>5. t \in Nat /\ u \in Nat /\ t + 1 <= u
    <2>1. tidLastTime * PerMs \in Nat
      BY <1>1
    <2>2. CASE Now = tidLastTime
      <3>1. tidTimestampCount' = tidTimestampCount + 1
        BY <2>2 DEF NextTid
      <3> QED BY <1>1, <2>1, <2>2, <3>1
    <2>3. CASE Now # tidLastTime
      <3>1. tidTimestampCount' = 0 /\ tidLastTime + 1 <= Now
        BY <1>1, <2>3 DEF NextTid
      <3>2. (tidLastTime + 1) * PerMs <= Now * PerMs /\ Now * PerMs \in Nat
        BY <1>1, <3>1, ProductsAscend
      <3>3. (tidLastTime + 1) * PerMs = tidLastTime * PerMs + PerMs
        BY <1>1
      <3> HIDE DEF Now
      <3> QED BY <1>1, <2>1, <3>1, <3>2, <3>3
    <2> QED BY <2>2, <2>3
  <1> HIDE DEF t, u
  <1>6. (t + 1) * ClockIds <= u * ClockIds /\ t * ClockIds \in Nat /\ u * ClockIds \in Nat
    BY <1>1, <1>5, ProductsAscend
  <1>7. (t + 1) * ClockIds = t * ClockIds + ClockIds
    BY <1>1, <1>5
  <1> QED BY <1>1, <1>2, <1>3, <1>6, <1>7

-------------------------------------------------------------------------------
(* The access of a person *)

(* The rules cannot tell two people of the same ages apart, once a third    *)
(* party has assured theirs.                                                *)
LEMMA SameRulesHold ==
    ASSUME NEW a, NEW b, a.declaredAge = b.declaredAge, a.assuredAge = b.assuredAge, Assured(b)
    PROVE  \A filters : AccessOf(a, filters) = AccessOf(b, filters)
  <1>1. ~ CreationCounts(a) /\ ~ CreationCounts(b)
    BY DEF CreationCounts, Assured, Known
  <1>2. Assured(a)
    BY DEF Assured, Known
  <1>3. ASSUME NEW rule
        PROVE  RuleHolds(rule, a) <=> RuleHolds(rule, b)
    BY <1>1, <1>2 DEF RuleHolds, Known
  <1>4. ASSUME NEW region
        PROVE  ComputeAgeAssuranceRegionAccess(region, a) = ComputeAgeAssuranceRegionAccess(region, b)
    <2>1. {i \in DOMAIN region.rules : RuleHolds(region.rules[i], a)}
            = {i \in DOMAIN region.rules : RuleHolds(region.rules[i], b)}
      BY <1>3
    <2> QED BY <2>1 DEF ComputeAgeAssuranceRegionAccess
  <1> QED BY <1>4 DEF AccessOf

-------------------------------------------------------------------------------
(* Selecting and sorting *)

Weighed(kept, weight) ==
    /\ kept \in SUBSET Nat /\ IsFiniteSet(kept)
    /\ \A i \in kept : weight[i] \in Nat

(* Positions are ranked by weight, then by place: every rank is taken once. *)
LEMMA RankFacts ==
    ASSUME NEW kept, NEW weight, Weighed(kept, weight)
    PROVE  /\ Cardinality(kept) \in Nat
           /\ \A j \in kept : Cardinality(UpTo(j, kept, weight)) \in 1..Cardinality(kept)
           /\ \A i, j \in kept :
                (weight[i] < weight[j] \/ (weight[i] = weight[j] /\ i <= j))
                  <=> Cardinality(UpTo(i, kept, weight)) <= Cardinality(UpTo(j, kept, weight))
           /\ \A i, j \in kept :
                Cardinality(UpTo(i, kept, weight)) = Cardinality(UpTo(j, kept, weight)) => i = j
           /\ \A n \in 1..Cardinality(kept) :
                \E j \in kept : Cardinality(UpTo(j, kept, weight)) = n
  <1> DEFINE Rank(j) == Cardinality(UpTo(j, kept, weight))
             N == Cardinality(kept)
             Leads(i, j) == weight[i] < weight[j] \/ (weight[i] = weight[j] /\ i <= j)
  <1>1. /\ \A i \in kept : i \in Nat /\ weight[i] \in Nat
        /\ IsFiniteSet(kept)
    BY DEF Weighed
  <1>2. N \in Nat
    BY <1>1, FS_CardinalityType
  <1>3. \A j \in kept : UpTo(j, kept, weight) \in SUBSET kept
    BY DEF UpTo
  <1>4. \A j \in kept : IsFiniteSet(UpTo(j, kept, weight)) /\ Rank(j) \in Nat /\ Rank(j) <= N
    <2> TAKE j \in kept
    <2>1. IsFiniteSet(UpTo(j, kept, weight)) /\ Rank(j) <= N
      BY <1>1, <1>3, FS_Subset
    <2> QED BY <2>1, FS_CardinalityType
  <1>5. \A j \in kept : Rank(j) >= 1
    <2> TAKE j \in kept
    <2>1. j \in UpTo(j, kept, weight)
      BY <1>1 DEF UpTo
    <2>2. Rank(j) # 0
      BY <2>1, <1>4, FS_EmptySet
    <2>3. Rank(j) \in Nat
      BY <1>4
    <2> HIDE DEF Rank
    <2> QED BY <2>2, <2>3
  <1>6. \A j \in kept : Rank(j) \in 1..N
    <2> HIDE DEF Rank, N
    <2> QED BY <1>2, <1>4, <1>5
  <1>7. \A i, j \in kept : Leads(i, j) => Rank(i) <= Rank(j)
    <2> SUFFICES ASSUME NEW i \in kept, NEW j \in kept, Leads(i, j)
                 PROVE  Rank(i) <= Rank(j)
      OBVIOUS
    <2>1. \A k \in kept : Leads(k, i) => Leads(k, j)
      <3> SUFFICES ASSUME NEW k \in kept, Leads(k, i) PROVE Leads(k, j)
        OBVIOUS
      <3>1. /\ i \in Nat /\ j \in Nat /\ k \in Nat
            /\ weight[i] \in Nat /\ weight[j] \in Nat /\ weight[k] \in Nat
        BY <1>1
      <3> QED BY <3>1
    <2>2. UpTo(i, kept, weight) \in SUBSET UpTo(j, kept, weight)
      BY <2>1 DEF UpTo
    <2> QED BY <2>2, <1>4, FS_Subset
  <1>8. \A i, j \in kept : ~Leads(i, j) => Rank(j) < Rank(i)
    <2> SUFFICES ASSUME NEW i \in kept, NEW j \in kept, ~Leads(i, j)
                 PROVE  Rank(j) < Rank(i)
      OBVIOUS
    <2>1. /\ i \in Nat /\ j \in Nat /\ weight[i] \in Nat /\ weight[j] \in Nat
      BY <1>1
    <2>2. Leads(j, i)
      BY <2>1
    <2>3. Rank(j) <= Rank(i)
      BY <2>2, <1>7
    <2>4. \A k \in kept : Leads(k, j) => Leads(k, i)
      <3> SUFFICES ASSUME NEW k \in kept, Leads(k, j) PROVE Leads(k, i)
        OBVIOUS
      <3>1. /\ k \in Nat /\ weight[k] \in Nat
        BY <1>1
      <3> QED BY <3>1, <2>1, <2>2
    <2>5. UpTo(j, kept, weight) \in SUBSET UpTo(i, kept, weight)
      BY <2>4 DEF UpTo
    <2>6. i \in UpTo(i, kept, weight) /\ i \notin UpTo(j, kept, weight)
      BY <2>1 DEF UpTo
    <2>7. Rank(j) # Rank(i)
      BY <2>5, <2>6, <1>4, FS_Subset
    <2>8. Rank(i) \in Nat /\ Rank(j) \in Nat
      BY <1>4
    <2> HIDE DEF Rank
    <2> QED BY <2>3, <2>7, <2>8
  <1>9. \A i, j \in kept : Leads(i, j) <=> Rank(i) <= Rank(j)
    <2> TAKE i, j \in kept
    <2>1. Rank(i) \in Nat /\ Rank(j) \in Nat
      BY <1>4
    <2>2. Leads(i, j) => Rank(i) <= Rank(j)
      BY <1>7
    <2>3. ~Leads(i, j) => Rank(j) < Rank(i)
      BY <1>8
    <2> HIDE DEF Rank, Leads
    <2> QED BY <2>1, <2>2, <2>3
  <1>10. \A i, j \in kept : Rank(i) = Rank(j) => i = j
    <2> SUFFICES ASSUME NEW i \in kept, NEW j \in kept, Rank(i) = Rank(j) PROVE i = j
      OBVIOUS
    <2>1. /\ i \in Nat /\ j \in Nat /\ weight[i] \in Nat /\ weight[j] \in Nat
      BY <1>1
    <2>2. Rank(i) \in Nat /\ Rank(j) \in Nat
      BY <1>4
    <2>3. Rank(i) <= Rank(j) /\ Rank(j) <= Rank(i)
      <3> HIDE DEF Rank
      <3> QED BY <2>2
    <2>4. Leads(i, j) /\ Leads(j, i)
      BY <2>3, <1>9
    <2> QED BY <2>1, <2>4
  <1>11. \A n \in 1..N : \E j \in kept : Rank(j) = n
    <2> DEFINE f == [j \in kept |-> Rank(j)]
    <2>1. f \in Injection(kept, 1..N)
      <3>1. f \in [kept -> 1..N]
        <4> HIDE DEF Rank, N
        <4> QED BY <1>6
      <3>2. \A i, j \in kept : f[i] = f[j] => i = j
        <4> HIDE DEF Rank
        <4> QED BY <1>10
      <3>3. DOMAIN f = kept
        OBVIOUS
      <3> HIDE DEF f
      <3> QED BY <3>1, <3>2, <3>3 DEF Injection, IsInjective
    <2>2. IsFiniteSet(1..N) /\ Cardinality(1..N) = N
      BY <1>2, FS_Interval
    <2>3. f \in Surjection(kept, 1..N)
      <3> HIDE DEF f
      <3> QED BY <2>1, <2>2, FS_Injection
    <2>4. \A n \in 1..N : \E j \in kept : f[j] = n
      <3> HIDE DEF f
      <3> QED BY <2>3 DEF Surjection
    <2> HIDE DEF Rank
    <2> QED BY <2>4
  <1> QED BY <1>2, <1>6, <1>9, <1>10, <1>11

(* What a sort of some elements holds, at which place.                      *)
LEMMA RankedFacts ==
    ASSUME NEW s, NEW kept, NEW weight, Weighed(kept, weight)
    PROVE  LET r == Ranked(s, kept, weight)
           IN /\ r \in Seq(ToSet(r)) /\ Len(r) = Cardinality(kept)
              /\ Cardinality(kept) \in Nat /\ DOMAIN r = 1..Cardinality(kept)
              /\ \A n \in DOMAIN r : \E j \in kept :
                    Cardinality(UpTo(j, kept, weight)) = n /\ r[n] = s[j]
              /\ \A j \in kept : /\ Cardinality(UpTo(j, kept, weight)) \in DOMAIN r
                                 /\ r[Cardinality(UpTo(j, kept, weight))] = s[j]
  <1> DEFINE r == Ranked(s, kept, weight)
             N == Cardinality(kept)
             At(n) == CHOOSE j \in kept : Cardinality(UpTo(j, kept, weight)) = n
  <1>1. /\ N \in Nat
        /\ \A j \in kept : Cardinality(UpTo(j, kept, weight)) \in 1..N
        /\ \A i, j \in kept :
             Cardinality(UpTo(i, kept, weight)) = Cardinality(UpTo(j, kept, weight)) => i = j
        /\ \A n \in 1..N : \E j \in kept : Cardinality(UpTo(j, kept, weight)) = n
    BY RankFacts
  <1>2. r = [n \in 1..N |-> s[At(n)]]
    BY DEF Ranked
  <1>3. \A n \in 1..N : At(n) \in kept /\ Cardinality(UpTo(At(n), kept, weight)) = n
    BY <1>1
  <1> HIDE DEF At, N, r
  <1>4. r = [n \in 1..N |-> r[n]] /\ \A n \in 1..N : r[n] = s[At(n)]
    BY <1>2
  <1>5. r \in Seq(ToSet(r)) /\ Len(r) = N /\ DOMAIN r = 1..N
    BY <1>1, <1>4, AsSeq
  <1>6. \A n \in DOMAIN r : \E j \in kept :
              Cardinality(UpTo(j, kept, weight)) = n /\ r[n] = s[j]
    BY <1>3, <1>4, <1>5
  <1>7. \A j \in kept : At(Cardinality(UpTo(j, kept, weight))) = j
    BY <1>1, <1>3
  <1>8. \A j \in kept : /\ Cardinality(UpTo(j, kept, weight)) \in DOMAIN r
                        /\ r[Cardinality(UpTo(j, kept, weight))] = s[j]
    BY <1>1, <1>4, <1>5, <1>7
  <1> QED BY <1>1, <1>5, <1>6, <1>8 DEF N, r

(* It holds those elements and no others.                                   *)
LEMMA RankedElements ==
    ASSUME NEW s, NEW kept, NEW weight, Weighed(kept, weight)
    PROVE  ToSet(Ranked(s, kept, weight)) = { s[j] : j \in kept }
  <1> DEFINE r == Ranked(s, kept, weight)
  <1>1. /\ \A n \in DOMAIN r : \E j \in kept : r[n] = s[j]
        /\ \A j \in kept : \E n \in DOMAIN r : r[n] = s[j]
    BY RankedFacts
  <1> HIDE DEF r
  <1>2. ToSet(r) = { s[j] : j \in kept }
    BY <1>1 DEF ToSet
  <1> QED BY <1>2 DEF r

(* The first one is of the least weight.                                    *)
LEMMA RankedFirst ==
    ASSUME NEW s, NEW kept, NEW weight, Weighed(kept, weight), NEW j \in kept
    PROVE  \E i \in kept : Ranked(s, kept, weight)[1] = s[i] /\ weight[i] <= weight[j]
  <1> DEFINE r == Ranked(s, kept, weight)
             Rank(i) == Cardinality(UpTo(i, kept, weight))
  <1>1. /\ Cardinality(kept) \in Nat /\ DOMAIN r = 1..Cardinality(kept)
        /\ \A n \in DOMAIN r : \E i \in kept : Rank(i) = n /\ r[n] = s[i]
        /\ Rank(j) \in DOMAIN r
    BY RankedFacts
  <1>2. \A i \in kept : (weight[i] < weight[j] \/ (weight[i] = weight[j] /\ i <= j)) <=> Rank(i) <= Rank(j)
    BY RankFacts
  <1>3. \A i \in kept : i \in Nat /\ weight[i] \in Nat
    BY DEF Weighed
  <1> HIDE DEF r, Rank
  <1>4. 1 \in DOMAIN r /\ 1 <= Rank(j)
    BY <1>1
  <1>5. PICK i \in kept : Rank(i) = 1 /\ r[1] = s[i]
    BY <1>1, <1>4
  <1>6. weight[i] <= weight[j]
    BY <1>2, <1>3, <1>4, <1>5
  <1> QED BY <1>5, <1>6 DEF r

(* Two sorts agree when the elements they are of correspond, in order.      *)
LEMMA RankedSame ==
    ASSUME NEW s, NEW kept, NEW weight, Weighed(kept, weight),
           NEW t, NEW kept2, NEW weight2, Weighed(kept2, weight2),
           NEW h \in Bijection(kept, kept2),
           \A i \in kept : s[i] = t[h[i]],
           \A i, j \in kept :
                (weight[i] < weight[j] \/ (weight[i] = weight[j] /\ i <= j))
                  <=> (weight2[h[i]] < weight2[h[j]] \/ (weight2[h[i]] = weight2[h[j]] /\ h[i] <= h[j]))
    PROVE  Ranked(s, kept, weight) = Ranked(t, kept2, weight2)
  <1> DEFINE r == Ranked(s, kept, weight)
             q == Ranked(t, kept2, weight2)
             Rank(i) == Cardinality(UpTo(i, kept, weight))
             Rank2(i) == Cardinality(UpTo(i, kept2, weight2))
  <1>1. /\ h \in [kept -> kept2]
        /\ \A i, j \in kept : h[i] = h[j] => i = j
        /\ \A k \in kept2 : \E i \in kept : h[i] = k
    BY DEF Bijection, Injection, Surjection, IsInjective
  <1>2. IsFiniteSet(kept)
    BY DEF Weighed
  <1>3. Cardinality(kept2) = Cardinality(kept)
    BY <1>2, FS_Bijection DEF ExistsBijection
  <1>4. \A j \in kept : Rank2(h[j]) = Rank(j)
    <2> TAKE j \in kept
    <2> DEFINE A == UpTo(j, kept, weight)
               B == UpTo(h[j], kept2, weight2)
               g == [i \in A |-> h[i]]
    <2>1. A \in SUBSET kept /\ B \in SUBSET kept2
      BY DEF UpTo
    <2>2. \A i \in kept : i \in A <=> h[i] \in B
      BY <1>1 DEF UpTo
    <2>3. IsFiniteSet(A)
      BY <1>2, <2>1, FS_Subset
    <2> HIDE DEF A, B
    <2>4. g \in [A -> B] /\ DOMAIN g = A
      BY <2>1, <2>2
    <2>5. \A i, k \in A : g[i] = g[k] => i = k
      BY <1>1, <2>1
    <2>6. \A k \in B : \E i \in A : g[i] = k
      BY <1>1, <2>1, <2>2
    <2>7. g \in Bijection(A, B)
      <3> HIDE DEF g
      <3> QED BY <2>4, <2>5, <2>6 DEF Bijection, Injection, Surjection, IsInjective
    <2>8. Cardinality(B) = Cardinality(A)
      <3> HIDE DEF g
      <3> QED BY <2>3, <2>7, FS_Bijection DEF ExistsBijection
    <2> QED BY <2>8 DEF A, B
  <1>5. /\ r \in Seq(ToSet(r)) /\ Len(r) = Cardinality(kept) /\ DOMAIN r = 1..Cardinality(kept)
        /\ \A n \in DOMAIN r : \E j \in kept : Rank(j) = n /\ r[n] = s[j]
    BY RankedFacts
  <1>6. /\ q \in Seq(ToSet(q)) /\ Len(q) = Cardinality(kept2) /\ DOMAIN q = 1..Cardinality(kept2)
        /\ \A j \in kept2 : q[Rank2(j)] = t[j]
    BY RankedFacts
  <1> HIDE DEF r, q, Rank, Rank2
  <1>7. \A n \in DOMAIN r : r[n] = q[n]
    <2> TAKE n \in DOMAIN r
    <2>1. PICK j \in kept : Rank(j) = n /\ r[n] = s[j]
      BY <1>5
    <2>2. h[j] \in kept2 /\ Rank2(h[j]) = n
      BY <1>1, <1>4, <2>1
    <2>3. q[n] = t[h[j]]
      BY <1>6, <2>2
    <2> QED BY <2>1, <2>3
  <1>8. /\ r = [i \in 1..Len(r) |-> r[i]] /\ q = [i \in 1..Len(q) |-> q[i]]
    BY <1>5, <1>6, SeqFacts
  <1>9. r = q
    BY <1>3, <1>5, <1>6, <1>7, <1>8
  <1> QED BY <1>9 DEF r, q

-------------------------------------------------------------------------------
(* Decisions and what they lock *)

CauseFields == {"type", "source", "priority", "behavior", "downgraded", "label", "target",
                "setting", "noOverride"}
CauseTypes == Blocks \union {"muted", "mute-word", "hidden", "label"}
IsCause(c) ==
    /\ c = [f \in CauseFields |-> c[f]]
    /\ c.type \in CauseTypes /\ c.priority \in Nat /\ c.downgraded \in BOOLEAN
IsCauses(s) == s \in Seq(ToSet(s)) /\ \A i \in DOMAIN s : IsCause(s[i])

(* The decision about the account did with these causes.                    *)
DecisionOf(did, o, causes) == [did |-> did, isMe |-> (did = o.userDid), causes |-> causes]
About(d, did, o) == d = DecisionOf(did, o, d.causes) /\ IsCauses(d.causes)

(* The behaviors that lock whatever they blur.                              *)
Locking(c) == ~c.downgraded /\ (c.type \in Blocks \/ (c.type = "label" /\ c.noOverride))
LocksOf(s) == { c.behavior : c \in { x \in ToSet(s) : Locking(x) } }

Alike(d, e, did, o) == About(d, did, o) /\ About(e, did, o) /\ LocksOf(d.causes) = LocksOf(e.causes)

(* What a decision's record holds, and that setting its causes sets only    *)
(* them.                                                                    *)
LEMMA DecisionFacts ==
    ASSUME NEW did, NEW o, NEW causes
    PROVE  /\ DecisionOf(did, o, causes).did = did
           /\ DecisionOf(did, o, causes).causes = causes
           /\ DecisionOf(did, o, causes).isMe <=> (did = o.userDid)
           /\ \A s : [DecisionOf(did, o, causes) EXCEPT !.causes = s] = DecisionOf(did, o, s)
  <1> DEFINE me == (did = o.userDid)
  <1>1. DecisionOf(did, o, causes) = [did |-> did, isMe |-> me, causes |-> causes]
    BY DEF DecisionOf
  <1>2. \A s : DecisionOf(did, o, s) = [did |-> did, isMe |-> me, causes |-> s]
    BY DEF DecisionOf
  <1>3. me <=> (did = o.userDid)
    OBVIOUS
  <1> HIDE DEF me
  <1>4. DecisionOf(did, o, causes).isMe = me
    BY <1>1
  <1>5. DecisionOf(did, o, causes).did = did /\ DecisionOf(did, o, causes).causes = causes
    BY <1>1
  <1>6. \A s : [DecisionOf(did, o, causes) EXCEPT !.causes = s] = DecisionOf(did, o, s)
    BY <1>1, <1>2
  <1> QED BY <1>3, <1>4, <1>5, <1>6, Zenon

(* What there is to know of a decision that is about a subject.             *)
LEMMA AboutFacts ==
    ASSUME NEW did, NEW o, NEW d, About(d, did, o)
    PROVE  /\ d.did = did /\ IsCauses(d.causes)
           /\ d.isMe <=> (did = o.userDid)
           /\ \A s : [d EXCEPT !.causes = s] = DecisionOf(did, o, s)
  <1>1. PICK s : d = DecisionOf(did, o, s)
    BY DEF About
  <1>2. d.isMe <=> (did = o.userDid)
    BY <1>1, DecisionFacts, Zenon
  <1>3. d.did = did /\ \A t : [d EXCEPT !.causes = t] = DecisionOf(did, o, t)
    BY <1>1, DecisionFacts
  <1> QED BY <1>2, <1>3 DEF About

(* The elements of a concatenation, by place.                               *)
LEMMA ConcatFacts ==
    ASSUME NEW s, NEW t, s \in Seq(ToSet(s)), t \in Seq(ToSet(t))
    PROVE  /\ s \o t \in Seq(ToSet(s \o t)) /\ Len(s \o t) = Len(s) + Len(t)
           /\ Len(s) \in Nat /\ Len(t) \in Nat
           /\ DOMAIN s = 1..Len(s) /\ DOMAIN t = 1..Len(t) /\ DOMAIN (s \o t) = 1..Len(s) + Len(t)
           /\ \A i \in 1..Len(s) : (s \o t)[i] = s[i]
           /\ \A i \in 1..Len(t) : (s \o t)[Len(s) + i] = t[i]
           /\ \A i \in 1..Len(s) + Len(t) : i > Len(s) => (s \o t)[i] = t[i - Len(s)]
           /\ ToSet(s \o t) = ToSet(s) \union ToSet(t)
  <1> DEFINE S == ToSet(s) \union ToSet(t)
             u == s \o t
  <1>1. s \in Seq(S) /\ t \in Seq(S)
    <2>1. /\ Len(s) \in Nat /\ s = [i \in 1..Len(s) |-> s[i]] /\ \A i \in 1..Len(s) : s[i] \in ToSet(s)
      BY SeqFacts
    <2>2. /\ Len(t) \in Nat /\ t = [i \in 1..Len(t) |-> t[i]] /\ \A i \in 1..Len(t) : t[i] \in ToSet(t)
      BY SeqFacts
    <2>3. s \in [1..Len(s) -> S] /\ t \in [1..Len(t) -> S]
      BY <2>1, <2>2
    <2> QED BY <2>1, <2>2, <2>3, Enlisted
  <1>2. /\ u \in Seq(S) /\ Len(u) = Len(s) + Len(t)
        /\ \A i \in 1..Len(s) + Len(t) : u[i] = IF i <= Len(s) THEN s[i] ELSE t[i - Len(s)]
    BY <1>1, ConcatProperties
  <1>3. /\ Len(s) \in Nat /\ Len(t) \in Nat /\ DOMAIN s = 1..Len(s) /\ DOMAIN t = 1..Len(t)
    BY SeqFacts
  <1>4. DOMAIN u = 1..Len(s) + Len(t) /\ u = [i \in 1..Len(s) + Len(t) |-> u[i]]
    BY <1>2, LenProperties
  <1> HIDE DEF u, S
  <1>5. u \in Seq(ToSet(u))
    <2>1. Len(s) + Len(t) \in Nat
      BY <1>3
    <2> QED BY <1>4, <2>1, AsSeq
  <1>6. /\ \A i \in 1..Len(s) : u[i] = s[i] /\ i \in 1..Len(s) + Len(t)
        /\ \A i \in 1..Len(t) : u[Len(s) + i] = t[i] /\ Len(s) + i \in 1..Len(s) + Len(t)
        /\ \A i \in 1..Len(s) + Len(t) : i > Len(s) => u[i] = t[i - Len(s)] /\ i - Len(s) \in 1..Len(t)
    <2>1. \A a, b \in Nat :
             /\ \A i \in 1..a : i \in 1..a + b /\ i <= a
             /\ \A i \in 1..b : a + i \in 1..a + b /\ ~(a + i <= a) /\ a + i - a = i
             /\ \A i \in 1..a + b : i > a => ~(i <= a) /\ i - a \in 1..b
      OBVIOUS
    <2>2. /\ \A i \in 1..Len(s) : i \in 1..Len(s) + Len(t) /\ i <= Len(s)
          /\ \A i \in 1..Len(t) : /\ Len(s) + i \in 1..Len(s) + Len(t) /\ ~(Len(s) + i <= Len(s))
                                    /\ Len(s) + i - Len(s) = i
          /\ \A i \in 1..Len(s) + Len(t) : i > Len(s) => ~(i <= Len(s)) /\ i - Len(s) \in 1..Len(t)
      BY <2>1, <1>3
    <2>3. \A i \in 1..Len(s) : u[i] = s[i]
      BY <1>2, <2>2
    <2>4. \A i \in 1..Len(t) : u[Len(s) + i] = t[i]
      BY <1>2, <2>2
    <2>5. \A i \in 1..Len(s) + Len(t) : i > Len(s) => u[i] = t[i - Len(s)]
      BY <1>2, <2>2
    <2> QED BY <2>2, <2>3, <2>4, <2>5
  <1>7. ToSet(u) = ToSet(s) \union ToSet(t)
    <2>1. \A x : x \in ToSet(u) <=> \E i \in 1..Len(s) + Len(t) : u[i] = x
      BY <1>4 DEF ToSet
    <2>2. \A x : x \in ToSet(s) <=> \E i \in 1..Len(s) : s[i] = x
      BY <1>3 DEF ToSet
    <2>3. \A x : x \in ToSet(t) <=> \E i \in 1..Len(t) : t[i] = x
      BY <1>3 DEF ToSet
    <2>4. \A i \in 1..Len(s) + Len(t) : i > Len(s) \/ i \in 1..Len(s)
      BY <1>3
    <2>5. \A x : x \in ToSet(u) => x \in ToSet(s) \/ x \in ToSet(t)
      <3> TAKE x
      <3> SUFFICES ASSUME x \in ToSet(u) PROVE x \in ToSet(s) \/ x \in ToSet(t)
        OBVIOUS
      <3>1. PICK i \in 1..Len(s) + Len(t) : u[i] = x
        BY <2>1, Zenon
      <3>2. CASE i \in 1..Len(s)
        BY <1>6, <2>2, <3>1, <3>2, Zenon
      <3>3. CASE i > Len(s)
        BY <1>6, <2>3, <3>1, <3>3, Zenon
      <3> QED BY <2>4, <3>2, <3>3, Zenon
    <2>6. \A x : x \in ToSet(s) => x \in ToSet(u)
      BY <2>1, <2>2, <1>6, Zenon
    <2>7. \A x : x \in ToSet(t) => x \in ToSet(u)
      BY <2>1, <2>3, <1>6, Zenon
    <2> QED BY <2>5, <2>6, <2>7, Zenon
  <1> QED BY <1>2, <1>3, <1>4, <1>5, <1>6, <1>7 DEF u

(* Of two lists of causes in a row, the locks are those of either.          *)
LEMMA CausesConcat ==
    ASSUME NEW s, NEW t, IsCauses(s), IsCauses(t)
    PROVE  IsCauses(s \o t) /\ LocksOf(s \o t) = LocksOf(s) \union LocksOf(t)
  <1>1. s \in Seq(ToSet(s)) /\ t \in Seq(ToSet(t))
    BY DEF IsCauses
  <1>2. /\ s \o t \in Seq(ToSet(s \o t)) /\ DOMAIN (s \o t) = 1..Len(s) + Len(t)
        /\ ToSet(s \o t) = ToSet(s) \union ToSet(t)
    BY <1>1, ConcatFacts
  <1>3. \A c \in ToSet(s) \union ToSet(t) : IsCause(c)
    BY DEF ToSet, IsCauses
  <1>4. \A i \in DOMAIN (s \o t) : (s \o t)[i] \in ToSet(s \o t)
    BY DEF ToSet
  <1>5. IsCauses(s \o t)
    BY <1>2, <1>3, <1>4 DEF IsCauses
  <1>6. LocksOf(s \o t) = LocksOf(s) \union LocksOf(t)
    BY <1>2 DEF LocksOf
  <1> QED BY <1>5, <1>6

(* merge() keeps whom the decision is about, and locks what either locks.   *)
LEMMA MergeAlike ==
    ASSUME NEW o, NEW did, NEW d, NEW e, Alike(d, e, did, o),
           NEW d2, NEW e2, IsCauses(d2.causes), IsCauses(e2.causes),
           LocksOf(d2.causes) = LocksOf(e2.causes)
    PROVE  Alike(Merge(d, d2), Merge(e, e2), did, o)
  <1>1. /\ d = DecisionOf(did, o, d.causes) /\ IsCauses(d.causes)
        /\ e = DecisionOf(did, o, e.causes) /\ IsCauses(e.causes)
        /\ LocksOf(d.causes) = LocksOf(e.causes)
    BY DEF Alike, About
  <1>2. /\ Merge(d, d2) = DecisionOf(did, o, d.causes \o d2.causes)
        /\ Merge(e, e2) = DecisionOf(did, o, e.causes \o e2.causes)
    <2>1. \A s : [d EXCEPT !.causes = s] = DecisionOf(did, o, s)
      BY AboutFacts DEF Alike
    <2>2. \A s : [e EXCEPT !.causes = s] = DecisionOf(did, o, s)
      BY AboutFacts DEF Alike
    <2> QED BY <2>1, <2>2 DEF Merge
  <1>3. /\ Merge(d, d2).causes = d.causes \o d2.causes
        /\ Merge(e, e2).causes = e.causes \o e2.causes
    <2>1. \A s : DecisionOf(did, o, s).causes = s
      BY DecisionFacts
    <2> QED BY <1>2, <2>1, Zenon
  <1>4. IsCauses(d.causes \o d2.causes) /\ LocksOf(d.causes \o d2.causes) = LocksOf(d.causes) \union LocksOf(d2.causes)
    BY <1>1, CausesConcat
  <1>5. IsCauses(e.causes \o e2.causes) /\ LocksOf(e.causes \o e2.causes) = LocksOf(e.causes) \union LocksOf(e2.causes)
    BY <1>1, CausesConcat
  <1> QED BY <1>1, <1>2, <1>3, <1>4, <1>5 DEF Alike, About

(* A decision is like itself; likeness is symmetric.                        *)
LEMMA AlikeSelf ==
    ASSUME NEW o, NEW did, NEW d
    PROVE  Alike(d, d, did, o) <=> About(d, did, o)
  BY DEF Alike

(* The same cause added to both.                                            *)
LEMMA AddCauseAlike ==
    ASSUME NEW o, NEW did, NEW d, NEW e, Alike(d, e, did, o), NEW c, IsCause(c)
    PROVE  Alike(AddCause(d, c), AddCause(e, c), did, o)
  <1>1. IsCauses(<<c>>)
    <2>1. <<c>> \in Seq(ToSet(<<c>>)) /\ DOMAIN <<c>> = 1..1 /\ <<c>>[1] = c
      BY DEF ToSet
    <2> QED BY <2>1 DEF IsCauses
  <1>2. /\ \A s : [d EXCEPT !.causes = s] = DecisionOf(did, o, s)
        /\ \A s : [e EXCEPT !.causes = s] = DecisionOf(did, o, s)
        /\ IsCauses(d.causes) /\ IsCauses(e.causes) /\ LocksOf(d.causes) = LocksOf(e.causes)
    BY AboutFacts DEF Alike
  <1>3. \A s : IsCauses(s) => Append(s, c) = s \o <<c>>
    <2> SUFFICES ASSUME NEW s, IsCauses(s) PROVE Append(s, c) = s \o <<c>>
      OBVIOUS
    <2> DEFINE S == ToSet(s) \union {c}
    <2>1. Len(s) \in Nat /\ s = [i \in 1..Len(s) |-> s[i]] /\ \A i \in 1..Len(s) : s[i] \in ToSet(s)
      BY SeqFacts DEF IsCauses
    <2>2. s \in [1..Len(s) -> S] /\ c \in S
      BY <2>1
    <2> HIDE DEF S
    <2>3. s \in Seq(S)
      BY <2>1, <2>2, Enlisted
    <2> QED BY <2>2, <2>3, AppendIsConcat
  <1>4. \A s : DecisionOf(did, o, s).causes = s
    BY DecisionFacts
  <1>5. /\ AddCause(d, c) = DecisionOf(did, o, d.causes \o <<c>>)
        /\ AddCause(e, c) = DecisionOf(did, o, e.causes \o <<c>>)
    BY <1>2, <1>3 DEF AddCause
  <1>6. /\ AddCause(d, c).causes = d.causes \o <<c>>
        /\ AddCause(e, c).causes = e.causes \o <<c>>
    BY <1>4, <1>5, Zenon
  <1>7. IsCauses(d.causes \o <<c>>) /\ LocksOf(d.causes \o <<c>>) = LocksOf(d.causes) \union LocksOf(<<c>>)
    BY <1>1, <1>2, CausesConcat
  <1>8. IsCauses(e.causes \o <<c>>) /\ LocksOf(e.causes \o <<c>>) = LocksOf(e.causes) \union LocksOf(<<c>>)
    BY <1>1, <1>2, CausesConcat
  <1> QED BY <1>2, <1>5, <1>6, <1>7, <1>8 DEF Alike, About

(* The same cause, added to both or to neither, leaves decisions alike.     *)
LEMMA AddIfAlike ==
    ASSUME NEW o, NEW did, NEW d, NEW e, Alike(d, e, did, o), NEW c, IsCause(c), NEW b
    PROVE  Alike(AddIf(d, b, c), AddIf(e, b, c), did, o)
  BY AddCauseAlike DEF AddIf

(* A cause of a known type.                                                 *)
LEMMA CauseFacts ==
    ASSUME NEW type \in CauseTypes, NEW source, NEW priority \in Nat, NEW behavior
    PROVE  IsCause(Cause(type, source, priority, behavior))
  BY DEF IsCause, Cause, CauseFields

(* Decisions start alike.                                                   *)
LEMMA NewAlike ==
    ASSUME NEW o, NEW did
    PROVE  Alike(NewDecision(did, o), NewDecision(did, o), did, o)
  <1>1. NewDecision(did, o) = DecisionOf(did, o, <<>>)
    BY DEF NewDecision, DecisionOf
  <1>2. NewDecision(did, o).causes = <<>>
    BY <1>1, DecisionFacts
  <1>3. IsCauses(<<>>)
    BY DEF IsCauses, ToSet
  <1> QED BY <1>1, <1>2, <1>3 DEF Alike, About

(* What the user has to do with the author is the same whatever is set.     *)
LEMMA RelationsAlike ==
    ASSUME NEW o, NEW did, NEW d, NEW e, Alike(d, e, did, o), NEW account
    PROVE  Alike(Relations(d, account), Relations(e, account), did, o)
  <1> DEFINE By(list) == IF list THEN "list" ELSE "user"
             Muted(x) == IF account.muted THEN AddMuted(x, By(account.mutedByList)) ELSE x
             Blocking(x) == IF account.blocking THEN AddBlocking(x, By(account.blockingByList)) ELSE x
  <1>1. \A source : /\ IsCause(Cause("muted", source, 6, MUTE_BEHAVIOR))
                    /\ IsCause(Cause("blocking", source, 3, BLOCK_BEHAVIOR))
                    /\ IsCause(Cause("blocked-by", source, 4, BLOCK_BEHAVIOR))
    BY CauseFacts DEF CauseTypes, Blocks
  <1>2. Alike(Muted(d), Muted(e), did, o)
    BY <1>1, AddCauseAlike DEF AddMuted
  <1>3. \A x, y : Alike(x, y, did, o) => Alike(Blocking(x), Blocking(y), did, o)
    BY <1>1, AddCauseAlike DEF AddBlocking
  <1> HIDE DEF Muted
  <1>4. Alike(Blocking(Muted(d)), Blocking(Muted(e)), did, o)
    BY <1>2, <1>3
  <1> HIDE DEF Blocking
  <1>5. Alike(AddBlockedBy(Blocking(Muted(d)), account.blockedBy),
              AddBlockedBy(Blocking(Muted(e)), account.blockedBy), did, o)
    BY <1>1, <1>4, AddIfAlike DEF AddBlockedBy
  <1>6. /\ Relations(d, account) = AddBlockedBy(Blocking(Muted(d)), account.blockedBy)
        /\ Relations(e, account) = AddBlockedBy(Blocking(Muted(e)), account.blockedBy)
    BY DEF Relations, Muted, Blocking
  <1> QED BY <1>5, <1>6

(* What is downgraded locks nothing.                                        *)
LEMMA DowngradeFacts ==
    ASSUME NEW o, NEW did, NEW d, About(d, did, o)
    PROVE  /\ IsCauses(Downgrade(d).causes) /\ LocksOf(Downgrade(d).causes) = {}
           /\ Len(Downgrade(d).causes) = Len(d.causes)
           /\ \A i \in DOMAIN Downgrade(d).causes : Downgrade(d).causes[i].downgraded
  <1> DEFINE s == d.causes
             Down(c) == [c EXCEPT !.downgraded = TRUE]
             t == [i \in DOMAIN s |-> Down(s[i])]
  <1>1. IsCauses(s) /\ \A x : [d EXCEPT !.causes = x] = DecisionOf(did, o, x)
    BY AboutFacts
  <1>2. Downgrade(d) = DecisionOf(did, o, t)
    BY <1>1 DEF Downgrade
  <1>3. Downgrade(d).causes = t
    BY <1>2, DecisionFacts
  <1>4. Len(s) \in Nat /\ DOMAIN s = 1..Len(s) /\ \A i \in DOMAIN s : IsCause(s[i])
    BY <1>1, SeqFacts DEF IsCauses
  <1>5. \A c : IsCause(c) => IsCause(Down(c)) /\ Down(c).downgraded
    BY DEF IsCause, CauseFields
  <1> HIDE DEF Down
  <1>6. t = [i \in 1..Len(s) |-> t[i]] /\ \A i \in 1..Len(s) : t[i] = Down(s[i])
    BY <1>4
  <1> HIDE DEF t, s
  <1>7. t \in Seq(ToSet(t)) /\ Len(t) = Len(s) /\ DOMAIN t = 1..Len(s)
    BY <1>4, <1>6, AsSeq
  <1>8. \A i \in DOMAIN t : IsCause(t[i]) /\ t[i].downgraded
    BY <1>4, <1>5, <1>6, <1>7
  <1>9. LocksOf(t) = {}
    BY <1>8 DEF LocksOf, Locking, ToSet
  <1> QED BY <1>3, <1>7, <1>8, <1>9 DEF IsCauses, s

-------------------------------------------------------------------------------
(* Settings the user may not override *)

(* The same user, definitions and switches; only label settings may differ. *)
SameRules(o, p) ==
    /\ o.userDid = p.userDid /\ o.labelDefs = p.labelDefs
    /\ o.prefs.adultContentEnabled = p.prefs.adultContentEnabled
    /\ o.prefs.mutedWords = p.prefs.mutedWords /\ o.prefs.hiddenPosts = p.prefs.hiddenPosts
    /\ \A src : SubscribesTo(src, o) <=> SubscribesTo(src, p)

(* Definitions as InterpretLabelValueDefinition makes them.                 *)
Published(o) ==
    \A did \in DOMAIN o.labelDefs :
       /\ DOMAIN o.labelDefs[did] \in SUBSET Nat
       /\ \A i \in DOMAIN o.labelDefs[did] : o.labelDefs[did][i].flags \in SUBSET {"no-self", "adult"}

(* The least of some numbers is no greater than any.                        *)
LEMMA LeastOf ==
    ASSUME NEW T, T \subseteq Nat, T # {}
    PROVE  Min(T) \in T /\ \A k \in T : Min(T) <= k
  <1>1. \E x \in T : \A y \in T : ~ (<<y, x>> \in OpToRel(<, Nat))
    BY NatLessThanWellFounded, WFMin, Zenon
  <1>2. \A a, b \in Nat : a < b => <<a, b>> \in OpToRel(<, Nat)
    BY Zenon DEF OpToRel
  <1>3. \E x \in T : \A y \in T : ~ (y < x)
    BY <1>1, <1>2, Zenon
  <1>4. \E x \in T : \A y \in T : x <= y
    BY <1>3
  <1> QED BY <1>4 DEF Min

(* Only labels that cannot be configured are flagged as final: the known    *)
(* ones are, what a labeler publishes never is.                             *)
LEMMA FinalLabels ==
    ASSUME NEW o, Published(o), NEW label, LabelDef(label, o) # None,
           "no-override" \in LabelDef(label, o).flags
    PROVE  ~ LabelDef(label, o).configurable
  <1> DEFINE published == IF label.src \in DOMAIN o.labelDefs /\ CustomLabelValue(label.val)
                          THEN o.labelDefs[label.src] ELSE <<>>
             own == { i \in DOMAIN published : published[i].identifier = label.val }
  <1>1. CASE own # {}
    <2>1. LabelDef(label, o) = published[Min(own)]
      BY <1>1 DEF LabelDef
    <2>2. DOMAIN published \in SUBSET Nat
      BY DEF Published
    <2>3. Min(own) \in own
      BY <1>1, <2>2, LeastOf
    <2>4. label.src \in DOMAIN o.labelDefs /\ published = o.labelDefs[label.src]
      BY <1>1
    <2>5. published[Min(own)].flags \in SUBSET {"no-self", "adult"}
      BY <2>3, <2>4 DEF Published
    <2> HIDE DEF published, own
    <2>6. "no-override" \in published[Min(own)].flags
      BY <2>1
    <2> QED BY <2>5, <2>6
  <1>2. CASE own = {}
    <2>1. LabelDef(label, o) = IF label.val \in KnownValues THEN LABELS[label.val] ELSE None
      BY <1>2 DEF LabelDef
    <2>2. label.val \in KnownValues /\ LabelDef(label, o) = LABELS[label.val]
      BY <2>1
    <2>3. \A l \in KnownValues : "no-override" \in LABELS[l].flags => ~ LABELS[l].configurable
      BY DEF LABELS, KnownValues, Def
    <2> QED BY <2>2, <2>3
  <1> QED BY <1>1, <1>2

(* What may not be overridden is heeded, or not, whatever is set.           *)
LEMMA SameLabel ==
    ASSUME NEW o, NEW p, SameRules(o, p), Published(o), NEW label, NEW did
    PROVE  /\ LabelDef(label, o) = LabelDef(label, p)
           /\ NoOverride(LabelDef(label, o), o) <=> NoOverride(LabelDef(label, p), p)
           /\ (LabelDef(label, o) # None /\ NoOverride(LabelDef(label, o), o))
                => (Ignored(label, did, o) <=> Ignored(label, did, p))
  <1> DEFINE def == LabelDef(label, o)
  <1>1. LabelDef(label, p) = def
    BY DEF LabelDef, SameRules
  <1>2. AdultOff(def, o) <=> AdultOff(def, p)
    BY DEF AdultOff, SameRules
  <1>3. NoOverride(def, o) <=> NoOverride(def, p)
    BY <1>2 DEF NoOverride
  <1>4. ASSUME def # None, NoOverride(def, o)
        PROVE  Ignored(label, did, o) <=> Ignored(label, did, p)
    <2>1. ~ def.configurable \/ AdultOff(def, o)
      BY <1>4, FinalLabels DEF NoOverride
    <2>2. \A l1, l2 : LabelSetting(def, l1, o) = LabelSetting(def, l2, p)
      BY <2>1, <1>2 DEF LabelSetting
    <2>3. SettingOf(label, did, o) = SettingOf(label, did, p)
      <3> HIDE DEF def
      <3>1. SettingOf(label, did, o)
              = LabelSetting(def, IF label.src = did THEN None ELSE Labeler(label.src, o), o)
        BY DEF SettingOf, def
      <3>2. SettingOf(label, did, p)
              = LabelSetting(def, IF label.src = did THEN None ELSE Labeler(label.src, p), p)
        BY <1>1 DEF SettingOf
      <3> QED BY <2>2, <3>1, <3>2
    <2>4. o.userDid = p.userDid /\ (SubscribesTo(label.src, o) <=> SubscribesTo(label.src, p))
      BY DEF SameRules
    <2> QED BY <1>1, <2>3, <2>4 DEF Ignored, Refuses
  <1> QED BY <1>1, <1>3, <1>4

(* What a label does, and what of it is locked.                             *)
LEMMA LabelCauseFacts ==
    ASSUME NEW label, NEW target, NEW did, NEW o
    PROVE  LET c == LabelCause(label, target, did, o)
           IN /\ IsCause(c) /\ c.type = "label" /\ ~c.downgraded
              /\ c.behavior = LabelDef(label, o).behaviors[target]
              /\ c.noOverride <=> NoOverride(LabelDef(label, o), o)
  <1> DEFINE c == LabelCause(label, target, did, o)
             def == LabelDef(label, o)
             setting == SettingOf(label, did, o)
             locked == NoOverride(def, o)
             priority == LabelPriority(def, target, setting, o)
             behavior == def.behaviors[target]
             source == IF label.src = did THEN "user" ELSE label.src
  <1>1. priority \in Nat
    BY DEF LabelPriority
  <1>2. c = [type |-> "label", source |-> source, priority |-> priority, behavior |-> behavior,
             downgraded |-> FALSE, label |-> label.val, target |-> target, setting |-> setting,
             noOverride |-> locked]
    <2> HIDE DEF setting, locked, priority, behavior, source
    <2>1. c = [Cause("label", source, priority, behavior)
                 EXCEPT !.label = label.val, !.target = target, !.setting = setting, !.noOverride = locked]
      BY Zenon DEF LabelCause, CauseOf, setting, locked, priority, behavior, source
    <2> HIDE DEF c
    <2> QED BY <2>1 DEF Cause
  <1> HIDE DEF setting, locked, priority, behavior, source, c
  <1>3. IsCause(c) /\ c.type = "label" /\ ~c.downgraded /\ c.behavior = behavior
    BY <1>1, <1>2 DEF IsCause, CauseFields, CauseTypes
  <1>4. c.noOverride = locked
    BY <1>2
  <1> QED BY <1>3, <1>4, Zenon DEF c, behavior, locked

(* What the labels add locks the same whatever is set.                      *)
LEMMA AddLabelsAlike ==
    ASSUME NEW o, NEW p, SameRules(o, p), Published(o), NEW did, NEW d, NEW e, Alike(d, e, did, o),
           NEW target, NEW labels, IsList(labels)
    PROVE  Alike(AddLabels(d, target, labels, o), AddLabels(e, target, labels, p), did, o)
  <1> DEFINE Kept(q) == { i \in DOMAIN labels : ~Ignored(labels[i], did, q) }
             Heeded(q) == Keep(labels, Kept(q))
             Added(q) == [i \in DOMAIN Heeded(q) |-> LabelCause(Heeded(q)[i], target, did, q)]
             Locked(q) == { i \in Kept(q) : NoOverride(LabelDef(labels[i], q), q) }
  <1>1. DOMAIN labels \in SUBSET Nat /\ IsFiniteSet(DOMAIN labels)
    <2>1. Len(labels) \in Nat /\ DOMAIN labels = 1..Len(labels)
      BY SeqFacts DEF IsList
    <2>2. IsFiniteSet(1..Len(labels))
      BY <2>1, FS_Interval
    <2> QED BY <2>1, <2>2
  <1>2. ASSUME NEW q
        PROVE  /\ IsCauses(Added(q))
               /\ LocksOf(Added(q)) = { LabelDef(labels[i], q).behaviors[target] : i \in Locked(q) }
    <2> DEFINE K == Kept(q)
               H == Heeded(q)
               A == Added(q)
               zero == [i \in K |-> 0]
    <2>1. Weighed(K, zero)
      <3>1. K \in SUBSET Nat /\ IsFiniteSet(K)
        BY <1>1, FS_Subset
      <3> HIDE DEF Kept
      <3> QED BY <3>1 DEF Weighed
    <2>2. H = Ranked(labels, K, zero)
      BY DEF Keep
    <2> HIDE DEF K, H
    <2>3. /\ H \in Seq(ToSet(H)) /\ Len(H) \in Nat /\ DOMAIN H = 1..Len(H)
          /\ ToSet(H) = { labels[j] : j \in K }
      BY <2>1, <2>2, RankedFacts, RankedElements
    <2>4. A = [i \in 1..Len(H) |-> A[i]] /\ \A i \in 1..Len(H) : A[i] = LabelCause(H[i], target, did, q)
      BY <2>3 DEF H
    <2> HIDE DEF A
    <2>5. A \in Seq(ToSet(A)) /\ DOMAIN A = 1..Len(H)
      BY <2>3, <2>4, AsSeq
    <2>6. IsCauses(A)
      BY <2>4, <2>5, LabelCauseFacts DEF IsCauses
    <2>7. ToSet(A) = { LabelCause(labels[j], target, did, q) : j \in K }
      <3>1. \A x : x \in ToSet(A) <=> \E i \in 1..Len(H) : x = LabelCause(H[i], target, did, q)
        BY <2>4, <2>5 DEF ToSet
      <3>2. \A y : y \in ToSet(H) <=> \E i \in 1..Len(H) : y = H[i]
        BY <2>3 DEF ToSet
      <3>3. /\ \A i \in 1..Len(H) : \E j \in K : H[i] = labels[j]
            /\ \A j \in K : \E i \in 1..Len(H) : H[i] = labels[j]
        BY <2>3, <3>2, Zenon
      <3>4. \A x : x \in ToSet(A) => \E j \in K : x = LabelCause(labels[j], target, did, q)
        <4> SUFFICES ASSUME NEW x \in ToSet(A)
                     PROVE  \E j \in K : x = LabelCause(labels[j], target, did, q)
          OBVIOUS
        <4>1. PICK i \in 1..Len(H) : x = LabelCause(H[i], target, did, q)
          BY <3>1
        <4>2. PICK j \in K : H[i] = labels[j]
          BY <3>3
        <4> QED BY <4>1, <4>2
      <3>5. \A x : (\E j \in K : x = LabelCause(labels[j], target, did, q)) => x \in ToSet(A)
        BY <3>1, <3>3, Zenon
      <3> QED BY <3>4, <3>5
    <2>8. \A j \in K : Locking(LabelCause(labels[j], target, did, q)) <=> j \in Locked(q)
      <3> TAKE j \in K
      <3> DEFINE x == LabelCause(labels[j], target, did, q)
      <3>1. x.type = "label" /\ ~x.downgraded /\ (x.noOverride <=> NoOverride(LabelDef(labels[j], q), q))
        BY LabelCauseFacts
      <3> HIDE DEF x
      <3>2. Locking(x) <=> x.noOverride
        BY <3>1, Zenon DEF Locking, Blocks
      <3>3. Locking(x) <=> NoOverride(LabelDef(labels[j], q), q)
        BY <3>1, <3>2, Zenon
      <3> QED BY <3>3, Zenon DEF x, K
    <2>9. \A j \in K : LabelCause(labels[j], target, did, q).behavior = LabelDef(labels[j], q).behaviors[target]
      BY LabelCauseFacts
    <2>10. Locked(q) \in SUBSET K
      BY DEF K
    <2> HIDE DEF Locked
    <2>11. LocksOf(A) = { LabelDef(labels[i], q).behaviors[target] : i \in Locked(q) }
      BY <2>7, <2>8, <2>9, <2>10 DEF LocksOf
    <2> QED BY <2>6, <2>11 DEF A
  <1>3. Locked(o) = Locked(p) /\ \A i \in DOMAIN labels : LabelDef(labels[i], o) = LabelDef(labels[i], p)
    <2>1. \A i \in DOMAIN labels : LabelDef(labels[i], o) = LabelDef(labels[i], p)
      BY SameLabel
    <2>2. \A i \in DOMAIN labels : i \in Locked(o) <=> i \in Locked(p)
      <3> TAKE i \in DOMAIN labels
      <3> DEFINE def == LabelDef(labels[i], o)
      <3>1. LabelDef(labels[i], p) = def /\ (NoOverride(def, o) <=> NoOverride(LabelDef(labels[i], p), p))
        BY SameLabel
      <3>2. def # None /\ NoOverride(def, o) => (Ignored(labels[i], did, o) <=> Ignored(labels[i], did, p))
        BY SameLabel
      <3>3. def = None => Ignored(labels[i], did, o) /\ Ignored(labels[i], did, p)
        BY <3>1 DEF Ignored, Refuses
      <3> HIDE DEF def
      <3> QED BY <3>1, <3>2, <3>3, Zenon DEF def
    <2> QED BY <2>1, <2>2
  <1>4. Locked(o) \in SUBSET DOMAIN labels
    OBVIOUS
  <1> HIDE DEF Locked
  <1>5. LocksOf(Added(o)) = LocksOf(Added(p)) /\ IsCauses(Added(o)) /\ IsCauses(Added(p))
    <2> HIDE DEF Added
    <2> QED BY <1>2, <1>3, <1>4
  <1>6. /\ d.did = did /\ \A s : [d EXCEPT !.causes = s] = DecisionOf(did, o, s)
        /\ e.did = did /\ \A s : [e EXCEPT !.causes = s] = DecisionOf(did, o, s)
        /\ IsCauses(d.causes) /\ IsCauses(e.causes) /\ LocksOf(d.causes) = LocksOf(e.causes)
    BY AboutFacts DEF Alike
  <1>7. /\ AddLabels(d, target, labels, o) = DecisionOf(did, o, d.causes \o Added(o))
        /\ AddLabels(e, target, labels, p) = DecisionOf(did, o, e.causes \o Added(p))
    <2> DEFINE KeptBy(me, q) == { i \in DOMAIN labels : ~Ignored(labels[i], me, q) }
               AddedBy(me, q) == [i \in DOMAIN Keep(labels, KeptBy(me, q)) |->
                                    LabelCause(Keep(labels, KeptBy(me, q))[i], target, me, q)]
    <2>1. \A x, q : AddLabels(x, target, labels, q) = [x EXCEPT !.causes = x.causes \o AddedBy(x.did, q)]
      BY Zenon DEF AddLabels
    <2>2. \A q : Added(q) = AddedBy(did, q)
      BY Zenon
    <2> HIDE DEF AddedBy, Added
    <2>3. AddLabels(d, target, labels, o) = [d EXCEPT !.causes = d.causes \o Added(o)]
      <3>1. AddedBy(d.did, o) = Added(o)
        BY <1>6, <2>2
      <3> QED BY <2>1, <3>1
    <2>4. AddLabels(e, target, labels, p) = [e EXCEPT !.causes = e.causes \o Added(p)]
      <3>1. AddedBy(e.did, p) = Added(p)
        BY <1>6, <2>2
      <3> QED BY <2>1, <3>1
    <2> QED BY <1>6, <2>3, <2>4, Zenon
  <1> HIDE DEF Added
  <1>8. /\ AddLabels(d, target, labels, o).causes = d.causes \o Added(o)
        /\ AddLabels(e, target, labels, p).causes = e.causes \o Added(p)
    <2>1. \A s : DecisionOf(did, o, s).causes = s
      BY DecisionFacts
    <2> QED BY <1>7, <2>1, Zenon
  <1>9. /\ IsCauses(d.causes \o Added(o))
        /\ LocksOf(d.causes \o Added(o)) = LocksOf(d.causes) \union LocksOf(Added(o))
    BY <1>5, <1>6, CausesConcat
  <1>10. /\ IsCauses(e.causes \o Added(p))
         /\ LocksOf(e.causes \o Added(p)) = LocksOf(e.causes) \union LocksOf(Added(p))
    BY <1>5, <1>6, CausesConcat
  <1> QED BY <1>5, <1>6, <1>7, <1>8, <1>9, <1>10 DEF Alike, About

(* A selection is a list, and no longer.                                    *)
LEMMA KeptFacts ==
    ASSUME NEW s, IsList(s), NEW t, NEW kept \in SUBSET DOMAIN s
    PROVE  LET k == Keep(t, kept)
           IN /\ IsList(k) /\ Len(k) \in Nat /\ Len(k) <= Len(s)
              /\ ToSet(k) = { t[i] : i \in kept }
  <1> DEFINE zero == [i \in kept |-> 0]
             k == Ranked(t, kept, zero)
  <1>1. Len(s) \in Nat /\ DOMAIN s = 1..Len(s)
    BY SeqFacts DEF IsList
  <1>2. IsFiniteSet(1..Len(s)) /\ Cardinality(1..Len(s)) = Len(s)
    <2>1. \A m \in Nat : IsFiniteSet(1..m) /\ Cardinality(1..m) = m
      BY FS_Interval
    <2> QED BY Zenon, <1>1, <2>1
  <1>3. /\ kept \in SUBSET Nat /\ IsFiniteSet(kept)
        /\ Cardinality(kept) <= Len(s)
    BY <1>1, <1>2, FS_Subset
  <1>4. Weighed(kept, zero)
    BY <1>3 DEF Weighed
  <1> HIDE DEF zero
  <1>5. /\ k \in Seq(ToSet(k)) /\ Len(k) = Cardinality(kept) /\ Cardinality(kept) \in Nat
    BY <1>4, RankedFacts
  <1>6. ToSet(k) = { t[i] : i \in kept }
    BY <1>4, RankedElements
  <1> HIDE DEF k
  <1>7. IsList(k) /\ Len(k) \in Nat /\ Len(k) <= Len(s)
    BY <1>3, <1>5 DEF IsList
  <1>8. Keep(t, kept) = k
    BY DEF Keep, k, zero
  <1> QED BY <1>6, <1>7, <1>8

(* What is decided of labelled content is alike under the same rules.       *)
LEMMA ContentAlike ==
    ASSUME NEW o, NEW p, SameRules(o, p), Published(o), NEW did, NEW labels, IsList(labels)
    PROVE  Alike(DecideContent(did, labels, o), DecideContent(did, labels, p), did, o)
  <1>1. NewDecision(did, p) = NewDecision(did, o)
    BY DEF NewDecision, SameRules
  <1>2. Alike(NewDecision(did, o), NewDecision(did, p), did, o)
    BY <1>1, NewAlike
  <1> QED BY <1>2, AddLabelsAlike DEF DecideContent

(* So is what is decided of an account,                                     *)
LEMMA AccountAlike ==
    ASSUME NEW o, NEW p, SameRules(o, p), Published(o), NEW account, IsAccount(account)
    PROVE  Alike(ModerateProfile(account, o), ModerateProfile(account, p), account.did, o)
  <1> DEFINE did == account.did
             onAccount == OnAccount(account.labels)
             onProfile == OnProfile(account.labels)
  <1>1. IsList(onAccount) /\ IsList(onProfile)
    <2>1. IsList(account.labels)
      BY DEF IsAccount
    <2>2. \A kept \in SUBSET DOMAIN account.labels : IsList(Keep(account.labels, kept))
      BY <2>1, KeptFacts
    <2> QED BY <2>2 DEF OnAccount, OnProfile
  <1> HIDE DEF onAccount, onProfile
  <1>2. NewDecision(did, p) = NewDecision(did, o)
    BY DEF NewDecision, SameRules
  <1>3. Alike(NewDecision(did, o), NewDecision(did, p), did, o)
    BY <1>2, NewAlike
  <1>4. Alike(AddLabels(NewDecision(did, o), "profile", onProfile, o),
              AddLabels(NewDecision(did, p), "profile", onProfile, p), did, o)
    BY <1>1, <1>3, AddLabelsAlike
  <1>5. Alike(Relations(NewDecision(did, o), account), Relations(NewDecision(did, p), account), did, o)
    BY <1>3, RelationsAlike
  <1>6. Alike(AddLabels(Relations(NewDecision(did, o), account), "account", onAccount, o),
              AddLabels(Relations(NewDecision(did, p), account), "account", onAccount, p), did, o)
    BY <1>1, <1>5, AddLabelsAlike
  <1>7. Alike(DecideAccount(account, o), DecideAccount(account, p), did, o)
    BY <1>6 DEF DecideAccount, onAccount
  <1>8. Alike(DecideProfile(account, o), DecideProfile(account, p), did, o)
    BY <1>4 DEF DecideProfile, onProfile
  <1>9. Alike(Merge(DecideAccount(account, o), DecideProfile(account, o)),
              Merge(DecideAccount(account, p), DecideProfile(account, p)), did, o)
    <2>1. /\ IsCauses(DecideProfile(account, o).causes) /\ IsCauses(DecideProfile(account, p).causes)
          /\ LocksOf(DecideProfile(account, o).causes) = LocksOf(DecideProfile(account, p).causes)
      BY <1>8 DEF Alike, About
    <2> QED BY <1>7, <2>1, MergeAlike
  <1> QED BY <1>9 DEF ModerateProfile

(* of a feed generator or a list with its owner,                            *)
LEMMA OwnedAlike ==
    ASSUME NEW o, NEW p, SameRules(o, p), Published(o), NEW owner, IsAccount(owner),
           NEW labels, IsList(labels)
    PROVE  Alike(DecideOwned(owner, labels, o), DecideOwned(owner, labels, p), owner.did, o)
  <1>1. Alike(DecideContent(owner.did, labels, o), DecideContent(owner.did, labels, p), owner.did, o)
    BY ContentAlike
  <1>2. Alike(ModerateProfile(owner, o), ModerateProfile(owner, p), owner.did, o)
    BY AccountAlike
  <1>3. /\ IsCauses(ModerateProfile(owner, o).causes) /\ IsCauses(ModerateProfile(owner, p).causes)
        /\ LocksOf(ModerateProfile(owner, o).causes) = LocksOf(ModerateProfile(owner, p).causes)
    BY <1>2 DEF Alike, About
  <1> QED BY <1>1, <1>3, MergeAlike DEF DecideOwned

(* What is quoted, whoever wrote it.                                        *)
LEMMA EmbedAlike ==
    ASSUME NEW o, NEW p, SameRules(o, p), Published(o), NEW embed, IsEmbed(embed),
           Quotes(embed, "viewRecord") \/ Quotes(embed, "blocked")
    PROVE  Alike(DecideEmbed(embed, o), DecideEmbed(embed, p), embed.record.author.did, o)
  <1> DEFINE author == embed.record.author
  <1>1. IsAccount(author) /\ (Quotes(embed, "viewRecord") => IsList(embed.record.labels))
    BY DEF IsEmbed, Quotes
  <1>2. CASE Quotes(embed, "viewRecord")
    <2>1. Alike(DecideOwned(author, embed.record.labels, o), DecideOwned(author, embed.record.labels, p),
                author.did, o)
      BY <1>1, <1>2, OwnedAlike
    <2> QED BY <1>2, <2>1 DEF DecideEmbed
  <1>3. CASE ~Quotes(embed, "viewRecord")
    <2>1. NewDecision(author.did, p) = NewDecision(author.did, o)
      BY DEF NewDecision, SameRules
    <2>2. Alike(NewDecision(author.did, o), NewDecision(author.did, p), author.did, o)
      BY <2>1, NewAlike
    <2>3. Alike(Relations(NewDecision(author.did, o), author), Relations(NewDecision(author.did, p), author),
                author.did, o)
      BY <2>2, RelationsAlike
    <2> QED BY <1>3, <2>3 DEF DecideEmbed
  <1> QED BY <1>2, <1>3

(* The post itself: its labels, whether it is hidden, and muted words.      *)
LEMMA SubjectAlike ==
    ASSUME NEW o, NEW p, SameRules(o, p), Published(o), NEW post, IsList(post.labels)
    PROVE  Alike(DecideSubject(post, o), DecideSubject(post, p), post.author.did, o)
  <1> DEFINE did == post.author.did
             Labelled(q) == DecideContent(did, post.labels, q)
             Hidden(q) == AddHidden(Labelled(q), CheckHiddenPost(post, q.prefs.hiddenPosts))
             Matches(q) == MatchAllMuteWords(post, q.prefs.mutedWords)
             Subject_(q) == IF Hidden(q).isMe THEN Hidden(q) ELSE AddMatches(Hidden(q), Matches(q))
  <1>1. Alike(Labelled(o), Labelled(p), did, o)
    BY ContentAlike
  <1>2. /\ IsCause(Cause("hidden", "user", 6, HIDE_BEHAVIOR))
        /\ IsCause(Cause("mute-word", "user", 6, MUTEWORD_BEHAVIOR))
    BY CauseFacts DEF CauseTypes, Blocks
  <1>3. o.prefs.hiddenPosts = p.prefs.hiddenPosts /\ Matches(o) = Matches(p)
    BY DEF SameRules
  <1> HIDE DEF Labelled, Matches
  <1>4. Alike(Hidden(o), Hidden(p), did, o)
    BY <1>1, <1>2, <1>3, AddIfAlike DEF AddHidden
  <1>5. Alike(AddMatches(Hidden(o), Matches(o)), AddMatches(Hidden(p), Matches(p)), did, o)
    <2> HIDE DEF Hidden
    <2> QED BY <1>2, <1>3, <1>4, AddIfAlike DEF AddMatches
  <1> HIDE DEF Hidden
  <1>6. Hidden(o).isMe <=> Hidden(p).isMe
    <2>1. Hidden(o).isMe <=> (did = o.userDid)
      BY <1>4, AboutFacts DEF Alike
    <2>2. Hidden(p).isMe <=> (did = o.userDid)
      BY <1>4, AboutFacts DEF Alike
    <2> QED BY <2>1, <2>2
  <1>7. Alike(Subject_(o), Subject_(p), did, o)
    BY <1>4, <1>5, <1>6
  <1>8. \A q : DecideSubject(post, q) = Subject_(q)
    BY DEF DecideSubject, Labelled, Hidden, Matches
  <1> HIDE DEF Subject_
  <1> QED BY <1>7, <1>8

(* and of a post with all that it embeds.                                   *)
LEMMA PostAlike ==
    ASSUME NEW o, NEW p, SameRules(o, p), Published(o), NEW post,
           IsList(post.labels), IsAccount(post.author), IsEmbed(post.embed)
    PROVE  Alike(DecidePost(post, o), DecidePost(post, p), post.author.did, o)
  <1> DEFINE did == post.author.did
             quotes == Quotes(post.embed, "viewRecord") \/ Quotes(post.embed, "blocked")
             Down(q) == Downgrade(DecideEmbed(post.embed, q))
             Mine(q) == IF quotes THEN Merge(DecideSubject(post, q), Down(q)) ELSE DecideSubject(post, q)
  <1>1. Alike(DecideSubject(post, o), DecideSubject(post, p), did, o)
    BY SubjectAlike
  <1>2. ASSUME quotes
        PROVE  Alike(Mine(o), Mine(p), did, o)
    <2>1. Alike(DecideEmbed(post.embed, o), DecideEmbed(post.embed, p), post.embed.record.author.did, o)
      BY <1>2, EmbedAlike
    <2>2. /\ IsCauses(Down(o).causes) /\ LocksOf(Down(o).causes) = {}
          /\ IsCauses(Down(p).causes) /\ LocksOf(Down(p).causes) = {}
      BY <2>1, DowngradeFacts DEF Alike
    <2> HIDE DEF Down
    <2>3. Alike(Merge(DecideSubject(post, o), Down(o)), Merge(DecideSubject(post, p), Down(p)), did, o)
      BY <1>1, <2>2, MergeAlike
    <2> QED BY <1>2, <2>3
  <1>3. Alike(Mine(o), Mine(p), did, o)
    BY <1>1, <1>2
  <1>4. Alike(ModerateProfile(post.author, o), ModerateProfile(post.author, p), did, o)
    BY AccountAlike
  <1>5. \A q : DecidePost(post, q) = Merge(Mine(q), ModerateProfile(post.author, q))
    BY DEF DecidePost
  <1> HIDE DEF Mine
  <1>6. /\ IsCauses(ModerateProfile(post.author, o).causes) /\ IsCauses(ModerateProfile(post.author, p).causes)
        /\ LocksOf(ModerateProfile(post.author, o).causes) = LocksOf(ModerateProfile(post.author, p).causes)
    BY <1>4 DEF Alike, About
  <1>7. Alike(Merge(Mine(o), ModerateProfile(post.author, o)),
              Merge(Mine(p), ModerateProfile(post.author, p)), did, o)
    BY <1>3, <1>6, MergeAlike
  <1> QED BY <1>5, <1>7

(* Whatever is shown: a decision about one account, locked the same under   *)
(* options that differ in the settings of labels only.                      *)
LEMMA DecideAlike ==
    ASSUME NEW o, NEW p, SameRules(o, p), Published(o), NEW v, IsView(v)
    PROVE  \E did : Alike(Decide(v, o), Decide(v, p), did, o)
  <1>1. CASE v.kind = "profile"
    <2>1. IsAccount(v)
      BY <1>1 DEF IsView
    <2>2. Alike(ModerateProfile(v, o), ModerateProfile(v, p), v.did, o)
      BY <2>1, AccountAlike
    <2> QED BY <1>1, <2>2 DEF Decide
  <1>2. CASE v.kind = "status"
    <2>1. IsAccount(v) /\ IsList(v.statusLabels)
      BY <1>2 DEF IsView, IsAccount
    <2>2. Alike(DecideOwned(v, v.statusLabels, o), DecideOwned(v, v.statusLabels, p), v.did, o)
      BY <2>1, OwnedAlike
    <2> QED BY <1>2, <2>2 DEF Decide, DecideStatus
  <1>3. CASE v.kind = "post"
    <2>1. Alike(DecidePost(v, o), DecidePost(v, p), v.author.did, o)
      BY <1>3, PostAlike DEF IsView
    <2> QED BY <1>3, <2>1 DEF Decide
  <1>4. CASE v.kind \in {"feed", "notification"}
    <2>1. Alike(DecideOwned(v.owner, v.labels, o), DecideOwned(v.owner, v.labels, p), v.owner.did, o)
      BY <1>4, OwnedAlike DEF IsView
    <2> QED BY <1>4, <2>1 DEF Decide, DecideFeedGenerator, DecideNotification
  <1>5. CASE v.kind = "list"
    <2>1. IsList(v.labels) /\ (v.owner = None \/ IsAccount(v.owner))
      BY <1>5 DEF IsView
    <2>2. CASE v.owner # None
      <3>1. Alike(DecideOwned(v.owner, v.labels, o), DecideOwned(v.owner, v.labels, p), v.owner.did, o)
        BY <2>1, <2>2, OwnedAlike
      <3> QED BY <1>5, <2>2, <3>1 DEF Decide, DecideUserList
    <2>3. CASE v.owner = None
      <3>1. Alike(DecideContent(v.did, v.labels, o), DecideContent(v.did, v.labels, p), v.did, o)
        BY <2>1, ContentAlike
      <3> QED BY <1>5, <2>3, <3>1 DEF Decide, DecideUserList
    <2> QED BY <2>2, <2>3
  <1>6. CASE v.kind \in {"external", "profileLink"}
    <2>1. Alike(DecideContent(v.did, v.labels, o), DecideContent(v.did, v.labels, p), v.did, o)
      BY <1>6, ContentAlike DEF IsView
    <2> QED BY <1>6, <2>1 DEF Decide, DecideViewExternal, DecideProfileLink
  <1> QED BY <1>1, <1>2, <1>3, <1>4, <1>5, <1>6 DEF IsView

-------------------------------------------------------------------------------
(* The interface *)

(* What is blurred for good: never the user's own.                          *)
LEMMA UILocks ==
    ASSUME NEW o, NEW did, NEW d, About(d, did, o), NEW context
    PROVE  UI(d, context).noOverride
             <=> (did # o.userDid /\ \E b \in LocksOf(d.causes) : b[context] = "blur")
  <1> DEFINE s == d.causes
             Blurs(i) == Acts(s[i], d.isMe) /\ s[i].behavior[context] = "blur"
  <1>1. IsCauses(s) /\ (d.isMe <=> (did = o.userDid))
    BY AboutFacts
  <1>2. UI(d, context).noOverride <=> \E i \in DOMAIN s : Blurs(i) /\ Final(s[i], d.isMe)
    BY DEF UI
  <1>3. \A i \in DOMAIN s : IsCause(s[i])
    BY <1>1 DEF IsCauses
  <1>4. \A i \in DOMAIN s : (Blurs(i) /\ Final(s[i], d.isMe))
             <=> (~d.isMe /\ Locking(s[i]) /\ s[i].behavior[context] = "blur")
    <2> TAKE i \in DOMAIN s
    <2> DEFINE c == s[i]
    <2>1. c.type \in Blocks => c.type # "label" /\ c.type # "hidden"
      BY DEF Blocks
    <2> HIDE DEF c
    <2>2. (Acts(c, d.isMe) /\ Final(c, d.isMe)) <=> (~d.isMe /\ Locking(c))
      BY <2>1, Zenon DEF Acts, Final, Locking
    <2> QED BY <2>2, Zenon DEF c
  <1>5. (\E i \in DOMAIN s : Locking(s[i]) /\ s[i].behavior[context] = "blur")
           <=> \E b \in LocksOf(s) : b[context] = "blur"
    BY DEF LocksOf, ToSet
  <1> HIDE DEF Blurs, s
  <1>6. UI(d, context).noOverride <=> (~d.isMe /\ \E b \in LocksOf(s) : b[context] = "blur")
    BY <1>2, <1>4, <1>5, Zenon
  <1> QED BY <1>1, <1>6, Zenon DEF s

DoingOf(s, isMe, context, what) ==
    { i \in DOMAIN s : Acts(s[i], isMe) /\ s[i].behavior[context] = what }
FilteringOf(s, isMe, context) == { i \in DOMAIN s : Filters(s[i], context, isMe) }
Priorities(s) == [i \in DOMAIN s |-> s[i].priority]

(* The parts of the interface, in terms of the causes.                      *)
LEMMA UIFacts ==
    ASSUME NEW d, NEW context
    PROVE  LET s == d.causes
           IN /\ UI(d, context).filters = Ranked(s, FilteringOf(s, d.isMe, context), Priorities(s))
              /\ UI(d, context).blurs = Ranked(s, DoingOf(s, d.isMe, context, "blur"), Priorities(s))
              /\ UI(d, context).alerts = Keep(s, DoingOf(s, d.isMe, context, "alert"))
              /\ UI(d, context).informs = Keep(s, DoingOf(s, d.isMe, context, "inform"))
              /\ UI(d, context).noOverride \in BOOLEAN
              /\ UI(d, context).noOverride
                    <=> \E i \in DoingOf(s, d.isMe, context, "blur") : Final(s[i], d.isMe)
  BY DEF UI, DoingOf, FilteringOf, Priorities

(* The causes a filter keeps can be sorted by their priorities.             *)
LEMMA PrioritiesWeigh ==
    ASSUME NEW s, IsCauses(s), NEW kept \in SUBSET DOMAIN s
    PROVE  Weighed(kept, Priorities(s)) /\ \A i \in kept : Priorities(s)[i] = s[i].priority
  <1>1. Len(s) \in Nat /\ DOMAIN s = 1..Len(s) /\ \A i \in DOMAIN s : s[i].priority \in Nat
    BY SeqFacts DEF IsCauses, IsCause
  <1>2. IsFiniteSet(DOMAIN s)
    BY <1>1, FS_Interval
  <1>3. kept \in SUBSET Nat
    BY <1>1
  <1>4. IsFiniteSet(kept)
    BY <1>2, FS_Subset
  <1>5. \A i \in kept : Priorities(s)[i] = s[i].priority /\ Priorities(s)[i] \in Nat
    BY <1>1 DEF Priorities
  <1> QED BY <1>3, <1>4, <1>5 DEF Weighed

(* What is about the user's own account filters only when hidden by hand.   *)
LEMMA OwnStays ==
    ASSUME NEW o, NEW did, NEW d, About(d, did, o), d.isMe, NEW context
    PROVE  /\ \A f \in ToSet(UI(d, context).filters) : f.type = "hidden"
           /\ ~ UI(d, context).noOverride
  <1> DEFINE s == d.causes
             priority == Priorities(s)
             filtering == FilteringOf(s, d.isMe, context)
  <1>1. IsCauses(s) /\ did = o.userDid
    BY AboutFacts
  <1>2. ~ UI(d, context).noOverride
    BY <1>1, UILocks
  <1>3. UI(d, context).filters = Ranked(s, filtering, priority) /\ Weighed(filtering, priority)
    <2>1. filtering \in SUBSET DOMAIN s
      BY DEF FilteringOf
    <2> QED BY <1>1, <2>1, UIFacts, PrioritiesWeigh
  <1>4. \A c : IsCause(c) /\ Filters(c, context, d.isMe) => c.type = "hidden"
    <2> SUFFICES ASSUME NEW c, IsCause(c), Filters(c, context, d.isMe) PROVE c.type = "hidden"
      OBVIOUS
    <2>1. c.type \in CauseTypes
      BY DEF IsCause
    <2>2. CASE c.type \in Blocks \union {"muted"}
      BY <2>2 DEF Filters
    <2>3. CASE c.type = "mute-word"
      BY <2>3 DEF Filters, Blocks
    <2>4. CASE c.type = "label"
      BY <2>4 DEF Filters, Blocks
    <2> QED BY <2>1, <2>2, <2>3, <2>4 DEF CauseTypes
  <1>5. \A i \in filtering : s[i].type = "hidden"
    BY <1>1, <1>4 DEF IsCauses, FilteringOf
  <1> HIDE DEF filtering, priority, s
  <1>6. ToSet(Ranked(s, filtering, priority)) = { s[i] : i \in filtering }
    BY <1>3, RankedElements
  <1> QED BY <1>2, <1>3, <1>5, <1>6

(* The first cause shown for a blur weighs no less than the others.         *)
LEMMA FirstIsStrictest ==
    ASSUME NEW d, IsCauses(d.causes), NEW context, NEW b \in ToSet(UI(d, context).blurs)
    PROVE  UI(d, context).blurs[1].priority <= b.priority
  <1> DEFINE s == d.causes
             priority == Priorities(s)
             kept == DoingOf(s, d.isMe, context, "blur")
  <1>1. UI(d, context).blurs = Ranked(s, kept, priority)
    BY UIFacts
  <1>2. Weighed(kept, priority) /\ \A i \in kept : priority[i] = s[i].priority
    <2>1. kept \in SUBSET DOMAIN s
      BY DEF DoingOf
    <2> QED BY <2>1, PrioritiesWeigh
  <1> HIDE DEF kept, priority, s
  <1>3. PICK j \in kept : b = s[j]
    BY <1>1, <1>2, RankedElements
  <1>4. PICK i \in kept : Ranked(s, kept, priority)[1] = s[i] /\ priority[i] <= priority[j]
    BY <1>2, RankedFirst
  <1> QED BY <1>1, <1>2, <1>3, <1>4

(* Of two views merged, one that may not be overridden is enough.           *)
LEMMA MergedLocks ==
    ASSUME NEW u, NEW v
    PROVE  MergeUIs(<<u, v>>).noOverride = (u.noOverride \/ v.noOverride)
  <1>1. MergeUIs(<<u, v>>).noOverride \in BOOLEAN
    BY DEF MergeUIs
  <1>2. MergeUIs(<<u, v>>).noOverride <=> \E i \in DOMAIN <<u, v>> : <<u, v>>[i].noOverride
    BY DEF MergeUIs
  <1>3. DOMAIN <<u, v>> = {1, 2} /\ <<u, v>>[1] = u /\ <<u, v>>[2] = v
    OBVIOUS
  <1>4. MergeUIs(<<u, v>>).noOverride <=> (u.noOverride \/ v.noOverride)
    BY <1>2, <1>3
  <1> QED BY <1>1, <1>4

(* The options of a user, and what the preferences in them look like.       *)
OptsFields == {"userDid", "prefs", "labelDefs"}
PrefFields == {"adultContentEnabled", "labels", "labelers", "mutedWords", "hiddenPosts"}

(* What the stored preferences are read into has every field of the         *)
(* options.                                                                 *)
LEMMA OptsFacts ==
    ASSUME NEW stored_, NEW userDid
    PROVE  LET o == Opts(stored_, userDid)
           IN /\ o = [f \in OptsFields |-> o[f]] /\ o.prefs = [f \in PrefFields |-> o.prefs[f]]
              /\ \A i \in DOMAIN o.prefs.labelers :
                    o.prefs.labelers[i] = [f \in {"did", "labels"} |-> o.prefs.labelers[i][f]]
              /\ Published(o)
  <1> DEFINE o == Opts(stored_, userDid)
             read == Interpret(stored_, <<>>)
             defs == [did \in DOMAIN LabelDefs |->
                        [i \in DOMAIN LabelDefs[did] |-> InterpretLabelValueDefinition(LabelDefs[did][i])]]
             fields == [f \in {"adultContentEnabled", "labels", "labelers", "mutedWords", "hiddenPosts"} |-> read[f]]
  <1>1. o = [userDid |-> userDid, prefs |-> fields, labelDefs |-> defs]
    BY DEF Opts
  <1>2. read.labelers = LabelersOf(stored_)
    BY DEF Interpret
  <1>3. \A i \in DOMAIN LabelersOf(stored_) :
           LabelersOf(stored_)[i] = [f \in {"did", "labels"} |-> LabelersOf(stored_)[i][f]]
    BY DEF LabelersOf
  <1>4. \A did \in DOMAIN defs :
           /\ DOMAIN defs[did] \in SUBSET Nat
           /\ \A i \in DOMAIN defs[did] : defs[did][i].flags \in SUBSET {"no-self", "adult"}
    <2> TAKE did \in DOMAIN defs
    <2>1. did \in DOMAIN LabelDefs /\ DOMAIN defs[did] = DOMAIN LabelDefs[did]
      OBVIOUS
    <2>2. DOMAIN LabelDefs[did] = 1..Len(LabelDefs[did])
      BY <2>1, LabelDefsAssumption, SeqFacts DEF IsList
    <2>3. \A def : InterpretLabelValueDefinition(def).flags \in SUBSET {"no-self", "adult"}
      BY DEF InterpretLabelValueDefinition, Def
    <2> QED BY <2>1, <2>2, <2>3
  <1> HIDE DEF read, defs
  <1>5. o.prefs = fields /\ o.labelDefs = defs /\ o.prefs.labelers = read.labelers
    BY <1>1
  <1>6. o.prefs = [f \in PrefFields |-> o.prefs[f]]
    BY <1>5 DEF PrefFields
  <1>7. o = [f \in OptsFields |-> o[f]]
    <2> HIDE DEF fields
    <2> QED BY <1>1 DEF OptsFields
  <1> HIDE DEF o, fields
  <1>8. Published(o)
    BY <1>4, <1>5 DEF Published
  <1> QED BY <1>2, <1>3, <1>5, <1>6, <1>7, <1>8 DEF o

(* Other settings of labels leave everything else as it is.                 *)
WithLabels(o, labels, labelers) == [o EXCEPT !.prefs.labels = labels, !.prefs.labelers = labelers]

(* Options that differ in label settings only have the same rules.          *)
LEMMA OtherSettings ==
    ASSUME NEW o, NEW labels, NEW labelers,
           o = [f \in OptsFields |-> o[f]], o.prefs = [f \in PrefFields |-> o.prefs[f]],
           DOMAIN labelers = DOMAIN o.prefs.labelers,
           \A i \in DOMAIN labelers : labelers[i].did = o.prefs.labelers[i].did
    PROVE  SameRules(o, WithLabels(o, labels, labelers))
  <1> DEFINE p == WithLabels(o, labels, labelers)
             prefs == [o.prefs EXCEPT !.labels = labels, !.labelers = labelers]
  <1>1. p.userDid = o.userDid /\ p.labelDefs = o.labelDefs /\ p.prefs = prefs
    BY DEF OptsFields, WithLabels
  <1>2. /\ prefs.adultContentEnabled = o.prefs.adultContentEnabled /\ prefs.mutedWords = o.prefs.mutedWords
        /\ prefs.hiddenPosts = o.prefs.hiddenPosts /\ prefs.labelers = labelers
    BY DEF PrefFields
  <1> HIDE DEF p, prefs
  <1>3. \A src : SubscribesTo(src, o) <=> SubscribesTo(src, p)
    BY <1>1, <1>2 DEF SubscribesTo
  <1>4. SameRules(o, p)
    BY <1>1, <1>2, <1>3 DEF SameRules
  <1> QED BY <1>4 DEF p

(* The two ways the property sets every label.                              *)
LEMMA WithSettingsFacts ==
    ASSUME NEW stored_, NEW userDid
    PROVE  LET o == Opts(stored_, userDid)
           IN /\ SameRules(o, WithSettings(o, AllIgnored)) /\ SameRules(o, WithSettings(o, Unset))
              /\ SameRules(o, o) /\ Published(o)
  <1> DEFINE o == Opts(stored_, userDid)
             ignored == [i \in DOMAIN o.prefs.labelers |->
                   [did |-> o.prefs.labelers[i].did, labels |-> AllIgnored(o.prefs.labelers[i].labels)]]
             unset == [i \in DOMAIN o.prefs.labelers |->
                   [did |-> o.prefs.labelers[i].did, labels |-> Unset(o.prefs.labelers[i].labels)]]
  <1>1. /\ o = [f \in OptsFields |-> o[f]] /\ o.prefs = [f \in PrefFields |-> o.prefs[f]]
        /\ \A i \in DOMAIN o.prefs.labelers :
              o.prefs.labelers[i] = [f \in {"did", "labels"} |-> o.prefs.labelers[i][f]]
        /\ Published(o)
    BY OptsFacts
  <1> HIDE DEF o
  <1>3. DOMAIN ignored = DOMAIN o.prefs.labelers
        /\ \A i \in DOMAIN ignored : ignored[i].did = o.prefs.labelers[i].did
    OBVIOUS
  <1>4. DOMAIN unset = DOMAIN o.prefs.labelers
        /\ \A i \in DOMAIN unset : unset[i].did = o.prefs.labelers[i].did
    OBVIOUS
  <1>5. WithSettings(o, AllIgnored)
          = WithLabels(o, AllIgnored(o.prefs.labels), ignored)
    BY DEF WithSettings, WithLabels
  <1>6. WithSettings(o, Unset)
          = WithLabels(o, Unset(o.prefs.labels), unset)
    BY DEF WithSettings, WithLabels
  <1> HIDE DEF ignored, unset
  <1>7. SameRules(o, WithSettings(o, AllIgnored)) /\ SameRules(o, WithSettings(o, Unset))
    BY <1>1, <1>3, <1>4, <1>5, <1>6, OtherSettings
  <1>8. SameRules(o, o)
    BY DEF SameRules
  <1> QED BY <1>1, <1>7, <1>8 DEF o

(* What is alike locks the same.                                            *)
LEMMA AlikeLocks ==
    ASSUME NEW o, NEW p, SameRules(o, p), Published(o), NEW v, IsView(v)
    PROVE  \A context : UI(Decide(v, o), context).noOverride <=> UI(Decide(v, p), context).noOverride
  <1>1. PICK did : Alike(Decide(v, o), Decide(v, p), did, o)
    BY DecideAlike
  <1>2. /\ About(Decide(v, o), did, o) /\ About(Decide(v, p), did, o)
        /\ LocksOf(Decide(v, o).causes) = LocksOf(Decide(v, p).causes)
    BY <1>1 DEF Alike
  <1> QED BY <1>2, UILocks

-------------------------------------------------------------------------------
(* What is quoted *)

(* Causes that do nothing in the middle of a list change nothing of a sort. *)
LEMMA QuietMiddle ==
    ASSUME NEW S, NEW D, NEW E, NEW R, IsCauses(S), IsCauses(D), IsCauses(E), IsCauses(R),
           \A i \in DOMAIN D : D[i].downgraded, \A i \in DOMAIN E : E[i].downgraded,
           NEW isMe, NEW context, NEW what
    PROVE  LET s == (S \o D) \o R
               t == (S \o E) \o R
               K == DoingOf(s, isMe, context, what)
               L == DoingOf(t, isMe, context, what)
           IN /\ Ranked(s, K, Priorities(s)) = Ranked(t, L, Priorities(t))
              /\ Keep(s, K) = Keep(t, L)
              /\ (\E i \in K : Final(s[i], isMe)) <=> (\E i \in L : Final(t[i], isMe))
  <1> DEFINE s == (S \o D) \o R
             t == (S \o E) \o R
             K == DoingOf(s, isMe, context, what)
             L == DoingOf(t, isMe, context, what)
             n == Len(S)
             m == Len(D)
             k == Len(E)
             r == Len(R)
             h == [i \in K |-> IF i <= n THEN i ELSE i - m + k]
             zeroK == [i \in K |-> 0]
             zeroL == [i \in L |-> 0]
  <1>1. n \in Nat /\ m \in Nat /\ k \in Nat /\ r \in Nat
    BY SeqFacts DEF IsCauses
  <1>2. \A X, Y : IsCauses(X) /\ IsCauses(Y) =>
           /\ IsCauses(X \o Y) /\ Len(X \o Y) = Len(X) + Len(Y) /\ DOMAIN (X \o Y) = 1..Len(X) + Len(Y)
           /\ \A i \in 1..Len(X) : (X \o Y)[i] = X[i]
           /\ \A i \in 1..Len(X) + Len(Y) : i > Len(X) => (X \o Y)[i] = Y[i - Len(X)]
    BY CausesConcat, ConcatFacts DEF IsCauses
  <1>3. /\ IsCauses(S \o D) /\ Len(S \o D) = n + m
        /\ \A i \in 1..n : (S \o D)[i] = S[i]
        /\ \A i \in 1..n + m : i > n => (S \o D)[i] = D[i - n]
    BY <1>2
  <1>4. /\ IsCauses(S \o E) /\ Len(S \o E) = n + k
        /\ \A i \in 1..n : (S \o E)[i] = S[i]
        /\ \A i \in 1..n + k : i > n => (S \o E)[i] = E[i - n]
    BY <1>2
  <1>5. /\ IsCauses(s) /\ DOMAIN s = 1..n + m + r
        /\ \A i \in 1..n + m : s[i] = (S \o D)[i]
        /\ \A i \in 1..n + m + r : i > n + m => s[i] = R[i - (n + m)]
    BY <1>2, <1>3
  <1>6. /\ IsCauses(t) /\ DOMAIN t = 1..n + k + r
        /\ \A i \in 1..n + k : t[i] = (S \o E)[i]
        /\ \A i \in 1..n + k + r : i > n + k => t[i] = R[i - (n + k)]
    BY <1>2, <1>4
  <1>7. DOMAIN D = 1..m /\ DOMAIN E = 1..k
    BY SeqFacts DEF IsCauses
  <1>8. \A i \in K : i \in 1..n + m + r /\ (i <= n \/ i > n + m)
    <2> SUFFICES ASSUME NEW i \in K, i > n, i <= n + m PROVE FALSE
      BY <1>1, <1>5 DEF DoingOf
    <2>1. i \in 1..n + m /\ i - n \in 1..m
      BY <1>1, <1>5 DEF DoingOf
    <2>2. s[i] = D[i - n]
      BY <1>3, <1>5, <2>1
    <2>3. ~ s[i].downgraded
      BY DEF DoingOf, Acts
    <2> HIDE DEF s
    <2> QED BY <1>7, <2>1, <2>2, <2>3
  <1>9. \A i \in L : i \in 1..n + k + r /\ (i <= n \/ i > n + k)
    <2> SUFFICES ASSUME NEW i \in L, i > n, i <= n + k PROVE FALSE
      BY <1>1, <1>6 DEF DoingOf
    <2>1. i \in 1..n + k /\ i - n \in 1..k
      BY <1>1, <1>6 DEF DoingOf
    <2>2. t[i] = E[i - n]
      BY <1>4, <1>6, <2>1
    <2>3. ~ t[i].downgraded
      BY DEF DoingOf, Acts
    <2> HIDE DEF t
    <2> QED BY <1>7, <2>1, <2>2, <2>3
  <1> HIDE DEF s, t, n, m, k, r
  <1>10. \A i \in 1..n : s[i] = S[i] /\ t[i] = S[i] /\ i \in 1..n + m + r /\ i \in 1..n + k + r
    <2>1. \A i \in 1..n : /\ i \in 1..n + m /\ i \in 1..n + k
                           /\ i \in 1..n + m + r /\ i \in 1..n + k + r
      BY <1>1
    <2> QED BY <1>3, <1>4, <1>5, <1>6, <2>1
  <1>11. \A i \in 1..n + m + r : i > n + m =>
            /\ i - m + k \in 1..n + k + r /\ i - m + k > n + k /\ s[i] = t[i - m + k]
    <2> SUFFICES ASSUME NEW i \in 1..n + m + r, i > n + m
                 PROVE  i - m + k \in 1..n + k + r /\ i - m + k > n + k /\ s[i] = t[i - m + k]
      OBVIOUS
    <2> DEFINE j == i - m + k
    <2>1. j \in 1..n + k + r /\ j > n + k /\ j - (n + k) = i - (n + m)
      BY <1>1
    <2> HIDE DEF j
    <2>2. s[i] = R[i - (n + m)]
      BY <1>5
    <2>3. t[j] = R[j - (n + k)]
      BY <1>6, <2>1
    <2>4. s[i] = t[j]
      BY <2>1, <2>2, <2>3
    <2> QED BY <2>1, <2>4 DEF j
  <1>12. \A i \in 1..n + k + r : i > n + k =>
            /\ i - k + m \in 1..n + m + r /\ i - k + m > n + m /\ (i - k + m) - m + k = i
    BY <1>1
  <1>13. \A i \in K : h[i] \in L /\ s[i] = t[h[i]]
    <2> SUFFICES ASSUME NEW i \in K PROVE h[i] \in DOMAIN t /\ s[i] = t[h[i]]
      BY DEF DoingOf
    <2>1. CASE i <= n
      <3>1. i \in 1..n
        BY <1>8, <1>1, <2>1
      <3> QED BY <1>6, <1>10, <2>1, <3>1
    <2>2. CASE ~(i <= n)
      <3>1. i \in 1..n + m + r /\ i > n + m
        BY <1>8, <2>2
      <3> QED BY <1>6, <1>11, <2>2, <3>1
    <2> QED BY <2>1, <2>2
  <1>14. \A i, j \in K : i <= j <=> h[i] <= h[j]
    <2> SUFFICES ASSUME NEW i \in K, NEW j \in K PROVE i <= j <=> h[i] <= h[j]
      OBVIOUS
    <2>1. /\ i \in 1..n + m + r /\ (i <= n \/ i > n + m)
          /\ j \in 1..n + m + r /\ (j <= n \/ j > n + m)
      BY <1>8
    <2> QED BY <1>1, <2>1
  <1>15. \A i, j \in K : h[i] = h[j] => i = j
    <2> SUFFICES ASSUME NEW i \in K, NEW j \in K, h[i] = h[j] PROVE i = j
      OBVIOUS
    <2>1. /\ i \in 1..n + m + r /\ (i <= n \/ i > n + m)
          /\ j \in 1..n + m + r /\ (j <= n \/ j > n + m)
      BY <1>8
    <2> QED BY <1>1, <2>1
  <1>16. \A l \in L : \E i \in K : h[i] = l
    <2> SUFFICES ASSUME NEW l \in L PROVE \E i \in K : h[i] = l
      OBVIOUS
    <2>1. l \in 1..n + k + r /\ (l <= n \/ l > n + k)
      BY <1>9
    <2>2. CASE l <= n
      <3>1. l \in 1..n
        BY <1>1, <2>1, <2>2
      <3>2. l \in K
        BY <1>5, <1>10, <3>1 DEF DoingOf
      <3> QED BY <2>2, <3>2
    <2>3. CASE l > n + k
      <3> DEFINE i == l - k + m
      <3>1. i \in 1..n + m + r /\ i > n + m /\ i - m + k = l
        BY <1>12, <2>1, <2>3
      <3>2. s[i] = t[l]
        BY <1>11, <3>1
      <3>3. i \in K
        BY <1>5, <3>1, <3>2 DEF DoingOf
      <3>4. ~(i <= n)
        BY <1>1, <3>1
      <3> HIDE DEF i
      <3> QED BY <3>1, <3>3, <3>4
    <2> QED BY <2>1, <2>2, <2>3
  <1>17. h \in [K -> L] /\ DOMAIN h = K
    BY <1>13
  <1> HIDE DEF h
  <1>18. h \in Bijection(K, L)
    BY <1>15, <1>16, <1>17 DEF Bijection, Injection, Surjection, IsInjective
  <1>19. /\ K \in SUBSET Nat /\ K \in SUBSET DOMAIN s
         /\ L \in SUBSET Nat /\ L \in SUBSET DOMAIN t
         /\ IsFiniteSet(DOMAIN s) /\ IsFiniteSet(DOMAIN t)
    <2>1. K \in SUBSET DOMAIN s /\ L \in SUBSET DOMAIN t
      BY DEF DoingOf
    <2>2. IsFiniteSet(1..n + m + r) /\ IsFiniteSet(1..n + k + r)
      BY <1>1, FS_Interval
    <2> QED BY <1>5, <1>6, <2>1, <2>2
  <1>20. IsFiniteSet(K) /\ IsFiniteSet(L)
    BY <1>19, FS_Subset
  <1>21. /\ \A i \in K : Priorities(s)[i] = s[i].priority /\ Priorities(s)[i] \in Nat
         /\ \A i \in L : Priorities(t)[i] = t[i].priority /\ Priorities(t)[i] \in Nat
    BY <1>5, <1>6, <1>19 DEF Priorities, IsCauses, IsCause
  <1>22. Weighed(K, Priorities(s)) /\ Weighed(L, Priorities(t))
    BY <1>19, <1>20, <1>21 DEF Weighed
  <1>23. Weighed(K, zeroK) /\ Weighed(L, zeroL)
    BY <1>19, <1>20 DEF Weighed
  <1> HIDE DEF K, L
  <1>24. Ranked(s, K, Priorities(s)) = Ranked(t, L, Priorities(t))
    <2>1. \A i \in K : Priorities(s)[i] = Priorities(t)[h[i]]
      BY <1>13, <1>21
    <2>2. \A i, j \in K :
             (Priorities(s)[i] < Priorities(s)[j] \/ (Priorities(s)[i] = Priorities(s)[j] /\ i <= j))
               <=> (Priorities(t)[h[i]] < Priorities(t)[h[j]]
                      \/ (Priorities(t)[h[i]] = Priorities(t)[h[j]] /\ h[i] <= h[j]))
      BY <2>1, <1>14
    <2> QED BY <1>13, <1>18, <1>22, <2>2, RankedSame
  <1>25. Ranked(s, K, zeroK) = Ranked(t, L, zeroL)
    <2>1. \A i \in K : zeroK[i] = 0 /\ zeroL[h[i]] = 0
      BY <1>13
    <2> HIDE DEF zeroK, zeroL
    <2>2. \A i, j \in K :
             (zeroK[i] < zeroK[j] \/ (zeroK[i] = zeroK[j] /\ i <= j))
               <=> (zeroL[h[i]] < zeroL[h[j]] \/ (zeroL[h[i]] = zeroL[h[j]] /\ h[i] <= h[j]))
      BY <2>1, <1>14
    <2> QED BY <1>13, <1>18, <1>23, <2>2, RankedSame
  <1>26. Keep(s, K) = Keep(t, L)
    BY <1>25 DEF Keep
  <1>27. (\E i \in K : Final(s[i], isMe)) <=> (\E i \in L : Final(t[i], isMe))
    <2>1. (\E i \in K : Final(s[i], isMe)) => (\E i \in L : Final(t[i], isMe))
      BY <1>13, Zenon
    <2>2. (\E i \in L : Final(t[i], isMe)) => (\E i \in K : Final(s[i], isMe))
      <3> SUFFICES ASSUME NEW l \in L, Final(t[l], isMe) PROVE \E i \in K : Final(s[i], isMe)
        OBVIOUS
      <3>1. PICK i \in K : h[i] = l
        BY <1>16
      <3> QED BY <1>13, <3>1
    <2> QED BY <2>1, <2>2, Zenon
  <1> QED BY <1>24, <1>26, <1>27 DEF K, L, s, t

(* Where muted words are looked for: of an account only whether it is       *)
(* followed is read.                                                        *)
LEMMA SameSources ==
    ASSUME NEW a, NEW b, a.following = b.following
    PROVE  /\ \A text, tags, langs : Source(text, tags, langs, a) = Source(text, tags, langs, b)
           /\ \A media, kinds, langs : Alts(media, kinds, langs, a) = Alts(media, kinds, langs, b)
           /\ \A record : OwnSources(record, a) = OwnSources(record, b)
  <1>1. \A text, tags, langs : Source(text, tags, langs, a) = Source(text, tags, langs, b)
    BY DEF Source
  <1>2. \A media, kinds, langs : Alts(media, kinds, langs, a) = Alts(media, kinds, langs, b)
    BY <1>1, Zenon DEF Alts
  <1>3. \A record : OwnSources(record, a) = OwnSources(record, b)
    BY <1>1, <1>2 DEF OwnSources
  <1> QED BY <1>1, <1>2, <1>3

(* An account with nothing said of it.                                      *)
LEMMA PlainAccount ==
    ASSUME NEW account, IsAccount(account)
    PROVE  /\ IsAccount(Plain(account)) /\ Plain(account).did = account.did
           /\ Plain(account).following = account.following
  <1> DEFINE fields == {"did", "muted", "mutedByList", "blocking", "blockingByList", "blockedBy",
                        "following", "labels", "statusLabels"}
             q == Plain(account)
  <1>1. /\ fields \subseteq DOMAIN account /\ account = [f \in DOMAIN account |-> account[f]]
        /\ IsList(account.statusLabels)
    BY DEF IsAccount, HasFields
  <1>2. q = [account EXCEPT !.muted = FALSE, !.blocking = FALSE, !.blockedBy = FALSE, !.labels = <<>>]
    BY DEF Plain
  <1> HIDE DEF q
  <1>3. DOMAIN q = DOMAIN account /\ q = [f \in DOMAIN q |-> q[f]]
    BY <1>1, <1>2
  <1>4. /\ q.did = account.did /\ q.following = account.following
        /\ q.statusLabels = account.statusLabels /\ q.labels = <<>>
    BY <1>1, <1>2
  <1>5. IsList(<<>>)
    BY DEF IsList, ToSet
  <1>6. IsAccount(q)
    BY <1>1, <1>3, <1>4, <1>5 DEF IsAccount, HasFields
  <1> QED BY <1>4, <1>6 DEF q

(* A post whose quote has nothing said of it, the same otherwise.           *)
LEMMA PlainQuoteFacts ==
    ASSUME NEW v, IsView(v), v.kind = "post", Quotes(v.embed, "viewRecord")
    PROVE  LET q == PlainQuote(v)
           IN /\ q.kind = "post" /\ q.uri = v.uri /\ q.author = v.author /\ q.labels = v.labels
              /\ q.record = v.record /\ q.embed.kind = v.embed.kind
              /\ v.embed.kind = "withMedia" => q.embed.media = v.embed.media
              /\ q.embed.record.kind = "viewRecord" /\ v.embed.record.kind = "viewRecord"
              /\ v.embed.kind \in {"record", "withMedia"}
              /\ q.embed.record.uri = v.embed.record.uri /\ q.embed.record.value = v.embed.record.value
              /\ q.embed.record.author.following = v.embed.record.author.following
              /\ IsEmbed(q.embed)
  <1> DEFINE quoted == v.embed.record
             plain == [quoted EXCEPT !.labels = <<>>, !.author = Plain(quoted.author)]
             embed == [v.embed EXCEPT !.record = plain]
             q == PlainQuote(v)
  <1>1. /\ {"kind", "uri", "author", "labels", "record", "embed"} \subseteq DOMAIN v
        /\ v = [f \in DOMAIN v |-> v[f]] /\ IsEmbed(v.embed)
    BY DEF IsView, HasFields
  <1>2. v.embed.kind \in {"record", "withMedia"} /\ quoted.kind = "viewRecord"
    BY DEF Quotes
  <1>3. /\ {"kind", "record"} \subseteq DOMAIN v.embed /\ v.embed = [f \in DOMAIN v.embed |-> v.embed[f]]
        /\ v.embed.kind = "withMedia" => "media" \in DOMAIN v.embed
        /\ {"kind", "author", "uri", "labels", "value"} \subseteq DOMAIN quoted
        /\ quoted = [f \in DOMAIN quoted |-> quoted[f]]
        /\ IsAccount(quoted.author) /\ IsRecord(quoted.value)
        /\ v.embed.kind = "withMedia" => IsMedia(v.embed.media)
    BY <1>1, <1>2 DEF IsEmbed, HasFields
  <1>4. /\ IsAccount(Plain(quoted.author)) /\ Plain(quoted.author).following = quoted.author.following
    BY <1>3, PlainAccount
  <1>5. q = [v EXCEPT !.embed = embed]
    BY DEF PlainQuote
  <1> HIDE DEF q, embed
  <1>6. /\ q.kind = v.kind /\ q.uri = v.uri /\ q.author = v.author /\ q.labels = v.labels
        /\ q.record = v.record /\ q.embed = embed
    BY <1>1, <1>5
  <1> HIDE DEF plain
  <1>7. embed = [v.embed EXCEPT !.record = plain]
    BY DEF embed
  <1>8. /\ embed.kind = v.embed.kind /\ embed.record = plain /\ DOMAIN embed = DOMAIN v.embed
        /\ embed = [f \in DOMAIN embed |-> embed[f]]
        /\ v.embed.kind = "withMedia" => embed.media = v.embed.media
    BY <1>3, <1>7
  <1> HIDE DEF quoted
  <1>9. /\ plain.kind = "viewRecord" /\ plain.uri = quoted.uri /\ plain.value = quoted.value
        /\ plain.labels = <<>> /\ plain.author = Plain(quoted.author)
        /\ DOMAIN plain = DOMAIN quoted /\ plain = [f \in DOMAIN plain |-> plain[f]]
    BY <1>2, <1>3 DEF plain
  <1>10. IsList(<<>>)
    BY DEF IsList, ToSet
  <1>11. IsEmbed(embed)
    <2>1. /\ HasFields(embed, {"kind"}) /\ embed.kind \in {"record", "withMedia"}
          /\ embed.kind = "withMedia" => "media" \in DOMAIN embed
      BY <1>2, <1>3, <1>8 DEF HasFields
    <2>2. "record" \in DOMAIN embed /\ HasFields(embed.record, {"kind"})
      BY <1>3, <1>8, <1>9 DEF HasFields
    <2>3. {"author", "uri", "labels", "value"} \subseteq DOMAIN embed.record
      BY <1>3, <1>8, <1>9
    <2>4. IsAccount(embed.record.author) /\ IsList(embed.record.labels)
      BY <1>4, <1>8, <1>9, <1>10
    <2>5. IsRecord(embed.record.value) /\ (embed.kind = "withMedia" => IsMedia(embed.media))
      BY <1>3, <1>8, <1>9
    <2> QED BY <2>1, <2>2, <2>3, <2>4, <2>5 DEF IsEmbed
  <1> QED BY <1>2, <1>4, <1>6, <1>8, <1>9, <1>11 DEF q, quoted

(* What is quoted says nothing of the quoting post itself.                  *)
LEMMA SameSubject ==
    ASSUME NEW v, IsView(v), v.kind = "post", Quotes(v.embed, "viewRecord"), NEW o
    PROVE  DecideSubject(PlainQuote(v), o) = DecideSubject(v, o)
  <1> DEFINE q == PlainQuote(v)
  <1>1. /\ q.uri = v.uri /\ q.author = v.author /\ q.labels = v.labels /\ q.record = v.record
        /\ q.embed.kind = v.embed.kind
        /\ v.embed.kind = "withMedia" => q.embed.media = v.embed.media
        /\ q.embed.record.kind = "viewRecord" /\ v.embed.record.kind = "viewRecord"
        /\ v.embed.kind \in {"record", "withMedia"}
        /\ q.embed.record.uri = v.embed.record.uri /\ q.embed.record.value = v.embed.record.value
        /\ q.embed.record.author.following = v.embed.record.author.following
    BY PlainQuoteFacts
  <1> HIDE DEF q
  <1> DEFINE a == q.embed.record.author
             b == v.embed.record.author
  <1>2. /\ \A text, tags, langs : Source(text, tags, langs, a) = Source(text, tags, langs, b)
        /\ \A media, kinds, langs : Alts(media, kinds, langs, a) = Alts(media, kinds, langs, b)
        /\ \A record : OwnSources(record, a) = OwnSources(record, b)
    BY <1>1, SameSources
  <1>3. Quotes(q.embed, "viewRecord") /\ Quotes(v.embed, "viewRecord") /\ v.embed.kind # "external"
    BY <1>1 DEF Quotes
  <1>4. QuotedSources(q.embed.record) = QuotedSources(v.embed.record)
    BY <1>1, <1>2, Zenon DEF QuotedSources
  <1>5. EmbedSources(q) = EmbedSources(v)
    <2>1. CASE v.embed.kind = "record"
      <3>1. EmbedSources(q) = QuotedSources(q.embed.record)
        BY <1>1, <1>3, <2>1 DEF EmbedSources
      <3>2. EmbedSources(v) = QuotedSources(v.embed.record)
        BY <1>3, <2>1 DEF EmbedSources
      <3> QED BY <1>4, <3>1, <3>2
    <2>2. CASE v.embed.kind = "withMedia"
      <3> DEFINE value == v.embed.record.value
                 media == v.embed.media
                 langs == IF v.record = None THEN <<>> ELSE v.record.langs
                 From_(actor) ==
                   (IF value = None THEN <<>> ELSE <<Source(value.text, value.tags, value.langs, actor)>>)
                     \o Alts(media, Pictures, langs, actor) \o Alts(media, {"external"}, <<>>, actor)
      <3>1. EmbedSources(v) = From_(b)
        BY <1>3, <2>2 DEF EmbedSources
      <3>2. q.embed.kind = "withMedia" /\ q.embed.kind # "external" /\ q.embed.kind # "record"
        BY <1>1, <2>2
      <3>3. q.embed.record.value = value /\ q.embed.media = media /\ q.record = v.record
        BY <1>1, <2>2
      <3>4. EmbedSources(q) = From_(a)
        BY <1>3, <3>2, <3>3, Zenon DEF EmbedSources
      <3>5. From_(a) = From_(b)
        BY <1>2
      <3> HIDE DEF From_
      <3> QED BY <3>1, <3>4, <3>5
    <2> QED BY <1>1, <2>1, <2>2
  <1>6. MuteSources(q) = MuteSources(v)
    BY <1>1, <1>5 DEF MuteSources
  <1>7. MatchAllMuteWords(q, o.prefs.mutedWords) = MatchAllMuteWords(v, o.prefs.mutedWords)
    BY <1>6, Zenon DEF MatchAllMuteWords
  <1>8. CheckHiddenPost(q, o.prefs.hiddenPosts) <=> CheckHiddenPost(v, o.prefs.hiddenPosts)
    BY <1>1, <1>3 DEF CheckHiddenPost
  <1>9. \A d, c : AddIf(d, CheckHiddenPost(q, o.prefs.hiddenPosts), c)
                    = AddIf(d, CheckHiddenPost(v, o.prefs.hiddenPosts), c)
    BY <1>8 DEF AddIf
  <1> DEFINE labelled == DecideContent(v.author.did, v.labels, o)
             Hidden(post) == AddHidden(labelled, CheckHiddenPost(post, o.prefs.hiddenPosts))
  <1>10. Hidden(q) = Hidden(v)
    <2> HIDE DEF labelled
    <2> QED BY <1>9, Zenon DEF AddHidden
  <1>11. /\ DecideSubject(q, o) = IF Hidden(q).isMe THEN Hidden(q)
                                  ELSE AddMatches(Hidden(q), MatchAllMuteWords(q, o.prefs.mutedWords))
         /\ DecideSubject(v, o) = IF Hidden(v).isMe THEN Hidden(v)
                                  ELSE AddMatches(Hidden(v), MatchAllMuteWords(v, o.prefs.mutedWords))
    BY <1>1, Zenon DEF DecideSubject
  <1> HIDE DEF Hidden
  <1>12. DecideSubject(q, o) = DecideSubject(v, o)
    BY <1>7, <1>10, <1>11
  <1> QED BY <1>12 DEF q

(* A post that quotes: its own causes, those of the quote, its author's.    *)
LEMMA QuotingPost ==
    ASSUME NEW o, SameRules(o, o), Published(o), NEW post, IsList(post.labels), IsAccount(post.author),
           IsEmbed(post.embed), Quotes(post.embed, "viewRecord")
    PROVE  LET S == DecideSubject(post, o).causes
               D == Downgrade(DecideEmbed(post.embed, o)).causes
               R == ModerateProfile(post.author, o).causes
           IN /\ DecidePost(post, o) = DecisionOf(post.author.did, o, (S \o D) \o R)
              /\ IsCauses(S) /\ IsCauses(D) /\ IsCauses(R) /\ \A i \in DOMAIN D : D[i].downgraded
  <1> DEFINE did == post.author.did
             subject == DecideSubject(post, o)
             down == Downgrade(DecideEmbed(post.embed, o))
             author == ModerateProfile(post.author, o)
  <1>1. About(subject, did, o) /\ About(author, did, o)
    BY SubjectAlike, AccountAlike DEF Alike
  <1>2. IsCauses(down.causes) /\ \A i \in DOMAIN down.causes : down.causes[i].downgraded
    <2>1. About(DecideEmbed(post.embed, o), post.embed.record.author.did, o)
      BY EmbedAlike DEF Alike
    <2> QED BY <2>1, DowngradeFacts
  <1>3. IsCauses(subject.causes) /\ IsCauses(author.causes)
    BY <1>1 DEF About
  <1>4. DecidePost(post, o) = Merge(Merge(subject, down), author)
    BY DEF DecidePost
  <1> HIDE DEF subject, down, author
  <1>5. Merge(subject, down) = DecisionOf(did, o, subject.causes \o down.causes)
    <2>1. \A s : [subject EXCEPT !.causes = s] = DecisionOf(did, o, s)
      BY <1>1, AboutFacts
    <2> QED BY <2>1 DEF Merge
  <1>6. Merge(subject, down).causes = subject.causes \o down.causes
    <2>1. \A s : DecisionOf(did, o, s).causes = s
      BY DecisionFacts
    <2> QED BY <1>5, <2>1, Zenon
  <1>7. About(Merge(subject, down), did, o)
    BY <1>2, <1>3, <1>5, <1>6, CausesConcat DEF About
  <1>8. Merge(Merge(subject, down), author)
          = DecisionOf(did, o, (subject.causes \o down.causes) \o author.causes)
    <2>1. \A s : [Merge(subject, down) EXCEPT !.causes = s] = DecisionOf(did, o, s)
      BY <1>7, AboutFacts
    <2> DEFINE d == Merge(subject, down)
    <2>2. Merge(d, author) = [d EXCEPT !.causes = d.causes \o author.causes]
      BY DEF Merge
    <2> QED BY <1>6, <2>1, <2>2
  <1> QED BY <1>2, <1>3, <1>4, <1>8 DEF subject, down, author

(* Nothing said of what is quoted is seen on the quoting post.              *)
LEMMA QuotesQuiet ==
    ASSUME NEW o, SameRules(o, o), Published(o), NEW v, IsView(v), v.kind = "post",
           Quotes(v.embed, "viewRecord"), NEW context
    PROVE  LET u == UI(Decide(v, o), context)
               w == UI(Decide(PlainQuote(v), o), context)
           IN /\ u.blurs = w.blurs /\ u.alerts = w.alerts /\ u.informs = w.informs
              /\ u.noOverride = w.noOverride
  <1> DEFINE q == PlainQuote(v)
             did == v.author.did
             S == DecideSubject(v, o).causes
             D == Downgrade(DecideEmbed(v.embed, o)).causes
             E == Downgrade(DecideEmbed(q.embed, o)).causes
             R == ModerateProfile(v.author, o).causes
             d == Decide(v, o)
             e == Decide(q, o)
             s == (S \o D) \o R
             t == (S \o E) \o R
  <1>1. IsList(v.labels) /\ IsAccount(v.author) /\ IsEmbed(v.embed)
    BY DEF IsView
  <1>2. /\ q.kind = "post" /\ q.author = v.author /\ q.labels = v.labels /\ IsEmbed(q.embed)
        /\ Quotes(q.embed, "viewRecord")
    BY PlainQuoteFacts DEF Quotes
  <1>3. DecideSubject(q, o) = DecideSubject(v, o)
    BY SameSubject
  <1>4. d = DecidePost(v, o) /\ e = DecidePost(q, o)
    BY <1>2 DEF Decide
  <1>5. /\ d = DecisionOf(did, o, s)
        /\ IsCauses(S) /\ IsCauses(D) /\ IsCauses(R) /\ \A i \in DOMAIN D : D[i].downgraded
    BY <1>1, <1>4, QuotingPost
  <1> HIDE DEF q
  <1>6. /\ DecidePost(q, o)
            = DecisionOf(q.author.did, o,
                         (DecideSubject(q, o).causes \o E) \o ModerateProfile(q.author, o).causes)
        /\ IsCauses(E) /\ \A i \in DOMAIN E : E[i].downgraded
    BY <1>1, <1>2, QuotingPost
  <1>7. e = DecisionOf(did, o, t)
    BY <1>2, <1>3, <1>4, <1>6
  <1> HIDE DEF d, e, S, D, E, R
  <1>8. d.causes = s /\ (d.isMe <=> (did = o.userDid))
    <2>1. \A x : /\ DecisionOf(did, o, x).causes = x
                 /\ DecisionOf(did, o, x).isMe <=> (did = o.userDid)
      BY DecisionFacts
    <2> HIDE DEF s
    <2> QED BY <1>5, <2>1, Zenon
  <1>9. e.causes = t /\ (e.isMe <=> (did = o.userDid))
    <2>1. \A x : /\ DecisionOf(did, o, x).causes = x
                 /\ DecisionOf(did, o, x).isMe <=> (did = o.userDid)
      BY DecisionFacts
    <2> HIDE DEF t
    <2> QED BY <1>7, <2>1, Zenon
  <1>10. IsCauses(s) /\ IsCauses(t)
    BY <1>5, <1>6, CausesConcat
  <1> DEFINE K(what) == DoingOf(s, d.isMe, context, what)
             L(what) == DoingOf(t, d.isMe, context, what)
             M(what) == DoingOf(t, e.isMe, context, what)
  <1>11. \A c : (Acts(c, d.isMe) <=> Acts(c, e.isMe)) /\ (Final(c, d.isMe) <=> Final(c, e.isMe))
    <2>1. d.isMe <=> e.isMe
      BY <1>8, <1>9, Zenon
    <2> QED BY <2>1 DEF Acts, Final
  <1>12. \A what : L(what) = M(what)
    BY <1>11 DEF DoingOf
  <1>13. \A what : /\ Ranked(s, K(what), Priorities(s)) = Ranked(t, L(what), Priorities(t))
                   /\ Keep(s, K(what)) = Keep(t, L(what))
                   /\ (\E i \in K(what) : Final(s[i], d.isMe)) <=> (\E i \in L(what) : Final(t[i], d.isMe))
    <2> TAKE what
    <2>1. IsCauses(S) /\ IsCauses(D) /\ IsCauses(E) /\ IsCauses(R)
      BY <1>5, <1>6
    <2>2. (\A i \in DOMAIN D : D[i].downgraded) /\ (\A i \in DOMAIN E : E[i].downgraded)
      BY <1>5, <1>6, Zenon
    <2> QED BY <2>1, <2>2, QuietMiddle, Zenon
  <1>14. /\ UI(d, context).blurs = Ranked(s, K("blur"), Priorities(s))
         /\ UI(d, context).alerts = Keep(s, K("alert")) /\ UI(d, context).informs = Keep(s, K("inform"))
         /\ UI(d, context).noOverride \in BOOLEAN
         /\ UI(d, context).noOverride <=> \E i \in K("blur") : Final(s[i], d.isMe)
    <2> HIDE DEF s
    <2> QED BY <1>8, UIFacts
  <1>15. /\ UI(e, context).blurs = Ranked(t, M("blur"), Priorities(t))
         /\ UI(e, context).alerts = Keep(t, M("alert")) /\ UI(e, context).informs = Keep(t, M("inform"))
         /\ UI(e, context).noOverride \in BOOLEAN
         /\ UI(e, context).noOverride <=> \E i \in M("blur") : Final(t[i], e.isMe)
    <2> HIDE DEF t
    <2> QED BY <1>9, UIFacts
  <1>18. (\E i \in M("blur") : Final(t[i], e.isMe)) <=> (\E i \in M("blur") : Final(t[i], d.isMe))
    BY <1>11
  <1> HIDE DEF s, t, K, L, M
  <1>19. UI(d, context).noOverride <=> UI(e, context).noOverride
    BY <1>12, <1>13, <1>14, <1>15, <1>18
  <1> QED BY <1>12, <1>13, <1>14, <1>15, <1>19 DEF d, e, q

(* What ModerationInv gives: the rules hold of every verdict.               *)
LEMMA SettingsHonoured ==
    ASSUME ModerationInv
    PROVE  DecisionsHonourSettings
  <1> DEFINE o == ShownOpts
             v == Subject
             d == Decide(v, o)
  <1> SUFFICES ASSUME verdict # None
               PROVE  OwnContentStays /\ LocksStand /\ QuotesOnlyFilter /\ StrictestFirst
    BY DEF DecisionsHonourSettings
  <1>1. verdict = d
    BY DEF ModerationInv
  <1>2. IsView(v)
    <2>1. shown.subject \in DOMAIN Subjects
      BY DEF ModerationInv
    <2> QED BY <2>1, ViewsAssumption DEF Subject
  <1>3. /\ SameRules(o, WithSettings(o, AllIgnored)) /\ SameRules(o, WithSettings(o, Unset))
        /\ SameRules(o, o) /\ Published(o)
    BY WithSettingsFacts DEF ShownOpts
  <1>4. PICK did : About(d, did, o)
    BY <1>2, <1>3, DecideAlike DEF Alike
  <1>5. IsCauses(d.causes)
    BY <1>4 DEF About
  <1>6. OwnContentStays
    BY <1>1, <1>4, OwnStays DEF OwnContentStays
  <1>7. LocksStand
    <2>1. \A context : UI(d, context).noOverride
                         <=> UI(Decide(v, WithSettings(o, AllIgnored)), context).noOverride
      BY <1>2, <1>3, AlikeLocks
    <2>2. \A context : UI(d, context).noOverride
                         <=> UI(Decide(v, WithSettings(o, Unset)), context).noOverride
      BY <1>2, <1>3, AlikeLocks
    <2> QED BY <1>1, <2>1, <2>2 DEF LocksStand
  <1>8. QuotesOnlyFilter
    <2> SUFFICES ASSUME v.kind = "post", Quotes(v.embed, "viewRecord"),
                        NEW c \in Contexts, NEW p \in {"blurs", "alerts", "informs", "noOverride"}
                 PROVE  UI(verdict, c)[p] = UI(Decide(PlainQuote(v), o), c)[p]
      BY DEF QuotesOnlyFilter
    <2> DEFINE u == UI(d, c)
               w == UI(Decide(PlainQuote(v), o), c)
    <2>1. /\ u.blurs = w.blurs /\ u.alerts = w.alerts /\ u.informs = w.informs
          /\ u.noOverride = w.noOverride
      BY <1>2, <1>3, QuotesQuiet
    <2> HIDE DEF d
    <2> QED BY <1>1, <2>1
  <1>9. StrictestFirst
    <2> DEFINE avatar == UI(verdict, "avatar")
               list == UI(verdict, "contentList")
    <2>1. MergeUIs(<<avatar, list>>).noOverride = (avatar.noOverride \/ list.noOverride)
      BY MergedLocks
    <2>2. \A c \in Contexts : \A b \in ToSet(UI(verdict, c).blurs) :
             UI(verdict, c).blurs[1].priority <= b.priority
      BY <1>1, <1>5, FirstIsStrictest
    <2> QED BY <2>1, <2>2 DEF StrictestFirst
  <1> QED BY <1>6, <1>7, <1>8, <1>9

-------------------------------------------------------------------------------
(* Muted words *)

(* A list of anything is a list.                                            *)
LEMMA ListOf ==
    ASSUME NEW S, NEW s \in Seq(S)
    PROVE  IsList(s)
  <1>1. Len(s) \in Nat /\ s = [i \in 1..Len(s) |-> s[i]]
    BY LenProperties
  <1> QED BY <1>1, AsSeq DEF IsList

(* A part of a list is one, and no longer.                                  *)
LEMMA PartFacts ==
    ASSUME NEW s, IsList(s), NEW a \in Nat, NEW b \in Nat, a >= 1, b <= Len(s)
    PROVE  LET p == SubSeq(s, a, b) IN IsList(p) /\ Len(p) \in Nat /\ Len(p) <= Len(s)
  <1> DEFINE S == { s[i] : i \in a..b }
  <1>1. Len(s) \in Nat
    BY SeqFacts DEF IsList
  <1>2. /\ SubSeq(s, a, b) \in Seq(S)
        /\ Len(SubSeq(s, a, b)) = IF a <= b THEN b - a + 1 ELSE 0
    BY SubSeqProperties
  <1>3. IsList(SubSeq(s, a, b))
    BY <1>2, ListOf
  <1> QED BY <1>1, <1>2, <1>3

(* The parts of a text are no longer than it.                               *)
LEMMA SplitFacts ==
    ASSUME NEW text, IsList(text), NEW separators
    PROVE  LET parts == Split(text, separators)
           IN /\ IsList(parts)
              /\ \A n \in DOMAIN parts : IsList(parts[n]) /\ Len(parts[n]) \in Nat
                                         /\ Len(parts[n]) <= Len(text)
  <1> DEFINE cuts == { i \in DOMAIN text : text[i] \in separators } \union {Len(text) + 1}
             zero == [i \in cuts |-> 0]
             spot == [i \in cuts |-> i]
             ends == Ranked(spot, cuts, zero)
             from(n) == IF n = 1 THEN 1 ELSE ends[n - 1] + 1
             parts == [n \in DOMAIN ends |-> SubSeq(text, from(n), ends[n] - 1)]
  <1>1. Len(text) \in Nat /\ DOMAIN text = 1..Len(text)
    BY SeqFacts DEF IsList
  <1>2. cuts \in SUBSET (1..Len(text) + 1)
    BY <1>1
  <1>3. Weighed(cuts, zero) /\ \A j \in cuts : spot[j] = j
    <2>1. IsFiniteSet(1..Len(text) + 1)
      BY <1>1, FS_Interval
    <2>2. IsFiniteSet(cuts)
      BY <1>2, <2>1, FS_Subset
    <2> HIDE DEF cuts
    <2>3. cuts \in SUBSET Nat
      BY <1>1, <1>2
    <2> QED BY <2>2, <2>3 DEF Weighed
  <1>4. \A i, j \in cuts :
           (zero[i] < zero[j] \/ (zero[i] = zero[j] /\ i <= j))
              <=> Cardinality(UpTo(i, cuts, zero)) <= Cardinality(UpTo(j, cuts, zero))
    BY <1>3, RankFacts
  <1>5. \A i, j \in cuts : zero[i] = 0 /\ zero[j] = 0
    OBVIOUS
  <1> HIDE DEF zero, cuts, spot
  <1>6. /\ DOMAIN ends = 1..Cardinality(cuts) /\ Cardinality(cuts) \in Nat
        /\ \A n \in DOMAIN ends : \E j \in cuts :
              Cardinality(UpTo(j, cuts, zero)) = n /\ ends[n] = spot[j]
    BY <1>3, RankedFacts
  <1> HIDE DEF ends
  <1>7. \A n \in DOMAIN ends : /\ ends[n] \in 1..Len(text) + 1
                               /\ n # 1 => n - 1 \in DOMAIN ends
    BY <1>2, <1>3, <1>6
  <1>8. \A n \in DOMAIN ends : IsList(parts[n]) /\ Len(parts[n]) \in Nat /\ Len(parts[n]) <= Len(text)
    <2> TAKE n \in DOMAIN ends
    <2>1. from(n) \in Nat /\ from(n) >= 1 /\ ends[n] - 1 \in Nat /\ ends[n] - 1 <= Len(text)
      BY <1>1, <1>7
    <2>2. parts[n] = SubSeq(text, from(n), ends[n] - 1)
      OBVIOUS
    <2> HIDE DEF parts, from
    <2> QED BY <2>1, <2>2, PartFacts
  <1>9. IsList(parts) /\ DOMAIN parts = DOMAIN ends
    <2>1. parts = [n \in 1..Cardinality(cuts) |-> parts[n]]
      BY <1>6
    <2> HIDE DEF parts
    <2> QED BY <1>6, <2>1, AsSeq DEF IsList
  <1>10. Split(text, separators) = parts
    BY DEF Split, Keep, parts, from, ends, spot, zero, cuts
  <1> HIDE DEF parts
  <1> QED BY <1>8, <1>9, <1>10

(* A set of numbers with a bound has a greatest, unless it is empty.        *)
LEMMA MaxOf ==
    ASSUME NEW b \in Nat, NEW T, T \subseteq 0..b, T # {}
    PROVE  Max(T) \in T /\ \A k \in T : k <= Max(T)
  <1> DEFINE R == { b - k : k \in T }
  <1>1. R \subseteq Nat /\ R # {}
    <2>1. \A k \in T : b - k \in Nat
      OBVIOUS
    <2> QED BY <2>1
  <1>2. Min(R) \in R /\ \A k \in R : Min(R) <= k
    BY <1>1, LeastOf
  <1>3. PICK h \in T : Min(R) = b - h
    BY <1>2
  <1>4. \A k \in T : h >= k /\ k \in Nat /\ h \in Nat
    <2> TAKE k \in T
    <2>1. Min(R) <= b - k
      BY <1>2
    <2>2. k \in Nat /\ h \in Nat
      OBVIOUS
    <2> HIDE DEF R
    <2> QED BY <1>3, <2>1, <2>2
  <1>5. Max(T) \in T /\ \A k \in T : Max(T) >= k
    BY <1>4 DEF Max
  <1>6. \A k \in T : k \in Nat
    BY <1>4
  <1> QED BY <1>5, <1>6

(* What is left of a word without the punctuation around it.                *)
LEMMA TrimmedFacts ==
    ASSUME NEW word, IsList(word)
    PROVE  IsList(Trimmed(word)) /\ Len(Trimmed(word)) \in Nat /\ Len(Trimmed(word)) <= Len(word)
  <1> DEFINE core == { i \in DOMAIN word : ~IsPunct(word[i]) }
  <1>1. Len(word) \in Nat /\ DOMAIN word = 1..Len(word) /\ core \in SUBSET (1..Len(word))
    BY SeqFacts DEF IsList
  <1>2. CASE core = {}
    <2>1. Trimmed(word) = <<>>
      BY <1>2 DEF Trimmed
    <2>2. <<>> \in Seq({}) /\ Len(<<>>) = 0
      OBVIOUS
    <2>3. IsList(<<>>)
      BY <2>2, ListOf
    <2> QED BY <1>1, <2>1, <2>2, <2>3
  <1>3. CASE core # {}
    <2>1. Trimmed(word) = SubSeq(word, Min(core), Max(core))
      BY <1>3 DEF Trimmed
    <2> HIDE DEF core
    <2>2. core \subseteq Nat
      BY <1>1
    <2>3. Min(core) \in core
      BY <1>3, <2>2, LeastOf
    <2>4. Max(core) \in core
      <3>1. core \subseteq 0..Len(word)
        BY <1>1
      <3> QED BY <1>1, <1>3, <3>1, MaxOf
    <2>5. \A i \in core : i \in Nat /\ i >= 1 /\ i <= Len(word)
      BY <1>1
    <2>6. Min(core) \in Nat /\ Min(core) >= 1 /\ Max(core) \in Nat /\ Max(core) <= Len(word)
      BY <2>3, <2>4, <2>5
    <2> QED BY <2>1, <2>6, PartFacts
  <1> QED BY <1>2, <1>3

(* No way to read a word is longer than it.                                 *)
LEMMA VariantsFit ==
    ASSUME NEW word, IsList(word), NEW v \in Variants(word)
    PROVE  Len(v) \in Nat /\ Len(v) <= Len(word)
  <1>1. CASE v = Spaced(word)
    BY <1>1, KeptFacts DEF Spaced
  <1>2. CASE v = Joined(word)
    BY <1>2, KeptFacts DEF Joined
  <1>3. CASE v \in Parts(word)
    <2>1. PICK n \in DOMAIN Split(word, Punctuation) : v = Split(word, Punctuation)[n]
      BY <1>3 DEF Parts, ToSet
    <2> QED BY <2>1, SplitFacts
  <1>4. v \in {Spaced(word), Joined(word)} \union Parts(word)
    BY DEF Variants
  <1> QED BY <1>1, <1>2, <1>3, <1>4

(* What is part of a text is no longer than it.                             *)
LEMMA PartsFit ==
    ASSUME NEW text, IsList(text), NEW piece, IsList(piece), Includes(text, piece)
    PROVE  Len(piece) <= Len(text)
  <1>1. Len(text) \in Nat /\ Len(piece) \in Nat
    BY SeqFacts DEF IsList
  <1>2. PICK i \in 0..Len(text) - Len(piece) : TRUE
    BY DEF Includes
  <1> QED BY <1>1, <1>2

(* A word of a text, for a muted word.                                      *)
SlashIn(word) == "/" \in ToSet(Trimmed(word))
IsWord(muted, word) == muted \in {word, Trimmed(word)}
Found(muted, words) ==
    \E i \in DOMAIN words :
       /\ IsWord(muted, words[i])
          \/ (~SlashIn(words[i]) /\ muted \in Variants(Trimmed(words[i])))
       /\ \A k \in 1..i - 1 : SlashIn(words[k]) /\ ~IsWord(muted, words[k])
                                => Len(muted) > Len(Trimmed(words[k]))

(* What is kept of a word are its variants, and of a word with a slash      *)
(* nothing.                                                                 *)
Sound(cache, words) ==
    \A i \in DOMAIN words : /\ cache[i] \in {None, Variants(Trimmed(words[i]))}
                            /\ SlashIn(words[i]) => cache[i] = None

(* So it makes no difference to how a word is read.                         *)
LEMMA LookMeans ==
    ASSUME NEW words, NEW cache, Sound(cache, words), NEW muted, NEW i \in DOMAIN words
    PROVE  LET look == Looks(muted, words, cache)[i]
               longer == Len(muted) > Len(Trimmed(words[i]))
               reads == muted \in Variants(Trimmed(words[i]))
           IN /\ look = "is" <=> IsWord(muted, words[i])
              /\ look = "slash" <=> (~IsWord(muted, words[i]) /\ ~longer /\ SlashIn(words[i]))
              /\ look = "reads" <=> (~IsWord(muted, words[i]) /\ ~longer /\ ~SlashIn(words[i]) /\ reads)
              /\ look \in {"reads", "passed"} => ~SlashIn(words[i])
  <1> DEFINE trimmed == Trimmed(words[i])
             variants == Variants(trimmed)
             longer == Len(muted) > Len(trimmed)
             look == Look(muted, words[i], trimmed, cache[i])
  <1>1. Looks(muted, words, cache)[i] = look
    BY DEF Looks
  <1>2. cache[i] \in {None, variants} /\ (SlashIn(words[i]) => cache[i] = None)
    BY DEF Sound
  <1>3. look = IF IsWord(muted, words[i]) THEN "is" ELSE IF longer THEN "short"
               ELSE IF cache[i] = None /\ SlashIn(words[i]) THEN "slash"
               ELSE IF muted \in (IF cache[i] = None THEN variants ELSE cache[i]) THEN "reads" ELSE "passed"
    BY Zenon DEF Look, IsWord, SlashIn, SlashEndsSearch
  <1> HIDE DEF look, longer, variants
  <1>4. look = IF IsWord(muted, words[i]) THEN "is" ELSE IF longer THEN "short"
               ELSE IF SlashIn(words[i]) THEN "slash"
               ELSE IF muted \in variants THEN "reads" ELSE "passed"
    BY <1>2, <1>3
  <1>5. /\ look = "is" <=> IsWord(muted, words[i])
        /\ look = "slash" <=> (~IsWord(muted, words[i]) /\ ~longer /\ SlashIn(words[i]))
        /\ look = "reads" <=> (~IsWord(muted, words[i]) /\ ~longer /\ ~SlashIn(words[i]) /\ muted \in variants)
        /\ look \in {"reads", "passed"} => ~SlashIn(words[i])
    BY <1>4
  <1> QED BY <1>1, <1>5 DEF look, longer, variants

(* The search finds a muted word where it is.                               *)
LEMMA HitMeans ==
    ASSUME NEW words, IsList(words), \A i \in DOMAIN words : IsList(words[i]),
           NEW cache, Sound(cache, words), NEW muted, Len(muted) \in Nat
    PROVE  Hit(Looks(muted, words, cache)) <=> Found(muted, words)
  <1> DEFINE looks == Looks(muted, words, cache)
             stops == { i \in DOMAIN looks : looks[i] \in {"is", "slash", "reads"} }
             Fits(i) == Len(muted) <= Len(Trimmed(words[i]))
             Reads(i) == ~SlashIn(words[i]) /\ muted \in Variants(Trimmed(words[i]))
             Clear(i) == \A k \in 1..i - 1 : SlashIn(words[k]) /\ ~IsWord(muted, words[k]) => ~Fits(k)
  <1>1. /\ Len(words) \in Nat /\ DOMAIN words = 1..Len(words)
        /\ \A i \in DOMAIN words : Len(Trimmed(words[i])) \in Nat /\ IsList(Trimmed(words[i]))
    BY SeqFacts, TrimmedFacts DEF IsList
  <1>2. \A i \in DOMAIN words : Len(muted) > Len(Trimmed(words[i])) <=> ~Fits(i)
    BY <1>1
  <1>3. looks = [i \in 1..Len(words) |-> looks[i]] /\ Len(looks) = Len(words)
    <2>1. looks = [i \in 1..Len(words) |-> looks[i]]
      BY <1>1 DEF Looks
    <2> HIDE DEF looks
    <2> QED BY <1>1, <2>1, AsSeq
  <1>4. \A i \in DOMAIN words :
           /\ looks[i] = "is" <=> IsWord(muted, words[i])
           /\ looks[i] = "slash" <=> (~IsWord(muted, words[i]) /\ Fits(i) /\ SlashIn(words[i]))
           /\ looks[i] = "reads" <=> (~IsWord(muted, words[i]) /\ Fits(i) /\ Reads(i))
    BY <1>2, LookMeans
  <1>5. \A i \in DOMAIN words : Reads(i) => Fits(i)
    <2> SUFFICES ASSUME NEW i \in DOMAIN words, Reads(i) PROVE Fits(i)
      OBVIOUS
    <2> QED BY <1>1, VariantsFit
  <1>6. Found(muted, words) <=> \E i \in DOMAIN words : (IsWord(muted, words[i]) \/ Reads(i)) /\ Clear(i)
    <2>1. \A i \in DOMAIN words : \A k \in 1..i - 1 : k \in DOMAIN words
      BY <1>1
    <2>2. \A i \in DOMAIN words :
             Clear(i) <=> \A k \in 1..i - 1 : SlashIn(words[k]) /\ ~IsWord(muted, words[k])
                                                => Len(muted) > Len(Trimmed(words[k]))
      BY <1>2, <2>1
    <2> HIDE DEF Clear
    <2> QED BY <2>2 DEF Found
  <1>7. Hit(looks) <=> \E i \in DOMAIN words : i = Reach(looks) /\ looks[i] \in {"is", "reads"}
    BY <1>1, <1>3 DEF Hit
  <1>8. Reach(looks) = IF stops = {} THEN Len(words) ELSE Min(stops)
    BY <1>3 DEF Reach
  <1>9. \A i \in stops : i \in DOMAIN words /\ i \in Nat
    BY <1>1, <1>3
  <1>10. \A i \in DOMAIN words : i \in stops <=> looks[i] \in {"is", "slash", "reads"}
    BY <1>1, <1>3
  <1>11. stops # {} => Min(stops) \in stops /\ \A k \in stops : Min(stops) <= k
    BY <1>9, LeastOf
  <1> HIDE DEF looks, stops, Fits, Reads
  <1>12. ASSUME Hit(looks) PROVE Found(muted, words)
    <2>1. PICK i \in DOMAIN words : i = Reach(looks) /\ looks[i] \in {"is", "reads"}
      BY <1>7, <1>12
    <2>2. i \in stops /\ i = Min(stops)
      BY <1>8, <1>10, <2>1
    <2>3. IsWord(muted, words[i]) \/ Reads(i)
      BY <1>4, <2>1
    <2>4. Clear(i)
      <3> SUFFICES ASSUME NEW k \in 1..i - 1, SlashIn(words[k]), ~IsWord(muted, words[k]), Fits(k)
                   PROVE  FALSE
        OBVIOUS
      <3>1. k \in DOMAIN words /\ k \in Nat /\ i \in Nat /\ k < i
        BY <1>1
      <3>2. k \in stops
        BY <1>4, <1>10, <3>1
      <3> QED BY <1>11, <2>2, <3>1, <3>2
    <2> QED BY <1>6, <2>3, <2>4
  <1>13. ASSUME Found(muted, words) PROVE Hit(looks)
    <2>1. PICK i \in DOMAIN words : (IsWord(muted, words[i]) \/ Reads(i)) /\ Clear(i)
      BY <1>6, <1>13
    <2>2. i \in stops
      BY <1>4, <1>5, <1>10, <2>1
    <2> DEFINE j == Min(stops)
    <2>3. j \in stops /\ j <= i /\ j = Reach(looks) /\ j \in DOMAIN words
      BY <1>8, <1>9, <1>11, <2>2
    <2> HIDE DEF j
    <2>4. CASE j = i
      <3>1. looks[i] \in {"is", "reads"}
        BY <1>4, <1>5, <2>1
      <3> QED BY <1>7, <2>3, <2>4, <3>1
    <2>5. CASE j # i
      <3>1. j \in 1..i - 1
        BY <1>1, <2>3, <2>5
      <3>2. ~ (SlashIn(words[j]) /\ ~IsWord(muted, words[j]) /\ Fits(j))
        BY <2>1, <3>1
      <3>3. looks[j] # "slash"
        BY <1>4, <2>3, <3>2
      <3>4. looks[j] \in {"is", "reads"}
        BY <1>10, <2>3, <3>3
      <3> QED BY <1>7, <2>3, <3>4
    <2> QED BY <2>4, <2>5
  <1> QED BY <1>12, <1>13 DEF looks

(* A search keeps nothing but variants.                                     *)
LEMMA CacheStaysSound ==
    ASSUME NEW words, NEW cache, Sound(cache, words), NEW muted
    PROVE  Sound(CacheAfter(Looks(muted, words, cache), words, cache), words)
  <1> DEFINE looks == Looks(muted, words, cache)
             after == CacheAfter(looks, words, cache)
  <1>1. \A i \in DOMAIN words : looks[i] \in {"reads", "passed"} => ~SlashIn(words[i])
    BY LookMeans
  <1> HIDE DEF looks
  <1>2. \A i \in DOMAIN words :
           \/ after[i] = cache[i]
           \/ after[i] = Variants(Trimmed(words[i])) /\ looks[i] \in {"reads", "passed"}
    BY DEF CacheAfter
  <1> HIDE DEF after
  <1>3. Sound(after, words)
    BY <1>1, <1>2 DEF Sound
  <1> QED BY <1>3 DEF after, looks


(* What is kept after the first k muted words, by the code's loop.          *)
NextKept(m, source, cache) ==
    IF IsSearched(m, source)
    THEN CacheAfter(Looks(m.value, Words(source.text), cache), Words(source.text), cache)
    ELSE cache
NothingKept(source) == [i \in DOMAIN Words(source.text) |-> None]
Keeps(f, k, mutedWords, source) ==
    f = [n \in 0..k |-> IF n = 0 THEN NothingKept(source)
                        ELSE NextKept(mutedWords[n], source, f[n - 1])]

(* There is such a function for any number of muted words.                  *)
LEMMA KeepsExists ==
    ASSUME NEW mutedWords, NEW source, NEW k \in Nat
    PROVE  \E f : Keeps(f, k, mutedWords, source)
  <1> DEFINE B == { j \in Nat : ~ \E f : Keeps(f, j, mutedWords, source) }
             m == Min(B)
  <1> SUFFICES ASSUME k \in B PROVE FALSE
    OBVIOUS
  <1>1. m \in B /\ \A j \in B : m <= j
    BY LeastOf
  <1>2. m \in Nat /\ ~ \E f : Keeps(f, m, mutedWords, source)
    BY <1>1
  <1>3. \A j \in Nat : j < m => \E f : Keeps(f, j, mutedWords, source)
    BY <1>1
  <1> HIDE DEF m, B
  <1>4. CASE m = 0
    <2> DEFINE f == [n \in 0..0 |-> NothingKept(source)]
    <2>1. \A n \in 0..0 : n = 0
      OBVIOUS
    <2>2. f = [n \in 0..0 |-> IF n = 0 THEN NothingKept(source)
                              ELSE NextKept(mutedWords[n], source, f[n - 1])]
      BY <2>1
    <2>3. Keeps(f, 0, mutedWords, source)
      BY <2>2 DEF Keeps
    <2> QED BY <1>2, <1>4, <2>3
  <1>5. CASE m # 0
    <2>1. m - 1 \in Nat /\ m - 1 < m
      BY <1>2, <1>5
    <2>2. PICK g : Keeps(g, m - 1, mutedWords, source)
      BY <1>3, <2>1
    <2> DEFINE Next_(n, c) == NextKept(mutedWords[n], source, c)
               base == NothingKept(source)
               f == [n \in 0..m |-> IF n = m THEN Next_(m, g[m - 1]) ELSE g[n]]
    <2>3. g = [n \in 0..m - 1 |-> IF n = 0 THEN base ELSE Next_(n, g[n - 1])]
      BY <2>2 DEF Keeps
    <2> HIDE DEF Next_, base
    <2>4. /\ \A n \in 0..m : n # m => n \in 0..m - 1
          /\ \A n \in 0..m : n # 0 => n - 1 \in 0..m /\ n - 1 # m
      BY <1>2
    <2>5. \A n \in 0..m - 1 : g[n] = IF n = 0 THEN base ELSE Next_(n, g[n - 1])
      <3> HIDE <2>2
      <3> QED BY <2>3
    <2>6. \A n \in 0..m : f[n] = IF n = 0 THEN base ELSE Next_(n, f[n - 1])
      <3> TAKE n \in 0..m
      <3>1. CASE n = m
        <4>1. f[n] = Next_(n, g[n - 1])
          BY <3>1
        <4>2. f[n - 1] = g[n - 1]
          BY <1>5, <2>4, <3>1
        <4> QED BY <1>5, <3>1, <4>1, <4>2
      <3>2. CASE n # m
        <4>1. f[n] = g[n] /\ n \in 0..m - 1
          BY <2>4, <3>2
        <4>2. n # 0 => f[n - 1] = g[n - 1]
          BY <2>4
        <4> QED BY <2>5, <4>1, <4>2
      <3> QED BY <3>1, <3>2
    <2>7. f = [n \in 0..m |-> f[n]]
      OBVIOUS
    <2> HIDE DEF f
    <2>8. f = [n \in 0..m |-> IF n = 0 THEN base ELSE Next_(n, f[n - 1])]
      BY <2>6, <2>7
    <2>9. Keeps(f, m, mutedWords, source)
      BY <2>8 DEF Keeps, base, Next_
    <2> QED BY <1>2, <2>9
  <1> QED BY <1>4, <1>5

(* The loop keeps nothing but variants.                                     *)
LEMMA CachedSound ==
    ASSUME NEW mutedWords, IsList(mutedWords), NEW source, NEW n \in DOMAIN mutedWords
    PROVE  Sound(Cached(mutedWords, source)[n - 1], Words(source.text))
  <1> DEFINE c == Cached(mutedWords, source)
             words == Words(source.text)
             N == Len(mutedWords)
  <1>1. N \in Nat /\ DOMAIN mutedWords = 1..N
    BY SeqFacts DEF IsList
  <1>2. \E f : Keeps(f, N, mutedWords, source)
    BY <1>1, KeepsExists
  <1>3. c = CHOOSE f : Keeps(f, N, mutedWords, source)
    BY Zenon DEF Cached, Keeps, NextKept, NothingKept
  <1>4. Keeps(c, N, mutedWords, source)
    BY <1>2, <1>3
  <1> HIDE DEF c, N
  <1>5. \A j \in 0..N : c[j] = IF j = 0 THEN NothingKept(source)
                               ELSE NextKept(mutedWords[j], source, c[j - 1])
    BY <1>4 DEF Keeps
  <1>6. \A j \in 0..N : Sound(c[j], words)
    <2> DEFINE B == { j \in 0..N : ~ Sound(c[j], words) }
               m == Min(B)
    <2> SUFFICES ASSUME B # {} PROVE FALSE
      OBVIOUS
    <2>1. B \subseteq Nat
      BY <1>1
    <2>2. m \in B /\ \A j \in B : m <= j
      BY <2>1, LeastOf
    <2>3. m \in 0..N /\ m \in Nat /\ ~ Sound(c[m], words)
      BY <2>1, <2>2
    <2>4. \A j \in 0..N : j < m => Sound(c[j], words)
      BY <2>1, <2>2, <2>3
    <2> HIDE DEF m, B, words
    <2>5. CASE m = 0
      <3>1. c[m] = NothingKept(source)
        BY <1>5, <2>3, <2>5
      <3>2. Sound(NothingKept(source), words)
        BY DEF Sound, NothingKept, words
      <3> QED BY <2>3, <3>1, <3>2
    <2>6. CASE m # 0
      <3>1. m - 1 \in 0..N /\ m - 1 < m
        BY <1>1, <2>3, <2>6
      <3>2. Sound(c[m - 1], words)
        BY <2>4, <3>1
      <3>3. c[m] = NextKept(mutedWords[m], source, c[m - 1])
        BY <1>5, <2>3, <2>6
      <3>4. Sound(NextKept(mutedWords[m], source, c[m - 1]), words)
        BY <3>2, CacheStaysSound DEF NextKept, words
      <3> QED BY <2>3, <3>3, <3>4
    <2> QED BY <2>5, <2>6
  <1>7. n - 1 \in 0..N
    BY <1>1
  <1> QED BY <1>6, <1>7 DEF c

(* A muted word matches a text when by itself it mutes it.                  *)
LEMMA MatchMeans ==
    ASSUME NEW m, IsMutedWord(m), NEW source, IsList(source.text),
           NEW cache, Sound(cache, Words(source.text))
    PROVE  IsMatch(m, source, cache) <=> Mutes(m, source)
  <1> DEFINE text == source.text
             value == m.value
             words == Words(text)
             Exception == source.langs # <<>> /\ source.langs[1] \in LANGUAGE_EXCEPTIONS
             Spacious == ToSet(value) \cap (Punctuation \union {"sp"}) # {}
             Tag == value \in ToSet(source.tags)
             Content == "content" \in m.targets
             Within == Includes(text, value)
             Fits == Len(value) <= Len(text)
             Letter == Len(value) = 1
             Same == value = text
             hit == Hit(Looks(value, words, cache))
             Skip == Skipped(m, source)
             found == Found(value, words)
  <1>1. IsList(value) /\ Len(value) \in Nat /\ Len(text) \in Nat
    BY SeqFacts DEF IsMutedWord, IsList
  <1>2. IsList(words) /\ \A i \in DOMAIN words : /\ IsList(words[i]) /\ Len(words[i]) \in Nat
                                                 /\ Len(words[i]) <= Len(text)
    BY SplitFacts DEF Words
  <1>3. hit <=> found
    BY <1>1, <1>2, HitMeans
  <1>4. Within => Fits
    BY <1>1, PartsFit
  <1>5. Same => Fits
    BY <1>1
  <1>6. found => Fits
    <2> SUFFICES ASSUME found PROVE Fits
      OBVIOUS
    <2> HIDE DEF words
    <2>1. PICK i \in DOMAIN words : \/ IsWord(value, words[i])
                                    \/ value \in Variants(Trimmed(words[i]))
      BY DEF Found
    <2> DEFINE word == words[i]
               trimmed == Trimmed(word)
    <2>2. IsList(word) /\ Len(word) \in Nat /\ Len(word) <= Len(text)
      BY <1>2
    <2> HIDE DEF word
    <2>3. IsList(trimmed) /\ Len(trimmed) \in Nat /\ Len(trimmed) <= Len(word)
      BY <2>2, TrimmedFacts
    <2> HIDE DEF trimmed
    <2>4. value \in Variants(trimmed) => Len(value) <= Len(trimmed)
      BY <2>3, VariantsFit
    <2>5. value = word \/ value = trimmed \/ value \in Variants(trimmed)
      BY <2>1 DEF IsWord, trimmed, word
    <2>6. Len(value) <= Len(word)
      BY <1>1, <2>2, <2>3, <2>4, <2>5
    <2> QED BY <1>1, <2>2, <2>6
  <1>7. MatchesAtOnce(m, source)
          <=> (~Skip /\ (Tag \/ (Content /\ (((Letter \/ Exception) /\ Within)
                                             \/ (Fits /\ (Same \/ (Spacious /\ Within)))))))
    BY Zenon DEF MatchesAtOnce
  <1>8. IsMatch(m, source, cache)
          <=> (MatchesAtOnce(m, source) \/ (~Skip /\ Content /\ Fits /\ ~MatchesAtOnce(m, source) /\ hit))
    BY Zenon DEF IsMatch, IsSearched
  <1>9. Mutes(m, source)
          <=> (~Skip /\ (Tag \/ (Content /\ (Same \/ ((Letter \/ Exception \/ Spacious) /\ Within) \/ found))))
    BY Zenon DEF Mutes, Found, Skipped, Expired, SlashIn, IsWord
  <1> HIDE DEF Exception, Spacious, Tag, Content, Within, Fits, Letter, Same, hit, Skip, found
  <1> QED BY <1>3, <1>4, <1>5, <1>6, <1>7, <1>8, <1>9

(* A list without elements.                                                 *)
LEMMA NoElements ==
    ASSUME NEW s, IsList(s)
    PROVE  s = <<>> <=> ToSet(s) = {}
  <1>1. Len(s) \in Nat /\ DOMAIN s = 1..Len(s) /\ s \in Seq(ToSet(s))
    BY SeqFacts DEF IsList
  <1>2. ASSUME s = <<>> PROVE ToSet(s) = {}
    <2>1. DOMAIN <<>> = {}
      BY EmptySeq
    <2> QED BY <1>2, <2>1 DEF ToSet
  <1>3. ASSUME ToSet(s) = {} PROVE s = <<>>
    <2>1. DOMAIN s = {}
      BY <1>3 DEF ToSet
    <2>2. Len(s) = 0
      BY <1>1, <2>1
    <2> QED BY <1>1, <2>2, EmptySeq
  <1> QED BY <1>2, <1>3

(* matchMuteWords() finds the words that mute the text, and no others.      *)
AreMutedWords(mutedWords) ==
    IsList(mutedWords) /\ \A n \in DOMAIN mutedWords : IsMutedWord(mutedWords[n])

(* The words reported for a source are the muted words that mute it.        *)
LEMMA MatchesMean ==
    ASSUME NEW mutedWords, AreMutedWords(mutedWords), NEW source, IsList(source.text)
    PROVE  LET matches == MatchMuteWords(mutedWords, source)
           IN /\ ToSet(matches) = { m \in ToSet(mutedWords) : Mutes(m, source) }
              /\ matches # <<>> <=> \E m \in ToSet(mutedWords) : Mutes(m, source)
  <1> DEFINE kept == { n \in DOMAIN mutedWords :
                         IsMatch(mutedWords[n], source, Cached(mutedWords, source)[n - 1]) }
             matches == Keep(mutedWords, kept)
  <1>1. MatchMuteWords(mutedWords, source) = matches
    BY DEF MatchMuteWords
  <1>2. IsList(mutedWords) /\ \A n \in DOMAIN mutedWords : IsMutedWord(mutedWords[n])
    BY DEF AreMutedWords
  <1>3. \A n \in DOMAIN mutedWords : n \in kept <=> Mutes(mutedWords[n], source)
    <2> TAKE n \in DOMAIN mutedWords
    <2>1. Sound(Cached(mutedWords, source)[n - 1], Words(source.text))
      BY <1>2, CachedSound
    <2>2. IsMatch(mutedWords[n], source, Cached(mutedWords, source)[n - 1]) <=> Mutes(mutedWords[n], source)
      BY <1>2, <2>1, MatchMeans
    <2> QED BY <2>2
  <1>4. kept \in SUBSET DOMAIN mutedWords
    OBVIOUS
  <1> HIDE DEF kept
  <1>5. IsList(matches) /\ ToSet(matches) = { mutedWords[n] : n \in kept }
    BY <1>2, <1>4, KeptFacts
  <1>6. ToSet(matches) = { m \in ToSet(mutedWords) : Mutes(m, source) }
    BY <1>3, <1>4, <1>5 DEF ToSet
  <1>7. matches # <<>> <=> \E m \in ToSet(mutedWords) : Mutes(m, source)
    <2>1. matches = <<>> <=> ToSet(matches) = {}
      BY <1>5, NoElements
    <2> HIDE DEF matches
    <2> QED BY <1>6, <2>1
  <1> QED BY <1>1, <1>6, <1>7


(* The texts of a post are lists.                                           *)
AreSources(sources) == IsList(sources) /\ \A i \in DOMAIN sources : IsList(sources[i].text)

(* Texts to search, one list behind another, are texts to search.           *)
LEMMA SourcesConcat ==
    ASSUME NEW s, AreSources(s), NEW t, AreSources(t)
    PROVE  AreSources(s \o t)
  <1>1. s \in Seq(ToSet(s)) /\ t \in Seq(ToSet(t))
    BY DEF AreSources, IsList
  <1>2. s \o t \in Seq(ToSet(s \o t)) /\ ToSet(s \o t) = ToSet(s) \union ToSet(t)
    BY <1>1, ConcatFacts
  <1>3. \A x \in ToSet(s) \union ToSet(t) : IsList(x.text)
    BY DEF AreSources, ToSet
  <1>4. \A i \in DOMAIN (s \o t) : (s \o t)[i] \in ToSet(s \o t)
    BY DEF ToSet
  <1> QED BY <1>2, <1>3, <1>4 DEF AreSources, IsList

(* No text at all is such a list,                                           *)
LEMMA NoSources == AreSources(<<>>)
  <1>1. <<>> \in Seq({}) /\ DOMAIN <<>> = {}
    BY EmptySeq
  <1> QED BY <1>1, ListOf DEF AreSources

(* and one text of a record is,                                             *)
LEMMA OneSource ==
    ASSUME NEW text, IsList(text), NEW tags, NEW langs, NEW actor
    PROVE  AreSources(<<Source(text, tags, langs, actor)>>)
  <1> DEFINE source == Source(text, tags, langs, actor)
  <1>1. source.text = text
    BY DEF Source
  <1> HIDE DEF source
  <1>2. <<source>> \in Seq({source}) /\ DOMAIN <<source>> = 1..1 /\ <<source>>[1] = source
    OBVIOUS
  <1>3. IsList(<<source>>)
    BY <1>2, ListOf
  <1>4. AreSources(<<source>>)
    BY <1>1, <1>2, <1>3 DEF AreSources
  <1> QED BY <1>4 DEF source

(* the alternative texts of its media are,                                  *)
LEMMA AltsAreSources ==
    ASSUME NEW media, IsMedia(media), NEW kinds, NEW langs, NEW actor
    PROVE  AreSources(Alts(media, kinds, langs, actor))
  <1> DEFINE alts == [i \in DOMAIN media.texts |-> Source(media.texts[i], <<>>, langs, actor)]
  <1>1. CASE media = None \/ media.kind \notin kinds
    <2>1. Alts(media, kinds, langs, actor) = <<>>
      BY <1>1 DEF Alts
    <2> QED BY <2>1, NoSources
  <1>2. CASE media # None /\ media.kind \in kinds
    <2>1. Alts(media, kinds, langs, actor) = alts
      BY <1>2 DEF Alts
    <2>2. IsList(media.texts) /\ \A i \in DOMAIN media.texts : IsList(media.texts[i])
      BY <1>2 DEF IsMedia
    <2>3. Len(media.texts) \in Nat /\ DOMAIN media.texts = 1..Len(media.texts)
      BY <2>2, SeqFacts DEF IsList
    <2>4. \A i \in DOMAIN alts : alts[i].text = media.texts[i]
      BY DEF Source
    <2>5. alts = [i \in 1..Len(media.texts) |-> alts[i]] /\ DOMAIN alts = DOMAIN media.texts
      BY <2>3
    <2> HIDE DEF alts
    <2>6. IsList(alts)
      BY <2>3, <2>5, AsSeq DEF IsList
    <2>7. AreSources(alts)
      BY <2>2, <2>4, <2>5, <2>6 DEF AreSources
    <2> QED BY <2>1, <2>7
  <1> QED BY <1>1, <1>2

(* all that the author of a record wrote is,                                *)
LEMMA OwnAreSources ==
    ASSUME NEW record, IsRecord(record), NEW actor
    PROVE  AreSources(OwnSources(record, actor))
  <1> DEFINE own == <<Source(record.text, record.tags, record.langs, actor)>>
             alts == Alts(record.media, Pictures, record.langs, actor)
  <1>1. CASE record = None
    BY <1>1, NoSources DEF OwnSources
  <1>2. CASE record # None
    <2>1. IsList(record.text) /\ IsMedia(record.media)
      BY <1>2 DEF IsRecord
    <2>2. AreSources(own) /\ AreSources(alts)
      BY <2>1, OneSource, AltsAreSources
    <2>3. OwnSources(record, actor) = own \o alts
      BY <1>2 DEF OwnSources
    <2> HIDE DEF own, alts
    <2> QED BY <2>2, <2>3, SourcesConcat
  <1> QED BY <1>1, <1>2

(* and so is all that is searched of a post.                                *)
LEMMA PostSources ==
    ASSUME NEW post, IsRecord(post.record), IsEmbed(post.embed)
    PROVE  AreSources(MuteSources(post))
  <1> DEFINE embed == post.embed
             quoted == embed.record
             value == quoted.value
             author == quoted.author
             langs == IF post.record = None THEN <<>> ELSE post.record.langs
             links == Alts(embed.media, {"external"}, <<>>, post.author)
             attached == Alts(value.media, {"external", "withExternal", "withImages", "withGallery"}, <<>>, author)
             text == IF value = None THEN <<>>
                     ELSE <<Source(value.text, value.tags, value.langs, author)>>
             pictures == Alts(embed.media, Pictures, langs, author)
             cards == Alts(embed.media, {"external"}, <<>>, author)
  <1>1. AreSources(OwnSources(post.record, post.author))
    BY OwnAreSources
  <1>2. AreSources(EmbedSources(post))
    <2>1. CASE embed.kind = "external"
      <3>1. IsMedia(embed.media)
        BY <2>1 DEF IsEmbed
      <3>2. EmbedSources(post) = links
        BY <2>1 DEF EmbedSources
      <3> QED BY <3>1, <3>2, AltsAreSources
    <2>2. CASE embed.kind # "external" /\ ~Quotes(embed, "viewRecord")
      <3>1. EmbedSources(post) = <<>>
        BY <2>2 DEF EmbedSources
      <3> QED BY <3>1, NoSources
    <2>3. CASE embed.kind # "external" /\ Quotes(embed, "viewRecord")
      <3>1. IsRecord(value) /\ embed.kind \in {"record", "withMedia"}
        BY <2>3 DEF IsEmbed, Quotes
      <3>2. CASE embed.kind = "record"
        <4>1. EmbedSources(post) = QuotedSources(quoted)
          BY <2>3, <3>2 DEF EmbedSources
        <4>2. CASE value = None
          <5>1. QuotedSources(quoted) = <<>>
            BY <4>2 DEF QuotedSources
          <5> QED BY <4>1, <5>1, NoSources
        <4>3. CASE value # None
          <5>1. IsMedia(value.media)
            BY <3>1, <4>3 DEF IsRecord
          <5>2. AreSources(OwnSources(value, author)) /\ AreSources(attached)
            BY <3>1, <5>1, OwnAreSources, AltsAreSources
          <5>3. QuotedSources(quoted) = OwnSources(value, author) \o attached
            BY <4>3 DEF QuotedSources
          <5> HIDE DEF attached, value, author, quoted
          <5> QED BY <4>1, <5>2, <5>3, SourcesConcat
        <4> QED BY <4>2, <4>3
      <3>3. CASE embed.kind # "record"
        <4>1. IsMedia(embed.media)
          BY <3>1, <3>3 DEF IsEmbed
        <4>2. AreSources(pictures) /\ AreSources(cards)
          BY <4>1, AltsAreSources
        <4>3. AreSources(text)
          <5>1. value # None => IsList(value.text)
            BY <3>1 DEF IsRecord
          <5> QED BY <5>1, OneSource, NoSources
        <4>4. EmbedSources(post) = text \o pictures \o cards
          BY <2>3, <3>3 DEF EmbedSources
        <4> HIDE DEF text, pictures, cards
        <4>5. AreSources(text \o pictures)
          BY <4>2, <4>3, SourcesConcat
        <4> QED BY <4>2, <4>4, <4>5, SourcesConcat
      <3> QED BY <3>2, <3>3
    <2> QED BY <2>1, <2>2, <2>3
  <1> QED BY <1>1, <1>2, SourcesConcat DEF MuteSources

(* matchAllMuteWords() finds something when some word mutes one of them.    *)
LEMMA AnyMatch ==
    ASSUME NEW post, IsRecord(post.record), IsEmbed(post.embed),
           NEW mutedWords, AreMutedWords(mutedWords)
    PROVE  MatchAllMuteWords(post, mutedWords) # <<>>
             <=> \E m \in ToSet(mutedWords), s \in ToSet(MuteSources(post)) : Mutes(m, s)
  <1> DEFINE sources == MuteSources(post)
             Matched(i) == MatchMuteWords(mutedWords, sources[i])
             hits == { i \in DOMAIN sources : Matched(i) # <<>> }
             found == MatchAllMuteWords(post, mutedWords)
  <1>1. AreSources(sources)
    BY PostSources
  <1>2. found = IF hits = {} THEN <<>> ELSE Matched(Min(hits))
    BY DEF MatchAllMuteWords
  <1> HIDE DEF sources, found
  <1>3. DOMAIN sources \subseteq Nat /\ \A i \in DOMAIN sources : IsList(sources[i].text)
    <2>1. Len(sources) \in Nat /\ DOMAIN sources = 1..Len(sources)
      BY <1>1, SeqFacts DEF AreSources, IsList
    <2> QED BY <1>1, <2>1 DEF AreSources
  <1>4. \A i \in DOMAIN sources : Matched(i) # <<>> <=> \E m \in ToSet(mutedWords) : Mutes(m, sources[i])
    <2> TAKE i \in DOMAIN sources
    <2>1. IsList(sources[i].text)
      BY <1>3
    <2> QED BY <2>1, MatchesMean
  <1> HIDE DEF Matched
  <1>5. hits # {} => Min(hits) \in hits
    <2>1. hits \subseteq Nat
      BY <1>3
    <2> HIDE DEF hits
    <2> QED BY <2>1, LeastOf
  <1>6. found # <<>> <=> hits # {}
    BY <1>2, <1>5
  <1>7. hits # {} <=> \E i \in DOMAIN sources : \E m \in ToSet(mutedWords) : Mutes(m, sources[i])
    BY <1>4
  <1> HIDE DEF hits
  <1>8. (\E i \in DOMAIN sources : \E m \in ToSet(mutedWords) : Mutes(m, sources[i]))
          <=> \E m \in ToSet(mutedWords), s \in ToSet(sources) : Mutes(m, s)
    BY Zenon DEF ToSet
  <1> QED BY <1>6, <1>7, <1>8 DEF found, sources

(* The muted words getPreferences reads are muted words.                    *)
LEMMA ReadMutedWords ==
    ASSUME NEW prefs, IsStored(prefs), NEW userDid
    PROVE  AreMutedWords(Opts(prefs, userDid).prefs.mutedWords)
  <1> DEFINE items == MutedWordItems(prefs)
             words == MutedWordsOf(prefs)
             first == First(prefs, "mutedWords")
             Target(w) == IF w.actorTarget = None THEN "all" ELSE w.actorTarget
             ReadWord(w) == [w EXCEPT !.actorTarget = Target(w)]
             named == { i \in DOMAIN prefs : IsType(prefs[i], "mutedWords") }
  <1>1. Opts(prefs, userDid).prefs.mutedWords = words
    <2>1. Interpret(prefs, <<>>).mutedWords = words
      BY DEF Interpret
    <2> HIDE DEF words
    <2> QED BY <2>1 DEF Opts
  <1>2. IsList(<<>>) /\ DOMAIN <<>> = {}
    BY NoSources, EmptySeq DEF AreSources
  <1>3. IsList(items) /\ \A n \in DOMAIN items : IsMutedWord(items[n])
    <2>1. CASE named = {}
      <3>1. items = <<>>
        BY <2>1 DEF MutedWordItems, Setting, Has
      <3> QED BY <1>2, <3>1
    <2>2. CASE named # {}
      <3>1. DOMAIN prefs = 1..Len(prefs) /\ Len(prefs) \in Nat
        BY SeqFacts DEF IsStored, IsList
      <3>2. named \subseteq Nat
        BY <3>1
      <3>3. Min(named) \in named
        BY <2>2, <3>2, LeastOf
      <3>4. first = prefs[Min(named)]
        BY <2>2 DEF First, Has
      <3>5. first.type = "mutedWords" /\ \E i \in DOMAIN prefs : first = prefs[i]
        BY <3>3, <3>4 DEF IsType
      <3> HIDE DEF first
      <3>6. IsList(first.items) /\ \A n \in DOMAIN first.items : IsMutedWord(first.items[n])
        BY <3>5 DEF IsStored
      <3>7. items = <<>> \/ items = first.items
        BY DEF MutedWordItems, Setting, Field, first
      <3> QED BY <1>2, <3>6, <3>7
    <2> QED BY <2>1, <2>2
  <1>4. \A w : ReadWord(w) = [w EXCEPT !.actorTarget = IF @ = None THEN "all" ELSE @]
    OBVIOUS
  <1>5. words = [n \in DOMAIN items |-> ReadWord(items[n])]
    BY DEF MutedWordsOf, MapSeq
  <1>6. \A w : IsMutedWord(w) => IsMutedWord(ReadWord(w))
    BY DEF IsMutedWord, HasFields
  <1> HIDE DEF ReadWord, items, words
  <1>7. Len(items) \in Nat /\ DOMAIN items = 1..Len(items)
    BY <1>3, SeqFacts DEF IsList
  <1>8. words = [n \in 1..Len(items) |-> words[n]] /\ DOMAIN words = DOMAIN items
        /\ \A n \in DOMAIN words : IsMutedWord(words[n])
    BY <1>3, <1>5, <1>6, <1>7
  <1>9. IsList(words)
    BY <1>7, <1>8, AsSeq DEF IsList
  <1> QED BY <1>1, <1>8, <1>9 DEF AreMutedWords

(* Which decisions are about muted words.                                   *)
Worded(s) == \E c \in ToSet(s) : c.type = "mute-word"

(* A muted word is behind a decision once a cause says so.                  *)
LEMMA AddWorded ==
    ASSUME NEW o, NEW did, NEW d, About(d, did, o), NEW c, IsCause(c)
    PROVE  /\ About(AddCause(d, c), did, o)
           /\ Worded(AddCause(d, c).causes) <=> (Worded(d.causes) \/ c.type = "mute-word")
  <1> DEFINE s == d.causes
  <1>1. About(AddCause(d, c), did, o)
    BY AddCauseAlike, AlikeSelf
  <1>2. /\ IsCauses(s) /\ \A x : [d EXCEPT !.causes = x] = DecisionOf(did, o, x)
    BY AboutFacts
  <1>3. AddCause(d, c).causes = Append(s, c)
    <2>1. AddCause(d, c) = DecisionOf(did, o, Append(s, c))
      BY <1>2 DEF AddCause
    <2>2. \A x : DecisionOf(did, o, x).causes = x
      BY DecisionFacts
    <2> QED BY <2>1, <2>2, Zenon
  <1>4. ToSet(Append(s, c)) = ToSet(s) \union {c}
    <2> DEFINE S == ToSet(s) \union {c}
    <2>1. Len(s) \in Nat /\ DOMAIN s = 1..Len(s) /\ s = [i \in 1..Len(s) |-> s[i]]
          /\ \A i \in 1..Len(s) : s[i] \in ToSet(s)
      BY <1>2, SeqFacts DEF IsCauses, ToSet
    <2>2. s \in [1..Len(s) -> S] /\ c \in S
      BY <2>1
    <2> HIDE DEF S, s
    <2>3. s \in Seq(S)
      BY <2>1, <2>2, Enlisted
    <2>4. /\ Len(Append(s, c)) = Len(s) + 1 /\ Append(s, c) \in Seq(S)
          /\ \A i \in 1..Len(s) : Append(s, c)[i] = s[i]
          /\ Append(s, c)[Len(s) + 1] = c
      BY <2>2, <2>3, AppendProperties
    <2>5. DOMAIN Append(s, c) = 1..Len(s) + 1
      BY <2>4, LenProperties
    <2>6. \A x : x \in ToSet(Append(s, c)) <=> \E i \in 1..Len(s) + 1 : Append(s, c)[i] = x
      BY <2>5 DEF ToSet
    <2>7. \A x : x \in ToSet(s) <=> \E i \in 1..Len(s) : s[i] = x
      BY <2>1 DEF ToSet
    <2>8. /\ \A i \in 1..Len(s) : i \in 1..Len(s) + 1
          /\ Len(s) + 1 \in 1..Len(s) + 1
          /\ \A i \in 1..Len(s) + 1 : i \in 1..Len(s) \/ i = Len(s) + 1
      BY <2>1
    <2>9. \A x : x \in ToSet(Append(s, c)) <=> (x \in ToSet(s) \/ x = c)
      BY <2>4, <2>6, <2>7, <2>8
    <2> QED BY <2>9
  <1> HIDE DEF s
  <1>5. Worded(Append(s, c)) <=> (Worded(s) \/ c.type = "mute-word")
    BY <1>4 DEF Worded
  <1> QED BY <1>1, <1>3, <1>5 DEF s

(* It is behind a merged decision when it is behind either.                 *)
LEMMA MergeWorded ==
    ASSUME NEW o, NEW did, NEW d, About(d, did, o), NEW e, IsCauses(e.causes)
    PROVE  /\ About(Merge(d, e), did, o)
           /\ Worded(Merge(d, e).causes) <=> (Worded(d.causes) \/ Worded(e.causes))
  <1>1. About(Merge(d, e), did, o)
    BY MergeAlike, AlikeSelf
  <1>2. IsCauses(d.causes) /\ \A x : [d EXCEPT !.causes = x] = DecisionOf(did, o, x)
    BY AboutFacts
  <1>3. Merge(d, e).causes = d.causes \o e.causes
    <2>1. Merge(d, e) = DecisionOf(did, o, d.causes \o e.causes)
      BY <1>2 DEF Merge
    <2>2. \A x : DecisionOf(did, o, x).causes = x
      BY DecisionFacts
    <2> QED BY <2>1, <2>2, Zenon
  <1>4. ToSet(d.causes \o e.causes) = ToSet(d.causes) \union ToSet(e.causes)
    BY <1>2, ConcatFacts DEF IsCauses
  <1>5. Worded(d.causes \o e.causes) <=> (Worded(d.causes) \/ Worded(e.causes))
    BY <1>4 DEF Worded
  <1> QED BY <1>1, <1>3, <1>5

(* A decision about an account, and not about muted words.                  *)
Wordless(d, did, o) == About(d, did, o) /\ ~Worded(d.causes)

(* A decision starts without one,                                           *)
LEMMA NewWordless ==
    ASSUME NEW o, NEW did
    PROVE  Wordless(NewDecision(did, o), did, o)
  <1>1. About(NewDecision(did, o), did, o)
    BY NewAlike DEF Alike
  <1>2. NewDecision(did, o).causes = <<>>
    BY DEF NewDecision
  <1>3. ~Worded(<<>>)
    BY NoSources, NoElements DEF Worded, AreSources
  <1> QED BY <1>1, <1>2, <1>3 DEF Wordless

(* blocks and mutes of its account add none,                                *)
LEMMA RelationsWordless ==
    ASSUME NEW o, NEW did, NEW d, Wordless(d, did, o), NEW account
    PROVE  Wordless(Relations(d, account), did, o)
  <1> DEFINE By(list) == IF list THEN "list" ELSE "user"
             Muted(x) == IF account.muted THEN AddMuted(x, By(account.mutedByList)) ELSE x
             Blocking(x) == IF account.blocking THEN AddBlocking(x, By(account.blockingByList)) ELSE x
             Blocked(x) == AddBlockedBy(x, account.blockedBy)
  <1>1. \A source :
           /\ LET c == Cause("muted", source, 6, MUTE_BEHAVIOR) IN IsCause(c) /\ c.type # "mute-word"
           /\ LET c == Cause("blocking", source, 3, BLOCK_BEHAVIOR) IN IsCause(c) /\ c.type # "mute-word"
           /\ LET c == Cause("blocked-by", source, 4, BLOCK_BEHAVIOR) IN IsCause(c) /\ c.type # "mute-word"
    BY CauseFacts DEF CauseTypes, Blocks, Cause
  <1>2. \A x, c : Wordless(x, did, o) /\ IsCause(c) /\ c.type # "mute-word"
                    => Wordless(AddCause(x, c), did, o)
    BY AddWorded DEF Wordless
  <1>3. \A x : Wordless(x, did, o) => Wordless(Muted(x), did, o)
    BY <1>1, <1>2 DEF AddMuted
  <1>4. \A x : Wordless(x, did, o) => Wordless(Blocking(x), did, o)
    BY <1>1, <1>2 DEF AddBlocking
  <1>5. \A x : Wordless(x, did, o) => Wordless(Blocked(x), did, o)
    BY <1>1, <1>2 DEF AddBlockedBy, AddIf
  <1>6. Relations(d, account) = Blocked(Blocking(Muted(d)))
    BY DEF Relations
  <1> HIDE DEF Muted, Blocking, Blocked
  <1> QED BY <1>3, <1>4, <1>5, <1>6

(* labels add none,                                                         *)
LEMMA LabelsWordless ==
    ASSUME NEW o, Published(o), NEW did, NEW d, Wordless(d, did, o),
           NEW target, NEW labels, IsList(labels)
    PROVE  Wordless(AddLabels(d, target, labels, o), did, o)
  <1> DEFINE kept == { i \in DOMAIN labels : ~Ignored(labels[i], did, o) }
             heeded == Keep(labels, kept)
             added == [i \in DOMAIN heeded |-> LabelCause(heeded[i], target, did, o)]
             e == DecisionOf(did, o, added)
  <1>1. IsList(heeded)
    BY KeptFacts
  <1>2. Len(heeded) \in Nat /\ DOMAIN heeded = 1..Len(heeded)
    BY <1>1, SeqFacts DEF IsList
  <1>3. added = [i \in 1..Len(heeded) |-> added[i]]
        /\ \A i \in 1..Len(heeded) : added[i] = LabelCause(heeded[i], target, did, o)
    BY <1>2
  <1>4. \A i \in 1..Len(heeded) :
           IsCause(LabelCause(heeded[i], target, did, o)) /\ LabelCause(heeded[i], target, did, o).type = "label"
    BY LabelCauseFacts
  <1> HIDE DEF kept, heeded, added
  <1>5. added \in Seq(ToSet(added)) /\ DOMAIN added = 1..Len(heeded)
    BY <1>2, <1>3, AsSeq
  <1>6. IsCauses(added)
    BY <1>3, <1>4, <1>5 DEF IsCauses
  <1>7. ~Worded(added)
    BY <1>3, <1>4, <1>5 DEF Worded, ToSet
  <1>8. e.causes = added
    BY DecisionFacts
  <1>9. d.did = did
    BY AboutFacts DEF Wordless
  <1>10. AddLabels(d, target, labels, o) = Merge(d, e)
    <2> HIDE DEF e
    <2>1. AddLabels(d, target, labels, o) = [d EXCEPT !.causes = d.causes \o added]
      BY <1>9 DEF AddLabels, added, heeded, kept
    <2>2. Merge(d, e) = [d EXCEPT !.causes = d.causes \o added]
      BY <1>8 DEF Merge
    <2> QED BY <2>1, <2>2
  <1> HIDE DEF e
  <1> QED BY <1>6, <1>7, <1>8, <1>10, MergeWorded DEF Wordless

(* two decisions without one make one without,                              *)
LEMMA MergeWordless ==
    ASSUME NEW o, NEW did, NEW d, Wordless(d, did, o), NEW other, NEW e, Wordless(e, other, o)
    PROVE  Wordless(Merge(d, e), did, o)
  <1>1. IsCauses(e.causes)
    BY AboutFacts DEF Wordless
  <1> QED BY <1>1, MergeWorded DEF Wordless

(* an account is decided without one,                                       *)
LEMMA AccountWordless ==
    ASSUME NEW o, Published(o), NEW account, IsAccount(account)
    PROVE  Wordless(ModerateProfile(account, o), account.did, o)
  <1>1. IsList(OnAccount(account.labels)) /\ IsList(OnProfile(account.labels))
    BY KeptFacts DEF IsAccount, OnAccount, OnProfile
  <1>2. Wordless(DecideAccount(account, o), account.did, o)
    BY <1>1, NewWordless, RelationsWordless, LabelsWordless DEF DecideAccount
  <1>3. Wordless(DecideProfile(account, o), account.did, o)
    BY <1>1, NewWordless, LabelsWordless DEF DecideProfile
  <1> QED BY <1>2, <1>3, MergeWordless DEF ModerateProfile

(* a feed generator or a list is,                                           *)
LEMMA OwnedWordless ==
    ASSUME NEW o, Published(o), NEW owner, IsAccount(owner), NEW labels, IsList(labels)
    PROVE  Wordless(DecideOwned(owner, labels, o), owner.did, o)
  <1>1. Wordless(DecideContent(owner.did, labels, o), owner.did, o)
    BY NewWordless, LabelsWordless DEF DecideContent
  <1> QED BY <1>1, AccountWordless, MergeWordless DEF DecideOwned

(* a quoted or blocked record is,                                           *)
LEMMA EmbedWordless ==
    ASSUME NEW o, Published(o), NEW embed, IsEmbed(embed),
           Quotes(embed, "viewRecord") \/ Quotes(embed, "blocked")
    PROVE  Wordless(DecideEmbed(embed, o), embed.record.author.did, o)
  <1>1. IsAccount(embed.record.author) /\ (Quotes(embed, "viewRecord") => IsList(embed.record.labels))
    BY DEF IsEmbed, Quotes
  <1>2. CASE Quotes(embed, "viewRecord")
    BY <1>1, <1>2, OwnedWordless DEF DecideEmbed
  <1>3. CASE ~Quotes(embed, "viewRecord")
    BY <1>3, NewWordless, RelationsWordless DEF DecideEmbed
  <1> QED BY <1>2, <1>3

(* and what is downgraded gains none.                                       *)
LEMMA DowngradeWordless ==
    ASSUME NEW o, NEW did, NEW d, Wordless(d, did, o)
    PROVE  IsCauses(Downgrade(d).causes) /\ ~Worded(Downgrade(d).causes)
  <1> DEFINE s == d.causes
             Down(c) == [c EXCEPT !.downgraded = TRUE]
             t == [i \in DOMAIN s |-> Down(s[i])]
  <1>1. IsCauses(Downgrade(d).causes)
    BY DowngradeFacts DEF Wordless
  <1>2. IsCauses(s) /\ \A x : [d EXCEPT !.causes = x] = DecisionOf(did, o, x)
    BY AboutFacts DEF Wordless
  <1>3. Downgrade(d) = DecisionOf(did, o, t)
    BY <1>2 DEF Downgrade
  <1>4. Downgrade(d).causes = t
    BY <1>3, DecisionFacts
  <1>5. \A i \in DOMAIN s : IsCause(s[i]) /\ s[i].type # "mute-word"
    BY <1>2 DEF IsCauses, Wordless, Worded, ToSet
  <1>6. \A c : IsCause(c) => Down(c).type = c.type
    BY DEF IsCause, CauseFields
  <1> HIDE DEF Down
  <1>7. \A i \in DOMAIN t : t[i].type # "mute-word"
    BY <1>5, <1>6
  <1>8. ~Worded(t)
    <2> HIDE DEF t
    <2> QED BY <1>7 DEF Worded, ToSet
  <1> QED BY <1>1, <1>4, <1>8

(* A post is about muted words when one matches and it is not the user's.   *)
LEMMA PostWorded ==
    ASSUME NEW o, Published(o), NEW post, IsList(post.labels), IsAccount(post.author), IsEmbed(post.embed)
    PROVE  LET d == DecidePost(post, o)
           IN /\ About(d, post.author.did, o)
              /\ Worded(d.causes)
                   <=> (~d.isMe /\ MatchAllMuteWords(post, o.prefs.mutedWords) # <<>>)
  <1> DEFINE did == post.author.did
             labelled == DecideContent(did, post.labels, o)
             hidden == AddHidden(labelled, CheckHiddenPost(post, o.prefs.hiddenPosts))
             matches == MatchAllMuteWords(post, o.prefs.mutedWords)
             subject == DecideSubject(post, o)
             quotes == Quotes(post.embed, "viewRecord") \/ Quotes(post.embed, "blocked")
             down == Downgrade(DecideEmbed(post.embed, o))
             mine == IF quotes THEN Merge(subject, down) ELSE subject
             author == ModerateProfile(post.author, o)
             isMe == (did = o.userDid)
  <1>1. /\ IsCause(Cause("hidden", "user", 6, HIDE_BEHAVIOR))
        /\ IsCause(Cause("mute-word", "user", 6, MUTEWORD_BEHAVIOR))
        /\ Cause("hidden", "user", 6, HIDE_BEHAVIOR).type = "hidden"
        /\ Cause("mute-word", "user", 6, MUTEWORD_BEHAVIOR).type = "mute-word"
    BY CauseFacts DEF CauseTypes, Blocks, Cause
  <1>2. Wordless(labelled, did, o)
    BY NewWordless, LabelsWordless DEF DecideContent
  <1> HIDE DEF labelled
  <1>3. Wordless(hidden, did, o)
    BY <1>1, <1>2, AddWorded DEF AddHidden, AddIf, Wordless
  <1>4. hidden.isMe <=> isMe
    BY <1>3, AboutFacts DEF Wordless
  <1>5. subject = IF hidden.isMe THEN hidden ELSE AddMatches(hidden, matches)
    BY DEF DecideSubject, hidden, labelled, matches
  <1> HIDE DEF hidden, matches, subject
  <1>6. /\ About(subject, did, o)
        /\ Worded(subject.causes) <=> (~isMe /\ matches # <<>>)
    <2>1. CASE isMe
      <3>1. subject = hidden
        BY <1>4, <1>5, <2>1
      <3> QED BY <1>3, <2>1, <3>1 DEF Wordless
    <2>2. CASE ~isMe
      <3>1. subject = AddMatches(hidden, matches)
        BY <1>4, <1>5, <2>2
      <3>2. CASE matches = <<>>
        <4>1. subject = hidden
          BY <3>1, <3>2 DEF AddMatches, AddIf
        <4> QED BY <1>3, <3>2, <4>1 DEF Wordless
      <3>3. CASE matches # <<>>
        <4>1. subject = AddCause(hidden, Cause("mute-word", "user", 6, MUTEWORD_BEHAVIOR))
          BY <3>1, <3>3 DEF AddMatches, AddIf
        <4>2. About(hidden, did, o)
          BY <1>3 DEF Wordless
        <4> QED BY <1>1, <2>2, <3>3, <4>1, <4>2, AddWorded
      <3> QED BY <3>2, <3>3
    <2> QED BY <2>1, <2>2
  <1>7. quotes => IsCauses(down.causes) /\ ~Worded(down.causes)
    BY EmbedWordless, DowngradeWordless
  <1>8. Wordless(author, did, o)
    BY AccountWordless
  <1> HIDE DEF down, author, quotes, isMe
  <1>9. About(mine, did, o) /\ (Worded(mine.causes) <=> Worded(subject.causes))
    BY <1>6, <1>7, MergeWorded
  <1>10. DecidePost(post, o) = Merge(mine, author)
    BY DEF DecidePost, subject, down, author, quotes
  <1> HIDE DEF mine
  <1>11. IsCauses(author.causes) /\ ~Worded(author.causes)
    BY <1>8, AboutFacts DEF Wordless
  <1>12. /\ About(Merge(mine, author), did, o)
         /\ Worded(Merge(mine, author).causes) <=> (~isMe /\ matches # <<>>)
    BY <1>6, <1>9, <1>11, MergeWorded
  <1>13. Merge(mine, author).isMe <=> isMe
    BY <1>12, AboutFacts DEF isMe
  <1> QED BY <1>10, <1>12, <1>13 DEF matches

(* What MutedWordsMute says of a verdict.                                   *)
LEMMA WordsMuteInv ==
    ASSUME ModerationInv
    PROVE  MutedWordsMute
  <1> DEFINE o == ShownOpts
             words == o.prefs.mutedWords
             sources == MuteSources(Subject)
             d == Decide(Subject, o)
  <1> SUFFICES ASSUME verdict # None, Subject.kind = "post"
               PROVE  /\ (\E i \in DOMAIN verdict.causes : verdict.causes[i].type = "mute-word")
                           <=> ((\E m \in ToSet(words), s \in ToSet(sources) : Mutes(m, s)) /\ ~verdict.isMe)
                      /\ \A s \in ToSet(sources) :
                            ToSet(MatchMuteWords(words, s)) = { m \in ToSet(words) : Mutes(m, s) }
    BY DEF MutedWordsMute
  <1>1. verdict = d /\ shown.subject \in DOMAIN Subjects /\ shown.list \in DOMAIN StoredLists
    BY DEF ModerationInv
  <1>2. /\ IsList(Subject.labels) /\ IsAccount(Subject.author) /\ IsEmbed(Subject.embed)
        /\ IsRecord(Subject.record)
    BY <1>1, ViewsAssumption DEF Subject, IsView
  <1>3. Published(o) /\ AreMutedWords(words)
    BY <1>1, StoredAssumption, OptsFacts, ReadMutedWords DEF ShownOpts
  <1>4. d = DecidePost(Subject, o)
    BY DEF Decide
  <1> HIDE DEF o, d
  <1>5. Worded(verdict.causes) <=> (~verdict.isMe /\ MatchAllMuteWords(Subject, words) # <<>>)
    BY <1>1, <1>2, <1>3, <1>4, PostWorded
  <1>6. MatchAllMuteWords(Subject, words) # <<>>
          <=> \E m \in ToSet(words), s \in ToSet(sources) : Mutes(m, s)
    BY <1>2, <1>3, AnyMatch
  <1>7. \A s \in ToSet(sources) : ToSet(MatchMuteWords(words, s)) = { m \in ToSet(words) : Mutes(m, s) }
    <2> TAKE s \in ToSet(sources)
    <2>1. AreSources(sources)
      BY <1>2, PostSources
    <2>2. IsList(s.text)
      BY <2>1 DEF AreSources, ToSet
    <2> HIDE DEF words
    <2> QED BY <1>3, <2>2, MatchesMean
  <1>8. Worded(verdict.causes) <=> \E i \in DOMAIN verdict.causes : verdict.causes[i].type = "mute-word"
    BY DEF Worded, ToSet
  <1> QED BY <1>5, <1>6, <1>7, <1>8

-------------------------------------------------------------------------------
(* Rich text *)

(* What holds of 0, and of each number next to one it holds of, holds of    *)
(* all of them.                                                             *)
LEMMA Climb ==
    ASSUME NEW K \in Nat, NEW T, 0 \in T, \A n \in 1..K : n - 1 \in T => n \in T
    PROVE  \A n \in 0..K : n \in T
  <1> DEFINE B == { n \in 0..K : n \notin T }
             m == Min(B)
  <1> SUFFICES ASSUME B # {} PROVE FALSE
    OBVIOUS
  <1>1. m \in B /\ \A n \in B : m <= n
    <2>1. B \subseteq Nat
      OBVIOUS
    <2> QED BY <2>1, LeastOf
  <1> HIDE DEF m
  <1>2. m \in 1..K /\ m \notin T /\ m - 1 \in 0..K /\ ~ (m <= m - 1)
    BY <1>1
  <1>3. m - 1 \in T
    BY <1>1, <1>2
  <1> QED BY <1>2, <1>3

(* A function whose values each follow from the one before.                 *)
Iterates(f, K, g, b) == f = [n \in 0..K |-> IF n = 0 THEN b ELSE g[<<n, f[n - 1]>>]]

(* An iteration over a set closed under its step stays in that set.         *)
LEMMA IteratesExist ==
    ASSUME NEW K \in Nat, NEW g, NEW b, NEW S, b \in S,
           \A n \in 1..K : \A c \in S : g[<<n, c>>] \in S
    PROVE  \E f : Iterates(f, K, g, b) /\ \A n \in 0..K : f[n] \in S
  <1> DEFINE Good(f, n) == Iterates(f, n, g, b) /\ \A k \in 0..n : f[k] \in S
             T == { n \in 0..K : \E f : Good(f, n) }
  <1>1. 0 \in T
    <2> DEFINE f == [n \in 0..0 |-> b]
    <2>1. \A n \in 0..0 : n = 0
      OBVIOUS
    <2>2. f = [n \in 0..0 |-> IF n = 0 THEN b ELSE g[<<n, f[n - 1]>>]] /\ \A k \in 0..0 : f[k] \in S
      BY <2>1
    <2>3. Good(f, 0)
      BY <2>2 DEF Iterates
    <2> QED BY <2>3
  <1>2. ASSUME NEW m \in 1..K, m - 1 \in T
        PROVE  m \in T
    <2>1. PICK h : Good(h, m - 1)
      BY <1>2
    <2> DEFINE f == [n \in 0..m |-> IF n = m THEN g[<<m, h[m - 1]>>] ELSE h[n]]
    <2>2. /\ h = [n \in 0..m - 1 |-> IF n = 0 THEN b ELSE g[<<n, h[n - 1]>>]]
          /\ \A k \in 0..m - 1 : h[k] \in S
      BY <2>1 DEF Iterates
    <2>3. /\ \A n \in 0..m : n # m => n \in 0..m - 1
          /\ \A n \in 0..m : n # 0 => n - 1 \in 0..m /\ n - 1 # m
          /\ m # 0 /\ m - 1 \in 0..m - 1 /\ m - 1 # m /\ m \in 0..K
      BY <1>2
    <2>4. \A n \in 0..m - 1 : h[n] = IF n = 0 THEN b ELSE g[<<n, h[n - 1]>>]
      BY <2>2
    <2>5. \A n \in 0..m : f[n] = IF n = 0 THEN b ELSE g[<<n, f[n - 1]>>]
      <3> TAKE n \in 0..m
      <3>1. CASE n = m
        <4>1. f[n] = g[<<n, h[n - 1]>>] /\ f[n - 1] = h[n - 1]
          BY <2>3, <3>1
        <4> QED BY <2>3, <3>1, <4>1
      <3>2. CASE n # m
        <4>1. f[n] = h[n] /\ n \in 0..m - 1
          BY <2>3, <3>2
        <4>2. n # 0 => f[n - 1] = h[n - 1]
          BY <2>3
        <4> QED BY <2>4, <4>1, <4>2
      <3> QED BY <3>1, <3>2
    <2>6. \A n \in 0..m : f[n] \in S
      <3>1. g[<<m, h[m - 1]>>] \in S
        BY <1>2, <2>2, <2>3
      <3> QED BY <2>2, <2>3, <3>1
    <2>7. f = [n \in 0..m |-> f[n]]
      OBVIOUS
    <2> HIDE DEF f
    <2>8. Good(f, m)
      BY <2>5, <2>6, <2>7 DEF Iterates
    <2> QED BY <2>3, <2>8
  <1> HIDE DEF T
  <1>3. \A n \in 0..K : n \in T
    BY <1>1, <1>2, Climb
  <1>4. K \in T
    BY <1>3
  <1> QED BY <1>4 DEF T

-------------------------------------------------------------------------------
(* Offsets *)

IsWidth(w) == w \in [Kinds -> Nat \ {0}]

(* Each kind of symbol takes up some bytes, and some units.                 *)
LEMMA Widths == IsWidth(Utf8) /\ IsWidth(Utf16)
  BY DEF IsWidth, Utf8, Utf16, Kinds

(* A text is a sequence of records.                                         *)
LEMMA TextFacts ==
    ASSUME NEW t, IsText(t)
    PROVE  /\ IsList(t) /\ Len(t) \in Nat /\ DOMAIN t = 1..Len(t)
           /\ t \in [1..Len(t) -> [id : Nat, kind : Kinds]]
           /\ \A i \in 1..Len(t) : t[i].id \in Nat /\ t[i].kind \in Kinds
  <1>1. t \in Seq([id : Nat, kind : Kinds])
    BY DEF IsText
  <1>2. IsList(t) /\ Len(t) \in Nat /\ DOMAIN t = 1..Len(t) /\ t \in [1..Len(t) -> [id : Nat, kind : Kinds]]
    BY <1>1, ListOf, LenProperties
  <1>3. \A i \in 1..Len(t) : t[i].id \in Nat /\ t[i].kind \in Kinds
    BY <1>2
  <1> QED BY <1>2, <1>3

(* The offsets of a text rise from 0 by the width of each symbol.           *)
LEMMA OffsetsFacts ==
    ASSUME NEW t, IsText(t), NEW w, IsWidth(w)
    PROVE  LET at == Offsets(t, w)
           IN /\ at \in [0..Len(t) -> Nat] /\ at[0] = 0
              /\ \A k \in 1..Len(t) : at[k] = at[k - 1] + w[t[k].kind] /\ at[k - 1] < at[k]
              /\ \A j, k \in 0..Len(t) : j < k => at[j] < at[k]
  <1> DEFINE K == Len(t)
             Rec(at) == at = [k \in 0..K |-> IF k = 0 THEN 0 ELSE at[k - 1] + w[t[k].kind]]
             g == [p \in (1..K) \X Nat |-> p[2] + w[t[p[1]].kind]]
  <1>1. K \in Nat /\ \A k \in 1..K : w[t[k].kind] \in Nat /\ w[t[k].kind] > 0
    BY TextFacts DEF IsWidth
  <1>2. \A n \in 1..K : \A c \in Nat : g[<<n, c>>] = c + w[t[n].kind]
    OBVIOUS
  <1> HIDE DEF g
  <1>3. \A n \in 1..K : \A c \in Nat : g[<<n, c>>] \in Nat
    <2> TAKE n \in 1..K
    <2> TAKE c \in Nat
    <2>1. w[t[n].kind] \in Nat /\ g[<<n, c>>] = c + w[t[n].kind]
      BY <1>1, <1>2
    <2> QED BY <2>1
  <1>4. PICK f : Iterates(f, K, g, 0) /\ \A n \in 0..K : f[n] \in Nat
    BY <1>1, <1>3, IteratesExist
  <1>5. Rec(f)
    <2>1. f = [n \in 0..K |-> IF n = 0 THEN 0 ELSE g[<<n, f[n - 1]>>]]
      BY <1>4 DEF Iterates
    <2>2. \A n \in 0..K : n # 0 => n \in 1..K /\ n - 1 \in 0..K
      BY <1>1
    <2>3. \A n \in 0..K : n # 0 => g[<<n, f[n - 1]>>] = f[n - 1] + w[t[n].kind]
      BY <1>2, <1>4, <2>2
    <2> QED BY <2>1, <2>3
  <1> DEFINE at == Offsets(t, w)
  <1>6. Rec(at)
    <2>1. at = CHOOSE a : Rec(a)
      BY Zenon DEF Offsets
    <2> HIDE DEF Rec, at
    <2> QED BY <1>5, <2>1
  <1> HIDE DEF at
  <1>7. \A k \in 0..K : at[k] \in Nat
    <2> DEFINE T == { k \in 0..K : at[k] \in Nat }
    <2>1. 0 \in T
      BY <1>1, <1>6
    <2>2. \A n \in 1..K : n - 1 \in T => n \in T
      <3> TAKE n \in 1..K
      <3>1. at[n] = at[n - 1] + w[t[n].kind] /\ n \in 0..K
        BY <1>1, <1>6
      <3> QED BY <1>1, <3>1
    <2> HIDE DEF T
    <2>3. \A n \in 0..K : n \in T
      BY <1>1, <2>1, <2>2, Climb
    <2> QED BY <2>3 DEF T
  <1>8. at \in [0..K -> Nat] /\ at[0] = 0
    BY <1>1, <1>6, <1>7
  <1>9. \A k \in 1..K : at[k] = at[k - 1] + w[t[k].kind] /\ at[k - 1] < at[k]
    <2> TAKE k \in 1..K
    <2>1. at[k] = at[k - 1] + w[t[k].kind] /\ k \in 0..K /\ k - 1 \in 0..K
      BY <1>1, <1>6
    <2> QED BY <1>1, <1>7, <2>1
  <1>10. \A j, k \in 0..K : j < k => at[j] < at[k]
    <2> TAKE j \in 0..K
    <2> DEFINE T == { k \in 0..K : j < k => at[j] < at[k] }
    <2>1. 0 \in T
      BY <1>1
    <2>2. \A n \in 1..K : n - 1 \in T => n \in T
      <3> TAKE n \in 1..K
      <3>1. n \in 0..K /\ n - 1 \in 0..K /\ at[n - 1] < at[n]
        BY <1>1, <1>9
      <3>2. at[j] \in Nat /\ at[n] \in Nat /\ at[n - 1] \in Nat
        BY <1>7, <3>1
      <3>3. j < n => j < n - 1 \/ j = n - 1
        BY <1>1
      <3> QED BY <3>1, <3>2, <3>3
    <2> HIDE DEF T
    <2>3. \A n \in 0..K : n \in T
      BY <1>1, <2>1, <2>2, Climb
    <2> QED BY <2>3 DEF T
  <1> QED BY <1>8, <1>9, <1>10 DEF at

(* The symbols that fit before an offset are the first ones.                *)
LEMMA HeldFacts ==
    ASSUME NEW t, IsText(t), NEW w, IsWidth(w), NEW n \in Nat
    PROVE  LET h == Held(t, n, w)
           IN /\ h \in 0..Len(t)
              /\ \A k \in 0..Len(t) : k <= h <=> Offsets(t, w)[k] <= n
  <1> DEFINE K == Len(t)
             at == Offsets(t, w)
             T == { k \in 0..K : at[k] <= n }
             R == { K - k : k \in T }
             h == K - Min(R)
  <1>1. /\ K \in Nat /\ at \in [0..K -> Nat] /\ at[0] = 0
        /\ \A j, k \in 0..K : j < k => at[j] < at[k]
    BY TextFacts, OffsetsFacts
  <1> HIDE DEF K, at
  <1>2. Min(R) \in R /\ \A k \in R : Min(R) <= k
    <2>1. 0 \in T
      BY <1>1
    <2>2. R # {} /\ R \subseteq Nat
      BY <1>1, <2>1
    <2> QED BY <2>2, LeastOf
  <1>3. h \in T /\ \A k \in T : k <= h
    <2>1. PICK k0 \in T : Min(R) = K - k0
      BY <1>2
    <2>2. h = k0
      BY <1>1, <2>1
    <2>3. \A k \in T : K - k0 <= K - k
      BY <1>2, <2>1
    <2> HIDE DEF R
    <2> QED BY <1>1, <2>2, <2>3
  <1> HIDE DEF h
  <1>4. h \in 0..K /\ \A k \in 0..K : k <= h <=> at[k] <= n
    <2>1. h \in 0..K /\ at[h] <= n
      BY <1>3
    <2> HIDE DEF T
    <2>2. \A k \in 0..K : at[k] <= n => k <= h
      BY <1>3 DEF T
    <2>3. ASSUME NEW k \in 0..K, k <= h
          PROVE  at[k] <= n
      <3>1. k = h \/ at[k] < at[h]
        BY <1>1, <2>1, <2>3
      <3>2. at[k] \in Nat /\ at[h] \in Nat
        BY <1>1, <2>1
      <3> QED BY <2>1, <3>1, <3>2
    <2> QED BY <2>1, <2>2, <2>3
  <1>5. Max(T) = h
    <2>1. Max(T) \in T /\ \A k \in T : Max(T) >= k
      <3>1. \E m \in T : \A k \in T : m >= k
        BY <1>1, <1>3
      <3> QED BY <3>1 DEF Max
    <2>2. Max(T) \in 0..K
      BY <2>1
    <2>3. Max(T) >= h /\ Max(T) <= h
      BY <1>3, <2>1
    <2> HIDE DEF T
    <2> QED BY <1>1, <1>4, <2>2, <2>3
  <1>6. Held(t, n, w) = h
    BY <1>5 DEF Held, K, at
  <1> QED BY <1>4, <1>6 DEF K, at

-------------------------------------------------------------------------------
(* Where the symbols of a text end *)

(* A symbol of the text ends at an offset.                                  *)
EndsAt(t, x, n) == \E i \in DOMAIN t : t[i].id = x /\ Offsets(t, Utf8)[i] = n

(* Each symbol ends at one offset, within the text, and those offsets are   *)
(* the boundaries other than 0.                                             *)
LEMMA EndsFacts ==
    ASSUME NEW t, IsText(t)
    PROVE  /\ Length(t) \in Nat /\ Length(t) \in Boundaries(t) /\ 0 \in Boundaries(t)
           /\ \A x, n : EndsAt(t, x, n) => n \in Nat /\ n > 0 /\ n <= Length(t) /\ x \in Nat
           /\ \A x, m, n : EndsAt(t, x, m) /\ EndsAt(t, x, n) => m = n
           /\ \A n : n \in Boundaries(t) <=> n = 0 \/ \E x : EndsAt(t, x, n)
           /\ \A n \in Boundaries(t) : n \in Nat /\ n <= Length(t)
  <1> DEFINE K == Len(t)
             at == Offsets(t, Utf8)
  <1>1. /\ K \in Nat /\ at \in [0..K -> Nat] /\ at[0] = 0 /\ DOMAIN t = 1..K
        /\ \A j, k \in 0..K : j < k => at[j] < at[k]
        /\ \A i \in 1..K : t[i].id \in Nat
        /\ \A i, j \in 1..K : t[i].id = t[j].id => i = j
    <2>1. /\ K \in Nat /\ at \in [0..K -> Nat] /\ at[0] = 0 /\ DOMAIN t = 1..K
          /\ \A j, k \in 0..K : j < k => at[j] < at[k]
      BY TextFacts, OffsetsFacts, Widths
    <2>2. \A i \in 1..K : t[i].id \in Nat
      BY TextFacts
    <2>3. \A i, j \in DOMAIN t : t[i].id = t[j].id => i = j
      BY DEF IsText
    <2> HIDE DEF K, at
    <2> QED BY <2>1, <2>2, <2>3
  <1>2. /\ Length(t) = at[K]
        /\ Boundaries(t) = { at[k] : k \in 0..K }
        /\ \A x, n : EndsAt(t, x, n) <=> \E i \in 1..K : t[i].id = x /\ at[i] = n
    BY <1>1 DEF Length, Size, Boundaries, EndsAt
  <1> HIDE DEF K, at
  <1>3. \A k \in 0..K : at[k] \in Nat /\ at[k] <= at[K]
    <2> TAKE k \in 0..K
    <2>1. k = K \/ k < K
      BY <1>1
    <2>2. at[k] \in Nat /\ at[K] \in Nat
      BY <1>1
    <2>3. k < K => at[k] < at[K]
      BY <1>1
    <2> QED BY <2>1, <2>2, <2>3
  <1>4. \A k \in 1..K : at[k] > 0
    <2> TAKE k \in 1..K
    <2>1. at[0] < at[k]
      BY <1>1
    <2> QED BY <1>1, <1>3, <2>1
  <1>5. \A x, n : EndsAt(t, x, n) => n \in Nat /\ n > 0 /\ n <= Length(t) /\ x \in Nat
    <2> TAKE x, n
    <2> HAVE EndsAt(t, x, n)
    <2>1. PICK i \in 1..K : t[i].id = x /\ at[i] = n
      BY <1>2
    <2>2. i \in 0..K
      BY <1>1
    <2> QED BY <1>1, <1>2, <1>3, <1>4, <2>1, <2>2
  <1>6. \A x, m, n : EndsAt(t, x, m) /\ EndsAt(t, x, n) => m = n
    BY <1>1, <1>2
  <1>7. \A n : n \in Boundaries(t) <=> n = 0 \/ \E x : EndsAt(t, x, n)
    <2> TAKE n
    <2>1. n \in Boundaries(t) <=> \E k \in 0..K : at[k] = n
      BY <1>2
    <2>2. \A k \in 0..K : k = 0 \/ k \in 1..K
      BY <1>1
    <2>3. 0 \in 0..K /\ 1..K \subseteq 0..K
      BY <1>1
    <2>4. (\E x : EndsAt(t, x, n)) <=> \E i \in 1..K : at[i] = n
      <3>1. \A x : EndsAt(t, x, n) <=> \E i \in 1..K : t[i].id = x /\ at[i] = n
        BY <1>2
      <3> QED BY <3>1, Zenon
    <2>5. (\E k \in 0..K : at[k] = n) <=> at[0] = n \/ \E i \in 1..K : at[i] = n
      BY <2>2, <2>3
    <2> QED BY <1>1, <2>1, <2>4, <2>5
  <1>8. \A n \in Boundaries(t) : n \in Nat /\ n <= Length(t)
    BY <1>2, <1>3
  <1>9. Length(t) \in Nat /\ Length(t) \in Boundaries(t) /\ 0 \in Boundaries(t)
    <2>1. 0 \in 0..K /\ K \in 0..K
      BY <1>1
    <2> QED BY <1>1, <1>2, <1>3, <2>1
  <1> QED BY <1>5, <1>6, <1>7, <1>8, <1>9

(* A slice holds the symbols that end after its start and not after its end. *)
LEMMA SliceIds ==
    ASSUME NEW t, IsText(t), NEW a \in Nat, NEW b \in Nat
    PROVE  \A x : x \in IdsOf(Slice(t, a, b)) <=> \E n : EndsAt(t, x, n) /\ a < n /\ n <= b
  <1> DEFINE K == Len(t)
             at == Offsets(t, Utf8)
             ha == Held(t, a, Utf8)
             hb == Held(t, b, Utf8)
             s == SubSeq(t, ha + 1, hb)
  <1>1. /\ K \in Nat /\ at \in [0..K -> Nat] /\ DOMAIN t = 1..K
        /\ ha \in 0..K /\ \A k \in 0..K : k <= ha <=> at[k] <= a
        /\ hb \in 0..K /\ \A k \in 0..K : k <= hb <=> at[k] <= b
    BY TextFacts, OffsetsFacts, HeldFacts, Widths
  <1>2. \A x, n : EndsAt(t, x, n) <=> \E i \in 1..K : t[i].id = x /\ at[i] = n
    BY <1>1 DEF EndsAt
  <1>3. Slice(t, a, b) = s
    BY DEF Slice
  <1>4. /\ \A i \in DOMAIN s : ha + i \in 1..K /\ ha + i > ha /\ ha + i <= hb /\ s[i] = t[ha + i]
        /\ \A j \in 1..K : j > ha /\ j <= hb => j - ha \in DOMAIN s /\ s[j - ha] = t[j]
    <2>0. t \in Seq([id : Nat, kind : Kinds]) /\ t \in [1..K -> [id : Nat, kind : Kinds]]
      BY TextFacts DEF IsText
    <2> HIDE DEF ha, hb, K, at
    <2>1. /\ t \in Seq([id : Nat, kind : Kinds])
          /\ \A i \in ha + 1..hb : t[i] \in [id : Nat, kind : Kinds]
      BY <1>1, <2>0
    <2>2. /\ DOMAIN s = 1..(IF ha + 1 <= hb THEN hb - (ha + 1) + 1 ELSE 0)
          /\ \A i \in 1..hb - (ha + 1) + 1 : s[i] = t[ha + 1 + i - 1]
      <3>1. ha + 1 \in Int /\ hb \in Int
        BY <1>1
      <3>2. /\ s \in Seq([id : Nat, kind : Kinds])
            /\ Len(s) = IF ha + 1 <= hb THEN hb - (ha + 1) + 1 ELSE 0
            /\ \A i \in 1..hb - (ha + 1) + 1 : s[i] = t[ha + 1 + i - 1]
        BY <2>1, <3>1, SubSeqProperties
      <3>3. DOMAIN s = 1..Len(s)
        BY <3>2, LenProperties
      <3> QED BY <3>2, <3>3
    <2> HIDE DEF s
    <2>3. \A i \in DOMAIN s : /\ i \in 1..hb - (ha + 1) + 1 /\ ha + 1 + i - 1 = ha + i
                               /\ ha + i \in 1..K /\ ha + i > ha /\ ha + i <= hb
      <3>1. ha \in Nat /\ hb \in Nat /\ K \in Nat /\ hb <= K
        BY <1>1
      <3>2. \A i \in DOMAIN s : ha + 1 <= hb /\ i \in 1..hb - ha
        BY <2>2, <3>1
      <3>3. \A a1, b1, k1 \in Nat : b1 <= k1 =>
               \A i \in 1..b1 - a1 :
                  /\ i \in 1..b1 - (a1 + 1) + 1 /\ a1 + 1 + i - 1 = a1 + i
                  /\ a1 + i \in 1..k1 /\ a1 + i > a1 /\ a1 + i <= b1
        OBVIOUS
      <3>4. \A i \in 1..hb - ha :
                  /\ i \in 1..hb - (ha + 1) + 1 /\ ha + 1 + i - 1 = ha + i
                  /\ ha + i \in 1..K /\ ha + i > ha /\ ha + i <= hb
        BY Zenon, <3>1, <3>3
      <3> QED BY Zenon, <3>2, <3>4
    <2>4. \A j \in 1..K : j > ha /\ j <= hb =>
             j - ha \in DOMAIN s /\ j - ha \in 1..hb - (ha + 1) + 1 /\ ha + 1 + (j - ha) - 1 = j
      BY <1>1, <2>2
    <2> QED BY <2>2, <2>3, <2>4
  <1> HIDE DEF s, ha, hb, K, at
  <1>5. \A x : x \in IdsOf(s) <=> \E i \in DOMAIN s : s[i].id = x
    BY DEF IdsOf, ToSet
  <1>6. \A x : x \in IdsOf(s) <=> \E j \in 1..K : t[j].id = x /\ ~ (at[j] <= a) /\ at[j] <= b
    <2>1. \A j \in 1..K : j \in 0..K /\ (j > ha <=> ~ (j <= ha))
      BY <1>1
    <2>2. \A j \in 1..K : (j > ha <=> ~ (at[j] <= a)) /\ (j <= hb <=> at[j] <= b)
      BY <1>1, <2>1
    <2>3. \A x : (\E i \in DOMAIN s : s[i].id = x) <=> \E j \in 1..K : t[j].id = x /\ j > ha /\ j <= hb
      BY <1>4
    <2> QED BY <1>5, <2>2, <2>3
  <1>7. \A j \in 1..K : ~ (at[j] <= a) <=> a < at[j]
    <2> TAKE j \in 1..K
    <2>1. at[j] \in Nat
      BY <1>1
    <2> QED BY <2>1
  <1> QED BY <1>2, <1>3, <1>6, <1>7

(* The identities of a text are those of the symbols that end in it.        *)
LEMMA TextIds ==
    ASSUME NEW t, IsText(t)
    PROVE  \A x : x \in IdsOf(t) <=> \E n : EndsAt(t, x, n)
  <1>1. \A x : x \in IdsOf(t) <=> \E i \in DOMAIN t : t[i].id = x
    BY DEF IdsOf, ToSet
  <1>2. \A x : (\E n : EndsAt(t, x, n)) <=> \E i \in DOMAIN t : t[i].id = x
    BY Zenon DEF EndsAt
  <1> QED BY <1>1, <1>2

(* One text after another: the symbols of the second end later by the       *)
(* length of the first.                                                     *)
LEMMA JoinedTexts ==
    ASSUME NEW s, IsText(s), NEW t, IsText(t), IdsOf(s) \cap IdsOf(t) = {}
    PROVE  /\ IsText(s \o t) /\ Length(s \o t) = Length(s) + Length(t)
           /\ Offsets(s \o t, Utf8)[Len(s)] = Length(s)
           /\ \A x, n : EndsAt(s \o t, x, n) <=>
                 EndsAt(s, x, n) \/ \E m : EndsAt(t, x, m) /\ n = Length(s) + m
  <1> DEFINE u == s \o t
             R == [id : Nat, kind : Kinds]
             os == Offsets(s, Utf8)
             ot == Offsets(t, Utf8)
             ou == Offsets(u, Utf8)
  <1>1. /\ IsList(s) /\ IsList(t) /\ s \in Seq(R) /\ t \in Seq(R)
        /\ \A i, j \in DOMAIN s : s[i].id = s[j].id => i = j
        /\ \A i, j \in DOMAIN t : t[i].id = t[j].id => i = j
    BY TextFacts DEF IsText
  <1>2. /\ Len(u) = Len(s) + Len(t) /\ Len(s) \in Nat /\ Len(t) \in Nat
        /\ DOMAIN s = 1..Len(s) /\ DOMAIN t = 1..Len(t) /\ DOMAIN u = 1..Len(s) + Len(t)
        /\ \A i \in 1..Len(s) : u[i] = s[i]
        /\ \A i \in 1..Len(t) : u[Len(s) + i] = t[i]
    BY <1>1, ConcatFacts DEF IsList
  <1>3. u \in Seq(R)
    BY <1>1, ConcatProperties
  <1> HIDE DEF u, R
  <1>4. \A i \in DOMAIN u : \/ (i \in 1..Len(s) /\ u[i] = s[i])
                             \/ (\E j \in 1..Len(t) : i = Len(s) + j /\ u[i] = t[j])
    <2> TAKE i \in DOMAIN u
    <2>1. CASE i <= Len(s)
      <3>1. i \in 1..Len(s)
        BY <1>2, <2>1
      <3> QED BY <1>2, <3>1
    <2>2. CASE ~ (i <= Len(s))
      <3>1. i - Len(s) \in 1..Len(t) /\ i = Len(s) + (i - Len(s))
        BY <1>2, <2>2
      <3> QED BY <1>2, <3>1
    <2> QED BY <2>1, <2>2
  <1>5. \A i \in 1..Len(s), j \in 1..Len(t) : s[i].id # t[j].id
    <2> TAKE i \in 1..Len(s), j \in 1..Len(t)
    <2>1. s[i].id \in IdsOf(s) /\ t[j].id \in IdsOf(t)
      BY <1>2 DEF IdsOf, ToSet
    <2> QED BY <2>1
  <1>6. IsText(u)
    <2>1. \A i, j \in DOMAIN u : u[i].id = u[j].id => i = j
      <3> TAKE i, j \in DOMAIN u
      <3> HAVE u[i].id = u[j].id
      <3>1. CASE i \in 1..Len(s) /\ u[i] = s[i] /\ j \in 1..Len(s) /\ u[j] = s[j]
        BY <1>1, <1>2, <3>1
      <3>2. ASSUME i \in 1..Len(s), u[i] = s[i], NEW k \in 1..Len(t), j = Len(s) + k, u[j] = t[k]
            PROVE  FALSE
        BY <1>5, <3>2
      <3>3. ASSUME j \in 1..Len(s), u[j] = s[j], NEW k \in 1..Len(t), i = Len(s) + k, u[i] = t[k]
            PROVE  FALSE
        BY <1>5, <3>3
      <3>4. ASSUME NEW k \in 1..Len(t), i = Len(s) + k, u[i] = t[k],
                   NEW l \in 1..Len(t), j = Len(s) + l, u[j] = t[l]
            PROVE  i = j
        <4>1. t[k].id = t[l].id
          BY <3>4
        <4>2. k = l
          BY <1>1, <1>2, <4>1
        <4> QED BY <3>4, <4>2
      <3> QED BY <1>4, <3>1, <3>2, <3>3, <3>4
    <2> QED BY <1>3, <2>1 DEF IsText, R
  <1>7. /\ os \in [0..Len(s) -> Nat] /\ os[0] = 0
        /\ \A k \in 1..Len(s) : os[k] = os[k - 1] + Utf8[s[k].kind]
        /\ ot \in [0..Len(t) -> Nat] /\ ot[0] = 0
        /\ \A k \in 1..Len(t) : ot[k] = ot[k - 1] + Utf8[t[k].kind]
        /\ ou \in [0..Len(u) -> Nat] /\ ou[0] = 0
        /\ \A k \in 1..Len(u) : ou[k] = ou[k - 1] + Utf8[u[k].kind]
    BY <1>6, OffsetsFacts, Widths
  <1>8. Length(s) = os[Len(s)] /\ Length(t) = ot[Len(t)] /\ Length(u) = ou[Len(u)]
    BY DEF Length, Size
  <1>9. \A x, n : /\ EndsAt(s, x, n) <=> (\E i \in 1..Len(s) : s[i].id = x /\ os[i] = n)
                  /\ EndsAt(t, x, n) <=> (\E i \in 1..Len(t) : t[i].id = x /\ ot[i] = n)
                  /\ EndsAt(u, x, n) <=> (\E i \in DOMAIN u : u[i].id = x /\ ou[i] = n)
    BY <1>2 DEF EndsAt
  <1> HIDE DEF os, ot, ou
  <1>10. \A k \in 0..Len(s) : ou[k] = os[k]
    <2> DEFINE T == { k \in 0..Len(s) : ou[k] = os[k] }
    <2>1. 0 \in T
      BY <1>2, <1>7
    <2>2. \A k \in 1..Len(s) : k - 1 \in T => k \in T
      <3> TAKE k \in 1..Len(s)
      <3>1. k \in 1..Len(u) /\ u[k] = s[k] /\ k \in 0..Len(s)
        BY <1>2
      <3> QED BY <1>7, <3>1
    <2> HIDE DEF T
    <2>3. \A k \in 0..Len(s) : k \in T
      BY <1>2, <2>1, <2>2, Climb
    <2> QED BY <2>3 DEF T
  <1>11. \A k \in 0..Len(t) : ou[Len(s) + k] = os[Len(s)] + ot[k]
    <2> DEFINE T == { k \in 0..Len(t) : ou[Len(s) + k] = os[Len(s)] + ot[k] }
    <2>0. os[Len(s)] \in Nat /\ \A k \in 0..Len(t) : ot[k] \in Nat
      <3>1. Len(s) \in 0..Len(s)
        BY <1>2
      <3>2. os[Len(s)] \in Nat
        BY <1>7, <3>1
      <3>3. \A k \in 0..Len(t) : ot[k] \in Nat
        BY <1>7
      <3> QED BY <3>2, <3>3
    <2>1. 0 \in T
      <3>1. Len(s) \in 0..Len(s) /\ Len(s) + 0 = Len(s) /\ 0 \in 0..Len(t)
        BY <1>2
      <3> QED BY <1>7, <1>10, <2>0, <3>1
    <2>2. \A k \in 1..Len(t) : k - 1 \in T => k \in T
      <3> TAKE k \in 1..Len(t)
      <3> HAVE k - 1 \in T
      <3>1. /\ Len(s) + k \in 1..Len(u) /\ u[Len(s) + k] = t[k] /\ k \in 0..Len(t)
            /\ Len(s) + k - 1 = Len(s) + (k - 1)
        BY <1>2
      <3> DEFINE d == Utf8[t[k].kind]
      <3>2. ou[Len(s) + k] = ou[Len(s) + (k - 1)] + d /\ ot[k] = ot[k - 1] + d
        BY <1>7, <3>1
      <3>3. d \in Nat /\ ot[k - 1] \in Nat
        <4>1. t[k].kind \in Kinds /\ k - 1 \in 0..Len(t)
          BY <1>2, TextFacts
        <4> QED BY <2>0, <4>1, Widths DEF IsWidth
      <3>4. ou[Len(s) + (k - 1)] = os[Len(s)] + ot[k - 1]
        OBVIOUS
      <3> HIDE DEF d, T
      <3>5. ou[Len(s) + k] = os[Len(s)] + ot[k]
        BY <2>0, <3>2, <3>3, <3>4
      <3> QED BY <3>1, <3>5 DEF T
    <2> HIDE DEF T
    <2>3. \A k \in 0..Len(t) : k \in T
      BY <1>2, <2>1, <2>2, Climb
    <2> QED BY <2>3 DEF T
  <1>12. Length(u) = Length(s) + Length(t) /\ ou[Len(s)] = Length(s)
    <2>1. Len(t) \in 0..Len(t) /\ Len(s) \in 0..Len(s)
      BY <1>2
    <2> QED BY <1>2, <1>8, <1>10, <1>11, <2>1
  <1>13. \A x, n : EndsAt(u, x, n) <=>
                 EndsAt(s, x, n) \/ \E m : EndsAt(t, x, m) /\ n = Length(s) + m
    <2> TAKE x, n
    <2>1. \A i \in 1..Len(s) : i \in DOMAIN u /\ u[i] = s[i] /\ ou[i] = os[i]
      BY <1>2, <1>10
    <2>2. \A j \in 1..Len(t) : /\ Len(s) + j \in DOMAIN u /\ u[Len(s) + j] = t[j]
                                /\ ou[Len(s) + j] = Length(s) + ot[j]
      BY <1>2, <1>8, <1>11
    <2>3. ASSUME EndsAt(u, x, n)
          PROVE  EndsAt(s, x, n) \/ \E m : EndsAt(t, x, m) /\ n = Length(s) + m
      <3>1. PICK i \in DOMAIN u : u[i].id = x /\ ou[i] = n
        BY <1>9, <2>3
      <3>2. CASE i \in 1..Len(s) /\ u[i] = s[i]
        <4>1. s[i].id = x /\ os[i] = n
          BY <2>1, <3>1, <3>2
        <4> QED BY <1>9, <3>2, <4>1
      <3>3. ASSUME NEW j \in 1..Len(t), i = Len(s) + j, u[i] = t[j]
            PROVE  \E m : EndsAt(t, x, m) /\ n = Length(s) + m
        <4>1. t[j].id = x /\ n = Length(s) + ot[j]
          BY <2>2, <3>1, <3>3
        <4>2. EndsAt(t, x, ot[j])
          BY <1>9, <4>1
        <4> QED BY <4>1, <4>2
      <3> QED BY <1>4, <3>2, <3>3
    <2>4. ASSUME EndsAt(s, x, n)
          PROVE  EndsAt(u, x, n)
      <3>1. PICK i \in 1..Len(s) : s[i].id = x /\ os[i] = n
        BY <1>9, <2>4
      <3>2. i \in DOMAIN u /\ u[i].id = x /\ ou[i] = n
        BY <2>1, <3>1
      <3> QED BY <1>9, <3>2
    <2>5. ASSUME NEW m, EndsAt(t, x, m), n = Length(s) + m
          PROVE  EndsAt(u, x, n)
      <3>1. PICK i \in 1..Len(t) : t[i].id = x /\ ot[i] = m
        BY <1>9, <2>5
      <3>2. Len(s) + i \in DOMAIN u /\ u[Len(s) + i].id = x /\ ou[Len(s) + i] = n
        BY <2>2, <2>5, <3>1
      <3> QED BY <1>9, <3>2
    <2> QED BY <2>3, <2>4, <2>5
  <1> QED BY <1>6, <1>12, <1>13 DEF u, ou

(* A text split at a boundary.                                              *)
LEMMA SplitTexts ==
    ASSUME NEW t, IsText(t), NEW at \in Boundaries(t)
    PROVE  LET p == Prefix(t, at)
               q == From(t, at)
           IN /\ IsText(p) /\ IsText(q) /\ Length(p) = at
              /\ \A x, n : EndsAt(p, x, n) <=> EndsAt(t, x, n) /\ n <= at
              /\ \A x, n : EndsAt(q, x, n) <=> n \in Nat /\ n > 0 /\ EndsAt(t, x, at + n)
  <1> DEFINE R == [id : Nat, kind : Kinds]
             K == Len(t)
             h == Held(t, at, Utf8)
             p == SubSeq(t, 1, h)
             q == SubSeq(t, h + 1, K)
             ot == Offsets(t, Utf8)
  <1>1. /\ K \in Nat /\ DOMAIN t = 1..K /\ t \in [1..K -> R] /\ t \in Seq(R)
        /\ \A i, j \in 1..K : t[i].id = t[j].id => i = j
    BY TextFacts DEF IsText
  <1>2. at \in Nat
    BY EndsFacts
  <1>3. /\ h \in 0..K /\ \A k \in 0..K : k <= h <=> ot[k] <= at
        /\ ot \in [0..K -> Nat]
        /\ \A j, k \in 0..K : j < k => ot[j] < ot[k]
    BY <1>2, HeldFacts, OffsetsFacts, Widths
  <1> HIDE DEF R, K, h, ot
  <1>4. ot[h] = at
    <2>1. PICK k \in 0..K : at = ot[k]
      BY DEF Boundaries, K, ot
    <2>2. k <= h /\ ot[h] <= at
      BY <1>1, <1>2, <1>3, <2>1
    <2>3. k < h => ot[k] < ot[h]
      BY <1>3
    <2>4. k = h \/ k < h
      BY <1>1, <1>3, <2>2
    <2>5. ot[h] \in Nat /\ ot[k] \in Nat
      BY <1>3
    <2> QED BY <2>1, <2>2, <2>3, <2>4, <2>5
  <1>5. /\ p \in Seq(R) /\ Len(p) = h /\ DOMAIN p = 1..h
        /\ \A i \in 1..h : i \in 1..K /\ p[i] = t[i]
    <2>1. 1 \in Int /\ h \in Int /\ \A i \in 1..h : i \in 1..K
      BY <1>1, <1>3
    <2>2. \A i \in 1..h : t[i] \in R
      BY <1>1, <2>1
    <2>3. /\ p \in Seq(R) /\ Len(p) = IF 1 <= h THEN h - 1 + 1 ELSE 0
          /\ \A i \in 1..h - 1 + 1 : p[i] = t[1 + i - 1]
      BY <1>1, <2>1, <2>2, SubSeqProperties
    <2> HIDE DEF p
    <2>4. /\ h - 1 + 1 = h /\ (IF 1 <= h THEN h - 1 + 1 ELSE 0) = h
          /\ \A i \in 1..h : 1 + i - 1 = i
      BY <1>1, <1>3
    <2>5. DOMAIN p = 1..Len(p)
      BY <2>3, LenProperties
    <2> QED BY <2>1, <2>3, <2>4, <2>5
  <1>6. /\ q \in Seq(R) /\ Len(q) = K - h /\ DOMAIN q = 1..K - h
        /\ \A i \in 1..K - h : h + i \in 1..K /\ q[i] = t[h + i]
    <2>1. h + 1 \in Int /\ K \in Int /\ \A i \in h + 1..K : i \in 1..K
      BY <1>1, <1>3
    <2>2. \A i \in h + 1..K : t[i] \in R
      BY <1>1, <2>1
    <2>3. /\ q \in Seq(R) /\ Len(q) = IF h + 1 <= K THEN K - (h + 1) + 1 ELSE 0
          /\ \A i \in 1..K - (h + 1) + 1 : q[i] = t[h + 1 + i - 1]
      BY <1>1, <2>1, <2>2, SubSeqProperties
    <2> HIDE DEF q
    <2>4. /\ K - (h + 1) + 1 = K - h /\ (IF h + 1 <= K THEN K - (h + 1) + 1 ELSE 0) = K - h
          /\ \A i \in 1..K - h : h + 1 + i - 1 = h + i /\ h + i \in 1..K
      BY <1>1, <1>3
    <2>5. DOMAIN q = 1..Len(q)
      BY <2>3, LenProperties
    <2> QED BY <2>3, <2>4, <2>5
  <1> HIDE DEF p, q
  <1>7. IsText(p)
    <2>1. \A i, j \in DOMAIN p : p[i].id = p[j].id => i = j
      BY <1>1, <1>5
    <2> QED BY <1>5, <2>1 DEF IsText, R
  <1>8. IsText(q)
    <2>1. \A i, j \in DOMAIN q : q[i].id = q[j].id => h + i = h + j
      BY <1>1, <1>6
    <2>2. \A i, j \in DOMAIN q : h + i = h + j => i = j
      BY <1>1, <1>3, <1>6
    <2> QED BY <1>6, <2>1, <2>2 DEF IsText, R
  <1>9. IdsOf(p) \cap IdsOf(q) = {}
    <2>1. ASSUME NEW i \in DOMAIN p, NEW j \in DOMAIN q, p[i].id = q[j].id
          PROVE  FALSE
      <3>1. i \in 1..K /\ h + j \in 1..K /\ t[i].id = t[h + j].id
        BY <1>5, <1>6, <2>1
      <3>2. i = h + j
        BY <1>1, <3>1
      <3> QED BY <1>1, <1>3, <1>5, <1>6, <3>2
    <2> QED BY <2>1 DEF IdsOf, ToSet
  <1>10. p \o q = t
    <2>1. /\ Len(p \o q) = h + (K - h) /\ p \o q \in Seq(R)
          /\ \A i \in 1..h + (K - h) : (p \o q)[i] = IF i <= h THEN p[i] ELSE q[i - h]
      <3>1. p \in Seq(R) /\ q \in Seq(R) /\ Len(p) = h /\ Len(q) = K - h
        BY <1>5, <1>6
      <3>2. /\ Len(p \o q) = Len(p) + Len(q) /\ p \o q \in Seq(R)
            /\ \A i \in 1..Len(p) + Len(q) : (p \o q)[i] = IF i <= Len(p) THEN p[i] ELSE q[i - Len(p)]
        BY <3>1, ConcatProperties
      <3> QED BY <3>1, <3>2
    <2>2. h + (K - h) = K
      BY <1>1, <1>3
    <2>3. \A i \in 1..K : /\ (i <= h => i \in 1..h)
                           /\ (~ (i <= h) => i - h \in 1..K - h /\ h + (i - h) = i)
      BY <1>1, <1>3
    <2>4. \A i \in 1..K : (p \o q)[i] = t[i]
      BY <1>5, <1>6, <2>1, <2>2, <2>3
    <2>5. p \o q = [i \in 1..K |-> (p \o q)[i]]
      <3> DEFINE u == p \o q
      <3>1. u \in Seq(R) /\ Len(u) = K
        BY <2>1, <2>2
      <3> HIDE DEF u
      <3>2. u = [i \in 1..K |-> u[i]]
        BY <3>1, LenProperties
      <3> QED BY <3>2 DEF u
    <2>6. t = [i \in 1..K |-> t[i]]
      BY <1>1
    <2> QED BY <2>4, <2>5, <2>6
  <1>11. /\ ot[Len(p)] = Length(p)
         /\ \A x, n : EndsAt(t, x, n) <=>
               EndsAt(p, x, n) \/ \E m : EndsAt(q, x, m) /\ n = Length(p) + m
    <2>1. /\ Offsets(p \o q, Utf8)[Len(p)] = Length(p)
          /\ \A x, n : EndsAt(p \o q, x, n) <=>
                EndsAt(p, x, n) \/ \E m : EndsAt(q, x, m) /\ n = Length(p) + m
      BY <1>7, <1>8, <1>9, JoinedTexts
    <2> QED BY <1>10, <2>1, Zenon DEF ot
  <1>12. Length(p) = at
    BY <1>4, <1>5, <1>11
  <1>13. /\ \A x, n : EndsAt(p, x, n) => n \in Nat /\ n <= at
         /\ \A x, n : EndsAt(q, x, n) => n \in Nat /\ n > 0
    BY <1>7, <1>8, <1>12, EndsFacts
  <1>14. \A x, n : EndsAt(p, x, n) <=> EndsAt(t, x, n) /\ n <= at
    <2> TAKE x, n
    <2>1. ASSUME EndsAt(t, x, n), n <= at
          PROVE  EndsAt(p, x, n)
      <3>1. ASSUME NEW m, EndsAt(q, x, m), n = Length(p) + m
            PROVE  FALSE
        <4>1. m \in Nat /\ m > 0 /\ n = at + m
          BY <1>12, <1>13, <3>1
        <4> QED BY <1>2, <2>1, <4>1
      <3> QED BY <1>11, <2>1, <3>1
    <2>2. ASSUME EndsAt(p, x, n)
          PROVE  EndsAt(t, x, n) /\ n <= at
      BY <1>11, <1>13, <2>2
    <2> QED BY <2>1, <2>2
  <1>15. \A x, n : EndsAt(q, x, n) <=> n \in Nat /\ n > 0 /\ EndsAt(t, x, at + n)
    <2> TAKE x, n
    <2>1. ASSUME EndsAt(q, x, n)
          PROVE  n \in Nat /\ n > 0 /\ EndsAt(t, x, at + n)
      BY <1>11, <1>12, <1>13, <2>1
    <2>2. ASSUME n \in Nat, n > 0, EndsAt(t, x, at + n)
          PROVE  EndsAt(q, x, n)
      <3>1. ~ EndsAt(p, x, at + n)
        <4>1. ~ (at + n <= at)
          BY <1>2, <2>2
        <4> QED BY <1>13, <4>1
      <3>2. PICK m : EndsAt(q, x, m) /\ at + n = Length(p) + m
        BY <1>11, <2>2, <3>1
      <3>3. m \in Nat /\ at + n = at + m
        BY <1>12, <1>13, <3>2
      <3>4. m = n
        BY <1>2, <2>2, <3>3
      <3> QED BY <3>2, <3>4
    <2> QED BY <2>1, <2>2
  <1>16. Prefix(t, at) = p /\ From(t, at) = q
    BY DEF Prefix, From, p, q, h, K
  <1> QED BY <1>7, <1>8, <1>12, <1>14, <1>15, <1>16

-------------------------------------------------------------------------------
(* Facets under edit *)

(* The symbols that end after one offset and not after another.             *)
Named(t, a, b) == { x \in IdsOf(t) : \E n : EndsAt(t, x, n) /\ a < n /\ n <= b }

(* Between two boundaries, they are the slice.                              *)
LEMMA SliceNamed ==
    ASSUME NEW t, IsText(t), NEW a \in Nat, NEW b \in Nat
    PROVE  IdsOf(Slice(t, a, b)) = Named(t, a, b)
  <1> DEFINE S == Slice(t, a, b)
  <1>1. \A x : x \in IdsOf(S) <=> \E n : EndsAt(t, x, n) /\ a < n /\ n <= b
    BY SliceIds
  <1>2. \A x : x \in IdsOf(t) <=> \E n : EndsAt(t, x, n)
    BY TextIds
  <1>3. \A x : x \in Named(t, a, b) <=> \E n : EndsAt(t, x, n) /\ a < n /\ n <= b
    BY <1>2 DEF Named
  <1> HIDE DEF S
  <1>4. IdsOf(S) \subseteq Named(t, a, b) /\ Named(t, a, b) \subseteq IdsOf(S)
    BY <1>1, <1>3
  <1> QED BY <1>4 DEF S

(* What it is to be one of them.                                            *)
LEMMA NamedMeans ==
    ASSUME NEW t, IsText(t)
    PROVE  \A a, b, x : x \in Named(t, a, b) <=> \E n : EndsAt(t, x, n) /\ a < n /\ n <= b
  <1>1. \A x : x \in IdsOf(t) <=> \E n : EndsAt(t, x, n)
    BY TextIds
  <1> QED BY <1>1 DEF Named

(* Typing moves what comes after on by the length of what is typed.         *)
LEMMA InsertedText ==
    ASSUME NEW t, IsText(t), NEW y, IsText(y), IdsOf(t) \cap IdsOf(y) = {}, NEW at \in Boundaries(t)
    PROVE  LET u == (Prefix(t, at) \o y) \o From(t, at)
               A == Length(y)
           IN /\ IsText(u)
              /\ \A x, n : EndsAt(u, x, n) <=>
                    \/ EndsAt(t, x, n) /\ n <= at
                    \/ \E m : EndsAt(y, x, m) /\ n = at + m
                    \/ \E m : EndsAt(t, x, m) /\ m > at /\ n = m + A
              /\ \A b \in Boundaries(t) : /\ b <= at => b \in Boundaries(u)
                                          /\ b >= at => b + A \in Boundaries(u)
  <1> DEFINE p == Prefix(t, at)
             q == From(t, at)
             v == p \o y
             u == v \o q
             A == Length(y)
  <1>1. at \in Nat /\ A \in Nat
    BY EndsFacts
  <1>2. /\ IsText(p) /\ IsText(q) /\ Length(p) = at
        /\ \A x, n : EndsAt(p, x, n) <=> EndsAt(t, x, n) /\ n <= at
        /\ \A x, n : EndsAt(q, x, n) <=> n \in Nat /\ n > 0 /\ EndsAt(t, x, at + n)
    BY SplitTexts
  <1> HIDE DEF p, q
  <1>3. /\ \A x, m, n : EndsAt(t, x, m) /\ EndsAt(t, x, n) => m = n
        /\ \A x, n : EndsAt(t, x, n) => n \in Nat /\ n > 0
        /\ \A x, n : EndsAt(y, x, n) => n \in Nat /\ n > 0 /\ n <= A
    BY EndsFacts
  <1>4. /\ \A x : x \in IdsOf(t) <=> \E n : EndsAt(t, x, n)
        /\ \A x : x \in IdsOf(y) <=> \E n : EndsAt(y, x, n)
        /\ \A x : x \in IdsOf(p) <=> \E n : EndsAt(p, x, n)
        /\ \A x : x \in IdsOf(q) <=> \E n : EndsAt(q, x, n)
    BY <1>2, TextIds
  <1>5. IdsOf(p) \subseteq IdsOf(t) /\ IdsOf(q) \subseteq IdsOf(t)
    BY <1>2, <1>4
  <1>6. IdsOf(p) \cap IdsOf(q) = {}
    <2>1. ASSUME NEW x, NEW m, EndsAt(p, x, m), NEW n, EndsAt(q, x, n)
          PROVE  FALSE
      <3>1. EndsAt(t, x, m) /\ m <= at /\ EndsAt(t, x, at + n) /\ n \in Nat /\ n > 0
        BY <1>2, <2>1
      <3>2. m = at + n
        BY <1>3, <3>1
      <3> QED BY <1>1, <3>1, <3>2
    <2> QED BY <1>4, <2>1
  <1>7. /\ IsText(v) /\ Length(v) = at + A
        /\ \A x, n : EndsAt(v, x, n) <=> EndsAt(p, x, n) \/ \E m : EndsAt(y, x, m) /\ n = at + m
    <2>1. IdsOf(p) \cap IdsOf(y) = {}
      BY <1>5
    <2>2. /\ IsText(v) /\ Length(v) = Length(p) + Length(y)
          /\ \A x, n : EndsAt(v, x, n) <=> EndsAt(p, x, n) \/ \E m : EndsAt(y, x, m) /\ n = Length(p) + m
      BY <1>2, <2>1, JoinedTexts
    <2> QED BY <1>2, <2>2
  <1> HIDE DEF v
  <1>8. IdsOf(v) \cap IdsOf(q) = {}
    <2>1. \A x : x \in IdsOf(v) <=> \E n : EndsAt(v, x, n)
      BY <1>7, TextIds
    <2>2. \A x : x \in IdsOf(v) => x \in IdsOf(p) \/ x \in IdsOf(y)
      BY <1>4, <1>7, <2>1
    <2> QED BY <1>5, <1>6, <2>2
  <1>9. /\ IsText(u)
        /\ \A x, n : EndsAt(u, x, n) <=> EndsAt(v, x, n) \/ \E m : EndsAt(q, x, m) /\ n = at + A + m
    <2>1. /\ IsText(u)
          /\ \A x, n : EndsAt(u, x, n) <=> EndsAt(v, x, n) \/ \E m : EndsAt(q, x, m) /\ n = Length(v) + m
      BY <1>2, <1>7, <1>8, JoinedTexts
    <2> QED BY <1>7, <2>1
  <1> HIDE DEF u
  <1>10. \A x, n : (\E m : EndsAt(q, x, m) /\ n = at + A + m) <=> \E m : EndsAt(t, x, m) /\ m > at /\ n = m + A
    <2> TAKE x, n
    <2>1. ASSUME NEW m, EndsAt(q, x, m), n = at + A + m
          PROVE  \E k : EndsAt(t, x, k) /\ k > at /\ n = k + A
      <3>1. m \in Nat /\ m > 0 /\ EndsAt(t, x, at + m)
        BY <1>2, <2>1
      <3>2. at + m > at /\ n = at + m + A
        BY <1>1, <2>1, <3>1
      <3> QED BY <3>1, <3>2
    <2>2. ASSUME NEW k, EndsAt(t, x, k), k > at, n = k + A
          PROVE  \E m : EndsAt(q, x, m) /\ n = at + A + m
      <3>1. k \in Nat
        BY <1>3, <2>2
      <3>2. k - at \in Nat /\ k - at > 0 /\ at + (k - at) = k /\ n = at + A + (k - at)
        BY <1>1, <2>2, <3>1
      <3>3. EndsAt(q, x, k - at)
        BY <1>2, <2>2, <3>2
      <3> QED BY <3>2, <3>3
    <2> QED BY <2>1, <2>2
  <1>11. \A x, n : EndsAt(u, x, n) <=>
                    \/ EndsAt(t, x, n) /\ n <= at
                    \/ \E m : EndsAt(y, x, m) /\ n = at + m
                    \/ \E m : EndsAt(t, x, m) /\ m > at /\ n = m + A
    <2> TAKE x, n
    <2>1. EndsAt(u, x, n) <=> EndsAt(v, x, n) \/ \E m : EndsAt(q, x, m) /\ n = at + A + m
      BY <1>9
    <2>2. EndsAt(v, x, n) <=> EndsAt(p, x, n) \/ \E m : EndsAt(y, x, m) /\ n = at + m
      BY <1>7
    <2>3. EndsAt(p, x, n) <=> EndsAt(t, x, n) /\ n <= at
      BY <1>2
    <2> QED BY <1>10, <2>1, <2>2, <2>3
  <1>12. \A b : /\ b \in Boundaries(t) <=> b = 0 \/ \E x : EndsAt(t, x, b)
                /\ b \in Boundaries(y) <=> b = 0 \/ \E x : EndsAt(y, x, b)
                /\ b \in Boundaries(u) <=> b = 0 \/ \E x : EndsAt(u, x, b)
    BY <1>9, EndsFacts
  <1>13. \A b \in Boundaries(t) : b <= at => b \in Boundaries(u)
    BY <1>11, <1>12
  <1>14. \A b \in Boundaries(t) : b >= at => b + A \in Boundaries(u)
    <2> TAKE b \in Boundaries(t)
    <2> HAVE b >= at
    <2>0. b \in Nat
      BY EndsFacts
    <2>1. CASE b > at
      <3>1. PICK x : EndsAt(t, x, b)
        BY <1>1, <1>12, <2>1
      <3>2. EndsAt(u, x, b + A)
        BY <1>11, <2>1, <3>1
      <3> QED BY <1>12, <3>2
    <2>2. CASE b = at /\ A = 0
      BY <1>1, <1>13, <2>0, <2>2
    <2>3. CASE b = at /\ A # 0
      <3>1. A \in Boundaries(y)
        BY EndsFacts
      <3>2. PICK x : EndsAt(y, x, A)
        BY <1>12, <2>3, <3>1
      <3>3. EndsAt(u, x, b + A)
        BY <1>11, <2>3, <3>2
      <3> QED BY <1>12, <3>3
    <2> QED BY <1>1, <2>0, <2>1, <2>2, <2>3
  <1> QED BY <1>9, <1>11, <1>13, <1>14 DEF u, v, p, q

(* A facet on the text, in numbers.                                         *)
LEMMA CoversMeans ==
    ASSUME NEW t, IsText(t), NEW f, Covers(t, f)
    PROVE  /\ f = [start |-> f.start, end |-> f.end, about |-> f.about]
           /\ f.start \in Nat /\ f.end \in Nat /\ f.start <= f.end /\ f.end \in Boundaries(t)
           /\ \A x : x \in f.about <=> \E n : EndsAt(t, x, n) /\ f.start < n /\ n <= f.end
  <1>1. /\ f = [start |-> f.start, end |-> f.end, about |-> f.about]
        /\ f.start \in Nat /\ f.end \in Nat /\ f.start <= f.end /\ f.end \in Boundaries(t)
        /\ f.about = IdsOf(Slice(t, f.start, f.end))
    BY EndsFacts DEF Covers
  <1>2. \A x : x \in f.about <=> \E n : EndsAt(t, x, n) /\ f.start < n /\ n <= f.end
    BY <1>1, SliceIds
  <1> QED BY <1>1, <1>2

(* And what is in such numbers is on the text.                              *)
LEMMA CoversWhen ==
    ASSUME NEW t, IsText(t), NEW a \in Nat, NEW b \in Boundaries(t), a <= b, NEW S,
           \A x : x \in S <=> \E n : EndsAt(t, x, n) /\ a < n /\ n <= b
    PROVE  Covers(t, [start |-> a, end |-> b, about |-> S])
  <1>1. b \in Nat
    BY EndsFacts
  <1>2. S = Named(t, a, b)
    <2>1. \A x : x \in S <=> x \in Named(t, a, b)
      BY NamedMeans
    <2>2. S \subseteq Named(t, a, b) /\ Named(t, a, b) \subseteq S
      BY <2>1
    <2> QED BY <2>2
  <1>3. S = IdsOf(Slice(t, a, b))
    BY <1>1, <1>2, SliceNamed
  <1> DEFINE f == [start |-> a, end |-> b, about |-> S]
  <1>4. f.start = a /\ f.end = b /\ f.about = S /\ f = [start |-> f.start, end |-> f.end, about |-> f.about]
    OBVIOUS
  <1> HIDE DEF f
  <1>5. Covers(t, f)
    BY <1>3, <1>4 DEF Covers
  <1> QED BY <1>5 DEF f

(* A facet stays on its symbols, and those typed inside it, when the text   *)
(* typed is as long in UTF-16 as in UTF-8.                                  *)
LEMMA InsertKeeps ==
    ASSUME NEW t, IsText(t), NEW y, IsText(y), IdsOf(t) \cap IdsOf(y) = {}, NEW at \in Boundaries(t),
           Size(y, Utf16) = Length(y), NEW f, Covers(t, f)
    PROVE  Covers((Prefix(t, at) \o y) \o From(t, at), MovedByInsert(f, t, at, y))
  <1> DEFINE u == (Prefix(t, at) \o y) \o From(t, at)
             A == Length(y)
             s == f.start
             e == f.end
             in == Inside(t, at, f.about)
  <1>1. at \in Nat /\ A \in Nat
    BY EndsFacts
  <1>2. /\ IsText(u)
        /\ \A x, n : EndsAt(u, x, n) <=>
                    \/ EndsAt(t, x, n) /\ n <= at
                    \/ \E m : EndsAt(y, x, m) /\ n = at + m
                    \/ \E m : EndsAt(t, x, m) /\ m > at /\ n = m + A
        /\ \A b \in Boundaries(t) : /\ b <= at => b \in Boundaries(u)
                                    /\ b >= at => b + A \in Boundaries(u)
    BY InsertedText
  <1> HIDE DEF u
  <1>3. /\ f = [start |-> s, end |-> e, about |-> f.about]
        /\ s \in Nat /\ e \in Nat /\ s <= e /\ e \in Boundaries(t)
        /\ \A x : x \in f.about <=> \E n : EndsAt(t, x, n) /\ s < n /\ n <= e
    BY CoversMeans
  <1>4. in <=> s < at /\ at < e
    <2>1. /\ \A x, n : EndsAt(Prefix(t, at), x, n) <=> EndsAt(t, x, n) /\ n <= at
          /\ \A x, n : EndsAt(From(t, at), x, n) <=> n \in Nat /\ n > 0 /\ EndsAt(t, x, at + n)
          /\ \A x : x \in IdsOf(Prefix(t, at)) <=> \E n : EndsAt(Prefix(t, at), x, n)
          /\ \A x : x \in IdsOf(From(t, at)) <=> \E n : EndsAt(From(t, at), x, n)
      BY SplitTexts, TextIds
    <2>2. /\ \A x, m, n : EndsAt(t, x, m) /\ EndsAt(t, x, n) => m = n
          /\ \A x, n : EndsAt(t, x, n) => n \in Nat
          /\ \A b \in Boundaries(t) : b = 0 \/ \E x : EndsAt(t, x, b)
      BY EndsFacts
    <2>3. ASSUME in
          PROVE  s < at /\ at < e
      <3>1. PICK x : x \in IdsOf(Prefix(t, at)) /\ x \in f.about
        BY <2>3 DEF Inside
      <3>2. PICK k : EndsAt(t, x, k) /\ k <= at
        BY <2>1, <3>1
      <3>3. PICK z : z \in IdsOf(From(t, at)) /\ z \in f.about
        BY <2>3 DEF Inside
      <3>4. PICK l : l \in Nat /\ l > 0 /\ EndsAt(t, z, at + l)
        BY <2>1, <3>3
      <3>5. s < k
        BY <1>3, <2>2, <3>1, <3>2
      <3>6. at + l <= e
        <4>1. PICK n : EndsAt(t, z, n) /\ n <= e
          BY <1>3, <3>3
        <4> QED BY <2>2, <3>4, <4>1
      <3>7. k \in Nat
        BY <2>2, <3>2
      <3> QED BY <1>1, <1>3, <3>2, <3>4, <3>5, <3>6, <3>7
    <2>4. ASSUME s < at, at < e
          PROVE  in
      <3>1. at # 0 /\ e # 0 /\ at <= e
        BY <1>1, <1>3, <2>4
      <3>2. PICK x : EndsAt(t, x, at)
        BY <2>2, <3>1
      <3>3. x \in f.about /\ x \in IdsOf(Prefix(t, at))
        <4>1. at <= at
          BY <1>1
        <4> QED BY <1>3, <2>1, <2>4, <3>1, <3>2, <4>1
      <3>4. PICK z : EndsAt(t, z, e)
        BY <1>3, <2>2, <3>1
      <3>5. e <= e /\ s < e /\ e - at \in Nat /\ e - at > 0 /\ at + (e - at) = e
        BY <1>1, <1>3, <2>4
      <3>6. z \in f.about
        BY <1>3, <3>4, <3>5
      <3>7. z \in IdsOf(From(t, at))
        BY <2>1, <3>4, <3>5
      <3> QED BY <3>3, <3>6, <3>7 DEF Inside
    <2> QED BY <2>3, <2>4
  <1>5. /\ \A x, n : EndsAt(t, x, n) => n \in Nat
        /\ \A x, n : EndsAt(y, x, n) => n \in Nat /\ n > 0 /\ n <= A
        /\ \A x : x \in IdsOf(y) <=> \E n : EndsAt(y, x, n)
    BY EndsFacts, TextIds
  <1> DEFINE moved == InsertFacet(f, at, A)
  <1>7. MovedByInsert(f, t, at, y) = [moved EXCEPT !.about = IF Inside(t, at, @) THEN @ \cup IdsOf(y) ELSE @]
    BY DEF MovedByInsert
  <1> HIDE DEF in, A, s, e
  <1>8. CASE at <= s
    <2>1. moved = [start |-> s + A, end |-> e + A, about |-> f.about]
      <3>1. ~ (at > s)
        BY <1>1, <1>3, <1>8
      <3> QED BY <1>3, <1>8, <3>1 DEF InsertFacet, s, e
    <2>2. ~ in /\ moved.about = f.about
      BY <1>1, <1>3, <1>4, <1>8, <2>1
    <2>3. MovedByInsert(f, t, at, y) = [start |-> s + A, end |-> e + A, about |-> f.about]
      <3> HIDE DEF moved
      <3> QED BY <1>7, <2>1, <2>2 DEF in
    <2>4. s + A \in Nat /\ e + A \in Boundaries(u) /\ s + A <= e + A
      <3>1. e >= at
        BY <1>1, <1>3, <1>8
      <3> QED BY <1>1, <1>2, <1>3, <3>1
    <2>5. \A x : x \in f.about <=> \E n : EndsAt(u, x, n) /\ s + A < n /\ n <= e + A
      <3> TAKE x
      <3>1. ASSUME NEW n, EndsAt(t, x, n), s < n, n <= e
            PROVE  \E m : EndsAt(u, x, m) /\ s + A < m /\ m <= e + A
        <4>1. n \in Nat
          BY <1>5, <3>1
        <4>2. n > at /\ s + A < n + A /\ n + A <= e + A
          BY <1>1, <1>3, <1>8, <3>1, <4>1
        <4>3. EndsAt(u, x, n + A)
          BY <1>2, <3>1, <4>2
        <4> QED BY <4>2, <4>3
      <3>2. ASSUME NEW n, EndsAt(u, x, n), s + A < n, n <= e + A
            PROVE  \E m : EndsAt(t, x, m) /\ s < m /\ m <= e
        <4>1. ~ (EndsAt(t, x, n) /\ n <= at)
          BY <1>1, <1>3, <1>5, <1>8, <3>2
        <4>2. ASSUME NEW m, EndsAt(y, x, m), n = at + m
              PROVE  FALSE
          <5>1. m \in Nat /\ m <= A
            BY <1>5, <4>2
          <5> QED BY <1>1, <1>3, <1>8, <3>2, <4>2, <5>1
        <4>3. ASSUME NEW m, EndsAt(t, x, m), m > at, n = m + A
              PROVE  s < m /\ m <= e
          <5>1. m \in Nat
            BY <1>5, <4>3
          <5> QED BY <1>1, <1>3, <3>2, <4>3, <5>1
        <4> QED BY <1>2, <3>2, <4>1, <4>2, <4>3
      <3> QED BY <1>3, <3>1, <3>2
    <2> QED BY <1>2, <2>3, <2>4, <2>5, CoversWhen DEF u
  <1>9. CASE s < at /\ at < e
    <2> DEFINE B == f.about \cup IdsOf(y)
    <2>1. moved = [start |-> s, end |-> e + A, about |-> f.about]
      <3>1. ~ (at <= s) /\ at > s
        BY <1>1, <1>3, <1>9
      <3> QED BY <1>3, <1>9, <3>1 DEF InsertFacet, s, e
    <2>2. in /\ moved.about = f.about
      BY <1>4, <1>9, <2>1
    <2>3. MovedByInsert(f, t, at, y) = [start |-> s, end |-> e + A, about |-> B]
      <3> HIDE DEF moved
      <3> QED BY <1>7, <2>1, <2>2 DEF in
    <2>4. s \in Nat /\ e + A \in Boundaries(u) /\ s <= e + A
      <3>1. e >= at
        BY <1>1, <1>3, <1>9
      <3> QED BY <1>1, <1>2, <1>3, <3>1
    <2>5. \A x : x \in B <=> \E n : EndsAt(u, x, n) /\ s < n /\ n <= e + A
      <3> TAKE x
      <3>1. ASSUME NEW n, EndsAt(t, x, n), s < n, n <= e
            PROVE  \E m : EndsAt(u, x, m) /\ s < m /\ m <= e + A
        <4>0. n \in Nat
          BY <1>5, <3>1
        <4>1. CASE n <= at
          <5>1. n <= e + A
            BY <1>1, <1>3, <3>1, <4>0
          <5> QED BY <1>2, <3>1, <4>1, <5>1
        <4>2. CASE n > at
          <5>1. s < n + A /\ n + A <= e + A
            BY <1>1, <1>3, <3>1, <4>0
          <5>2. EndsAt(u, x, n + A)
            BY <1>2, <3>1, <4>2
          <5> QED BY <5>1, <5>2
        <4> QED BY <1>1, <4>0, <4>1, <4>2
      <3>2. ASSUME NEW m, EndsAt(y, x, m)
            PROVE  \E n : EndsAt(u, x, n) /\ s < n /\ n <= e + A
        <4>1. m \in Nat /\ m <= A
          BY <1>5, <3>2
        <4>2. s < at + m /\ at + m <= e + A
          BY <1>1, <1>3, <1>9, <4>1
        <4>3. EndsAt(u, x, at + m)
          BY <1>2, <3>2
        <4> QED BY <4>2, <4>3
      <3>3. ASSUME NEW n, EndsAt(u, x, n), s < n, n <= e + A
            PROVE  x \in B
        <4>1. CASE EndsAt(t, x, n) /\ n <= at
          <5>1. n <= e
            BY <1>1, <1>3, <1>5, <1>9, <4>1
          <5> QED BY <1>3, <3>3, <4>1, <5>1
        <4>2. ASSUME NEW m, EndsAt(y, x, m), n = at + m
              PROVE  x \in B
          BY <1>5, <4>2
        <4>3. ASSUME NEW m, EndsAt(t, x, m), m > at, n = m + A
              PROVE  x \in B
          <5>1. m \in Nat
            BY <1>5, <4>3
          <5>2. s < m /\ m <= e
            BY <1>1, <1>3, <1>9, <3>3, <4>3, <5>1
          <5> QED BY <1>3, <4>3, <5>2
        <4> QED BY <1>2, <3>3, <4>1, <4>2, <4>3
      <3>4. x \in B <=> x \in f.about \/ x \in IdsOf(y)
        OBVIOUS
      <3> HIDE DEF B
      <3> QED BY <1>3, <1>5, <3>1, <3>2, <3>3, <3>4
    <2> HIDE DEF B
    <2> QED BY <1>2, <2>3, <2>4, <2>5, CoversWhen DEF u
  <1>10. CASE s < at /\ e <= at
    <2>1. moved = f
      <3>1. ~ (at <= s) /\ ~ (at < e)
        BY <1>1, <1>3, <1>10
      <3> QED BY <3>1 DEF InsertFacet, s, e
    <2>2. ~ in /\ moved.about = f.about
      BY <1>1, <1>3, <1>4, <1>10, <2>1
    <2>3. MovedByInsert(f, t, at, y) = [start |-> s, end |-> e, about |-> f.about]
      <3>1. moved = [start |-> s, end |-> e, about |-> f.about]
        BY <1>3, <2>1
      <3> HIDE DEF moved
      <3> QED BY <1>7, <2>2, <3>1 DEF in
    <2>4. s \in Nat /\ e \in Boundaries(u) /\ s <= e
      BY <1>2, <1>3, <1>10
    <2>5. \A x : x \in f.about <=> \E n : EndsAt(u, x, n) /\ s < n /\ n <= e
      <3> TAKE x
      <3>1. ASSUME NEW n, EndsAt(t, x, n), s < n, n <= e
            PROVE  EndsAt(u, x, n)
        <4>1. n <= at
          BY <1>1, <1>3, <1>5, <1>10, <3>1
        <4> QED BY <1>2, <3>1, <4>1
      <3>2. ASSUME NEW n, EndsAt(u, x, n), s < n, n <= e
            PROVE  EndsAt(t, x, n)
        <4>1. ASSUME NEW m, EndsAt(y, x, m), n = at + m
              PROVE  FALSE
          <5>1. m \in Nat /\ m > 0
            BY <1>5, <4>1
          <5> QED BY <1>1, <1>3, <1>10, <3>2, <4>1, <5>1
        <4>2. ASSUME NEW m, EndsAt(t, x, m), m > at, n = m + A
              PROVE  FALSE
          <5>1. m \in Nat
            BY <1>5, <4>2
          <5> QED BY <1>1, <1>3, <1>10, <3>2, <4>2, <5>1
        <4> QED BY <1>2, <3>2, <4>1, <4>2
      <3> QED BY <1>3, <3>1, <3>2
    <2> QED BY <1>2, <2>3, <2>4, <2>5, CoversWhen DEF u
  <1>11. at <= s \/ (s < at /\ at < e) \/ (s < at /\ e <= at)
    BY <1>1, <1>3
  <1> QED BY <1>8, <1>9, <1>10, <1>11 DEF u

(* Deleting brings what comes after it back by the length of what is gone.  *)
LEMMA DeletedText ==
    ASSUME NEW t, IsText(t), NEW from \in Boundaries(t), NEW to \in Boundaries(t), from <= to
    PROVE  LET u == Prefix(t, from) \o From(t, to)
               D == to - from
           IN /\ IsText(u) /\ IdsOf(u) \subseteq IdsOf(t)
              /\ \A x, n : EndsAt(u, x, n) <=>
                    \/ EndsAt(t, x, n) /\ n <= from
                    \/ \E m : EndsAt(t, x, m) /\ m > to /\ n = m - D
              /\ \A b \in Boundaries(t) : /\ b <= from => b \in Boundaries(u)
                                          /\ b >= to => b - D \in Boundaries(u)
  <1> DEFINE p == Prefix(t, from)
             q == From(t, to)
             u == p \o q
             D == to - from
  <1>1. from \in Nat /\ to \in Nat /\ D \in Nat
    <2>1. from \in Nat /\ to \in Nat
      BY EndsFacts
    <2> QED BY <2>1
  <1>2. /\ IsText(p) /\ Length(p) = from
        /\ \A x, n : EndsAt(p, x, n) <=> EndsAt(t, x, n) /\ n <= from
    BY SplitTexts
  <1>3. /\ IsText(q)
        /\ \A x, n : EndsAt(q, x, n) <=> n \in Nat /\ n > 0 /\ EndsAt(t, x, to + n)
    BY SplitTexts
  <1> HIDE DEF p, q
  <1>4. /\ \A x, m, n : EndsAt(t, x, m) /\ EndsAt(t, x, n) => m = n
        /\ \A x, n : EndsAt(t, x, n) => n \in Nat /\ n > 0
    BY EndsFacts
  <1>5. IdsOf(p) \cap IdsOf(q) = {}
    <2>1. ASSUME NEW x, NEW m, EndsAt(p, x, m), NEW n, EndsAt(q, x, n)
          PROVE  FALSE
      <3>1. EndsAt(t, x, m) /\ m <= from /\ EndsAt(t, x, to + n) /\ n \in Nat /\ n > 0
        BY <1>2, <1>3, <2>1
      <3>2. m = to + n
        BY <1>4, <3>1
      <3> QED BY <1>1, <3>1, <3>2
    <2>2. /\ \A x : x \in IdsOf(p) <=> \E n : EndsAt(p, x, n)
          /\ \A x : x \in IdsOf(q) <=> \E n : EndsAt(q, x, n)
      BY <1>2, <1>3, TextIds
    <2> QED BY <2>1, <2>2
  <1>6. /\ IsText(u)
        /\ \A x, n : EndsAt(u, x, n) <=> EndsAt(p, x, n) \/ \E m : EndsAt(q, x, m) /\ n = from + m
    <2>1. /\ IsText(u)
          /\ \A x, n : EndsAt(u, x, n) <=> EndsAt(p, x, n) \/ \E m : EndsAt(q, x, m) /\ n = Length(p) + m
      BY <1>2, <1>3, <1>5, JoinedTexts
    <2> QED BY <1>2, <2>1
  <1> HIDE DEF u
  <1>7. \A x, n : EndsAt(u, x, n) <=>
                    \/ EndsAt(t, x, n) /\ n <= from
                    \/ \E m : EndsAt(t, x, m) /\ m > to /\ n = m - D
    <2> TAKE x, n
    <2>1. EndsAt(u, x, n) <=> EndsAt(p, x, n) \/ \E m : EndsAt(q, x, m) /\ n = from + m
      BY <1>6
    <2>2. EndsAt(p, x, n) <=> EndsAt(t, x, n) /\ n <= from
      BY <1>2
    <2>3. (\E m : EndsAt(q, x, m) /\ n = from + m) <=> \E m : EndsAt(t, x, m) /\ m > to /\ n = m - D
      <3>1. ASSUME NEW m, EndsAt(q, x, m), n = from + m
            PROVE  \E k : EndsAt(t, x, k) /\ k > to /\ n = k - D
        <4>1. m \in Nat /\ m > 0 /\ EndsAt(t, x, to + m)
          BY <1>3, <3>1
        <4>2. to + m > to /\ n = (to + m) - D
          BY <1>1, <3>1, <4>1
        <4> HIDE DEF D
        <4> QED BY <4>1, <4>2
      <3>2. ASSUME NEW k, EndsAt(t, x, k), k > to, n = k - D
            PROVE  \E m : EndsAt(q, x, m) /\ n = from + m
        <4>1. k \in Nat
          BY <1>4, <3>2
        <4>2. k - to \in Nat /\ k - to > 0 /\ to + (k - to) = k /\ n = from + (k - to)
          BY <1>1, <3>2, <4>1
        <4>3. EndsAt(q, x, k - to)
          BY <1>3, <3>2, <4>2
        <4> QED BY <4>2, <4>3
      <3> QED BY <3>1, <3>2
    <2> QED BY <2>1, <2>2, <2>3, Zenon
  <1>8. IdsOf(u) \subseteq IdsOf(t)
    <2>1. /\ \A x : x \in IdsOf(u) <=> \E n : EndsAt(u, x, n)
          /\ \A x : x \in IdsOf(t) <=> \E n : EndsAt(t, x, n)
      BY <1>6, TextIds
    <2> QED BY <1>7, <2>1
  <1>9. \A b : /\ b \in Boundaries(t) <=> b = 0 \/ \E x : EndsAt(t, x, b)
               /\ b \in Boundaries(u) <=> b = 0 \/ \E x : EndsAt(u, x, b)
    BY <1>6, EndsFacts
  <1>10. \A b \in Boundaries(t) : b <= from => b \in Boundaries(u)
    BY <1>7, <1>9
  <1>11. \A b \in Boundaries(t) : b >= to => b - D \in Boundaries(u)
    <2> TAKE b \in Boundaries(t)
    <2> HAVE b >= to
    <2>0. b \in Nat
      BY EndsFacts
    <2>1. CASE b > to
      <3>1. PICK x : EndsAt(t, x, b)
        BY <1>1, <1>9, <2>1
      <3>2. EndsAt(u, x, b - D)
        BY <1>7, <2>1, <3>1
      <3> QED BY <1>9, <3>2
    <2>2. CASE b = to
      <3>1. b - D = from /\ from <= from
        BY <1>1, <2>2
      <3> QED BY <1>10, <3>1
    <2> QED BY <1>1, <2>0, <2>1, <2>2
  <1> QED BY <1>6, <1>7, <1>8, <1>10, <1>11 DEF u, p, q

(* Of a facet that keeps any of its text, the rest stays covered.           *)
LEMMA DeleteKeeps ==
    ASSUME NEW t, IsText(t), NEW from \in Boundaries(t), NEW to \in Boundaries(t), from < to,
           NEW f, Covers(t, f),
           MovedByDelete(f, t, from, to).start < MovedByDelete(f, t, from, to).end
    PROVE  Covers(Prefix(t, from) \o From(t, to), MovedByDelete(f, t, from, to))
  <1> DEFINE u == Prefix(t, from) \o From(t, to)
             D == to - from
             s == f.start
             e == f.end
             cut == DeleteFacet(f, from, to)
             B == f.about \ IdsOf(Slice(t, from, to))
             moved == MovedByDelete(f, t, from, to)
  <1>1. from \in Nat /\ to \in Nat /\ D \in Nat /\ from + D = to /\ from <= to
    <2>1. from \in Nat /\ to \in Nat
      BY EndsFacts
    <2> QED BY <2>1
  <1>2. /\ IsText(u)
        /\ \A x, n : EndsAt(u, x, n) <=>
                    \/ EndsAt(t, x, n) /\ n <= from
                    \/ \E m : EndsAt(t, x, m) /\ m > to /\ n = m - D
        /\ \A b \in Boundaries(t) : /\ b <= from => b \in Boundaries(u)
                                    /\ b >= to => b - D \in Boundaries(u)
    BY <1>1, DeletedText
  <1> HIDE DEF u
  <1>3. /\ f = [start |-> s, end |-> e, about |-> f.about]
        /\ s \in Nat /\ e \in Nat /\ s <= e /\ e \in Boundaries(t)
        /\ \A x : x \in f.about <=> \E n : EndsAt(t, x, n) /\ s < n /\ n <= e
    BY CoversMeans
  <1>4. /\ \A x, n : EndsAt(t, x, n) => n \in Nat
        /\ \A x, m, n : EndsAt(t, x, m) /\ EndsAt(t, x, n) => m = n
    BY EndsFacts
  <1>5. \A x : x \in B <=> \E n : EndsAt(t, x, n) /\ s < n /\ n <= e /\ ~ (from < n /\ n <= to)
    <2>1. \A x : x \in IdsOf(Slice(t, from, to)) <=> \E n : EndsAt(t, x, n) /\ from < n /\ n <= to
      BY <1>1, SliceIds
    <2> QED BY <1>3, <1>4, <2>1
  <1>0. moved.start < moved.end
    OBVIOUS
  <1> SUFFICES Covers(u, moved)
    BY DEF u
  <1> HIDE DEF moved
  <1>6. moved = [cut EXCEPT !.about = @ \ IdsOf(Slice(t, from, to))]
    BY DEF MovedByDelete, moved
  <1>7. ASSUME NEW a, NEW b, cut = [start |-> a, end |-> b, about |-> f.about]
        PROVE  moved = [start |-> a, end |-> b, about |-> B]
    <2> HIDE DEF cut
    <2> QED BY <1>6, <1>7
  <1> HIDE DEF B, cut, s, e, D
  <1>8. ASSUME NEW a \in Nat, NEW b \in Boundaries(u), a <= b,
               cut = [start |-> a, end |-> b, about |-> f.about],
               \A x : x \in B <=> \E n : EndsAt(u, x, n) /\ a < n /\ n <= b
        PROVE  Covers(u, moved)
    BY <1>2, <1>7, <1>8, CoversWhen
  <1>9. CASE from <= s /\ to >= e
    <2>1. cut = [start |-> 0, end |-> 0, about |-> f.about]
      BY <1>3, <1>9 DEF DeleteFacet, cut, s, e, D
    <2>2. moved.start = 0 /\ moved.end = 0
      BY <1>7, <2>1
    <2> QED BY <1>0, <2>2
  <1>10. CASE from > e
    <2>1. ~ (from <= s /\ to >= e) /\ e <= from
      BY <1>1, <1>3, <1>10
    <2>2. cut = [start |-> s, end |-> e, about |-> f.about]
      BY <1>3, <1>10, <2>1 DEF DeleteFacet, cut, s, e, D
    <2>3. \A x : x \in B <=> \E n : EndsAt(u, x, n) /\ s < n /\ n <= e
      <3> TAKE x
      <3>1. ASSUME NEW n, EndsAt(t, x, n), s < n, n <= e
            PROVE  EndsAt(u, x, n) /\ ~ (from < n /\ n <= to)
        <4>1. n <= from /\ ~ (from < n)
          BY <1>1, <1>3, <1>4, <1>10, <3>1
        <4> QED BY <1>2, <3>1, <4>1
      <3>2. ASSUME NEW n, EndsAt(u, x, n), s < n, n <= e
            PROVE  EndsAt(t, x, n)
        <4>1. ASSUME NEW m, EndsAt(t, x, m), m > to, n = m - D
              PROVE  FALSE
          BY <1>1, <1>3, <1>4, <1>10, <3>2, <4>1
        <4> QED BY <1>2, <3>2, <4>1
      <3> QED BY <1>5, <3>1, <3>2
    <2> QED BY <1>2, <1>3, <1>8, <2>1, <2>2, <2>3
  <1>11. CASE from <= e /\ from > s /\ to > e
    <2>1. ~ (from <= s /\ to >= e) /\ ~ (from > e) /\ s <= from
      BY <1>1, <1>3, <1>11
    <2>2. cut = [start |-> s, end |-> from, about |-> f.about]
      BY <1>3, <1>11, <2>1 DEF DeleteFacet, cut, s, e, D
    <2>3. \A x : x \in B <=> \E n : EndsAt(u, x, n) /\ s < n /\ n <= from
      <3> TAKE x
      <3>1. ASSUME NEW n, EndsAt(t, x, n), s < n, n <= e, ~ (from < n /\ n <= to)
            PROVE  EndsAt(u, x, n) /\ n <= from
        <4>1. n <= from
          BY <1>1, <1>3, <1>4, <1>11, <3>1
        <4> QED BY <1>2, <3>1, <4>1
      <3>2. ASSUME NEW n, EndsAt(u, x, n), s < n, n <= from
            PROVE  EndsAt(t, x, n) /\ n <= e /\ ~ (from < n /\ n <= to)
        <4>1. ASSUME NEW m, EndsAt(t, x, m), m > to, n = m - D
              PROVE  FALSE
          BY <1>1, <1>3, <1>4, <1>11, <3>2, <4>1
        <4>2. EndsAt(t, x, n) /\ n \in Nat
          BY <1>2, <1>4, <3>2, <4>1
        <4> QED BY <1>1, <1>3, <1>11, <3>2, <4>2
      <3> QED BY <1>5, <3>1, <3>2
    <2>4. from \in Boundaries(u)
      BY <1>1, <1>2
    <2> QED BY <1>3, <1>8, <2>1, <2>2, <2>3, <2>4
  <1>12. CASE from >= s /\ to <= e /\ ~ (from <= s /\ to >= e)
    <2>1. ~ (from > e) /\ ~ (from > s /\ to > e) /\ s <= e - D /\ e >= to
      BY <1>1, <1>3, <1>12
    <2>2. cut = [start |-> s, end |-> e - D, about |-> f.about]
      BY <1>3, <1>12, <2>1 DEF DeleteFacet, cut, s, e, D
    <2>3. \A x : x \in B <=> \E n : EndsAt(u, x, n) /\ s < n /\ n <= e - D
      <3> TAKE x
      <3>1. ASSUME NEW n, EndsAt(t, x, n), s < n, n <= e, ~ (from < n /\ n <= to)
            PROVE  \E m : EndsAt(u, x, m) /\ s < m /\ m <= e - D
        <4>0. n \in Nat
          BY <1>4, <3>1
        <4>1. CASE n <= from
          <5>1. n <= e - D
            BY <1>1, <1>3, <1>12, <4>0, <4>1
          <5> QED BY <1>2, <3>1, <4>1, <5>1
        <4>2. CASE n > to
          <5>1. s < n - D /\ n - D <= e - D
            BY <1>1, <1>3, <1>12, <3>1, <4>0, <4>2
          <5>2. EndsAt(u, x, n - D)
            BY <1>2, <3>1, <4>2
          <5> QED BY <5>1, <5>2
        <4> QED BY <1>1, <3>1, <4>0, <4>1, <4>2
      <3>2. ASSUME NEW n, EndsAt(u, x, n), s < n, n <= e - D
            PROVE  \E m : EndsAt(t, x, m) /\ s < m /\ m <= e /\ ~ (from < m /\ m <= to)
        <4>1. CASE EndsAt(t, x, n) /\ n <= from
          <5>1. n <= e /\ ~ (from < n)
            BY <1>1, <1>3, <1>4, <3>2, <4>1
          <5> QED BY <3>2, <4>1, <5>1
        <4>2. ASSUME NEW m, EndsAt(t, x, m), m > to, n = m - D
              PROVE  s < m /\ m <= e /\ ~ (from < m /\ m <= to)
          <5>1. m \in Nat
            BY <1>4, <4>2
          <5> QED BY <1>1, <1>3, <3>2, <4>2, <5>1
        <4> QED BY <1>2, <3>2, <4>1, <4>2
      <3> QED BY <1>5, <3>1, <3>2
    <2>4. e - D \in Boundaries(u)
      BY <1>2, <1>3, <2>1
    <2> QED BY <1>3, <1>8, <2>1, <2>2, <2>3, <2>4
  <1>13. CASE from < s /\ to >= s /\ to < e
    <2>1. /\ ~ (from <= s /\ to >= e) /\ ~ (from > e) /\ ~ (from > s /\ to > e) /\ ~ (from >= s /\ to <= e)
          /\ to <= e /\ from <= e - D /\ e >= to
      BY <1>1, <1>3, <1>13
    <2>2. cut = [start |-> from, end |-> e - D, about |-> f.about]
      BY <1>3, <1>13, <2>1 DEF DeleteFacet, cut, s, e, D
    <2>3. \A x : x \in B <=> \E n : EndsAt(u, x, n) /\ from < n /\ n <= e - D
      <3> TAKE x
      <3>1. ASSUME NEW n, EndsAt(t, x, n), s < n, n <= e, ~ (from < n /\ n <= to)
            PROVE  \E m : EndsAt(u, x, m) /\ from < m /\ m <= e - D
        <4>0. n \in Nat
          BY <1>4, <3>1
        <4>1. n > to /\ from < n - D /\ n - D <= e - D
          BY <1>1, <1>3, <1>13, <3>1, <4>0
        <4>2. EndsAt(u, x, n - D)
          BY <1>2, <3>1, <4>1
        <4> QED BY <4>1, <4>2
      <3>2. ASSUME NEW n, EndsAt(u, x, n), from < n, n <= e - D
            PROVE  \E m : EndsAt(t, x, m) /\ s < m /\ m <= e /\ ~ (from < m /\ m <= to)
        <4>1. ~ (EndsAt(t, x, n) /\ n <= from)
          BY <1>1, <1>4, <3>2
        <4>2. ASSUME NEW m, EndsAt(t, x, m), m > to, n = m - D
              PROVE  s < m /\ m <= e /\ ~ (from < m /\ m <= to)
          <5>1. m \in Nat
            BY <1>4, <4>2
          <5> QED BY <1>1, <1>3, <1>13, <3>2, <4>2, <5>1
        <4> QED BY <1>2, <3>2, <4>1, <4>2
      <3> QED BY <1>5, <3>1, <3>2
    <2>4. e - D \in Boundaries(u)
      BY <1>2, <1>3, <2>1
    <2> QED BY <1>1, <1>8, <2>1, <2>2, <2>3, <2>4
  <1>14. CASE to < s
    <2>1. /\ ~ (from <= s /\ to >= e) /\ ~ (from > e) /\ ~ (from > s /\ to > e) /\ ~ (from >= s /\ to <= e)
          /\ ~ (to >= s /\ to <= e) /\ s - D <= e - D /\ s - D \in Nat /\ e >= to
      BY <1>1, <1>3, <1>14
    <2>2. cut = [start |-> s - D, end |-> e - D, about |-> f.about]
      BY <1>3, <1>14, <2>1 DEF DeleteFacet, cut, s, e, D
    <2>3. \A x : x \in B <=> \E n : EndsAt(u, x, n) /\ s - D < n /\ n <= e - D
      <3> TAKE x
      <3>1. ASSUME NEW n, EndsAt(t, x, n), s < n, n <= e
            PROVE  \E m : EndsAt(u, x, m) /\ s - D < m /\ m <= e - D
        <4>0. n \in Nat
          BY <1>4, <3>1
        <4>1. n > to /\ s - D < n - D /\ n - D <= e - D
          BY <1>1, <1>3, <1>14, <3>1, <4>0
        <4>2. EndsAt(u, x, n - D)
          BY <1>2, <3>1, <4>1
        <4> QED BY <4>1, <4>2
      <3>2. ASSUME NEW n, EndsAt(u, x, n), s - D < n, n <= e - D
            PROVE  \E m : EndsAt(t, x, m) /\ s < m /\ m <= e /\ ~ (from < m /\ m <= to)
        <4>1. ~ (EndsAt(t, x, n) /\ n <= from)
          BY <1>1, <1>3, <1>4, <1>14, <3>2
        <4>2. ASSUME NEW m, EndsAt(t, x, m), m > to, n = m - D
              PROVE  s < m /\ m <= e /\ ~ (from < m /\ m <= to)
          <5>1. m \in Nat
            BY <1>4, <4>2
          <5> QED BY <1>1, <1>3, <3>2, <4>2, <5>1
        <4> QED BY <1>2, <3>2, <4>1, <4>2
      <3> QED BY <1>5, <3>1, <3>2
    <2>4. e - D \in Boundaries(u)
      BY <1>2, <1>3, <2>1
    <2> QED BY <1>8, <2>1, <2>2, <2>3, <2>4
  <1>15. \/ from <= s /\ to >= e
         \/ from > e
         \/ from <= e /\ from > s /\ to > e
         \/ from >= s /\ to <= e /\ ~ (from <= s /\ to >= e)
         \/ from < s /\ to >= s /\ to < e
         \/ to < s
    BY <1>1, <1>3
  <1> QED BY <1>9, <1>10, <1>11, <1>12, <1>13, <1>14, <1>15

-------------------------------------------------------------------------------
(* Texts and lists of facets *)

(* Texts have finitely many identities, so there are always new ones.       *)
LEMMA NewIdsAreNew ==
    ASSUME NEW t, IsText(t)
    PROVE  NewIds(t) \in Nat /\ \A x \in IdsOf(t) : x < NewIds(t)
  <1> DEFINE K == Len(t)
             T == { k \in 0..K : \E m \in Nat : \A i \in 1..k : t[i].id <= m }
             S == IdsOf(t) \cup {0}
  <1>1. K \in Nat /\ DOMAIN t = 1..K /\ \A i \in 1..K : t[i].id \in Nat
    BY TextFacts
  <1> HIDE DEF K
  <1>2. 0 \in T
    <2>1. 0 \in Nat /\ \A i \in 1..0 : t[i].id <= 0
      OBVIOUS
    <2> QED BY <1>1, <2>1
  <1>3. \A k \in 1..K : k - 1 \in T => k \in T
    <2> TAKE k \in 1..K
    <2> HAVE k - 1 \in T
    <2>1. PICK m \in Nat : \A i \in 1..k - 1 : t[i].id <= m
      OBVIOUS
    <2>2. PICK n \in Nat : n = t[k].id
      BY <1>1
    <2>3. m + n \in Nat /\ \A i \in 1..k : t[i].id <= m + n
      <3>1. \A i \in 1..k : i = k \/ i \in 1..k - 1
        BY <1>1
      <3>2. \A i \in 1..k : t[i].id \in Nat
        BY <1>1
      <3>3. \A a \in Nat : a <= m \/ a = n => a <= m + n
        OBVIOUS
      <3>4. \A i \in 1..k : t[i].id <= m \/ t[i].id = n
        BY <2>1, <2>2, <3>1
      <3> QED BY <3>2, <3>3, <3>4
    <2>4. k \in 0..K
      BY <1>1
    <2> QED BY <2>3, <2>4
  <1> HIDE DEF T
  <1>4. K \in T
    <2>1. \A n \in 0..K : n \in T
      BY <1>1, <1>2, <1>3, Climb
    <2> QED BY <1>1, <2>1
  <1>5. PICK b \in Nat : \A i \in 1..K : t[i].id <= b
    BY <1>4 DEF T
  <1>6. S \subseteq 0..b /\ S # {} /\ IdsOf(t) \subseteq S
    BY <1>1, <1>5 DEF IdsOf, ToSet
  <1>7. Max(S) \in S /\ \A x \in S : x <= Max(S)
    BY <1>6, MaxOf
  <1>8. NewIds(t) = 1 + Max(S)
    BY DEF NewIds
  <1> HIDE DEF S
  <1>9. Max(S) \in Nat /\ \A x \in IdsOf(t) : x \in Nat /\ x <= Max(S)
    <2>1. \A x \in S : x \in Nat
      BY <1>6
    <2> QED BY <1>6, <1>7, <2>1
  <1> QED BY <1>8, <1>9

(* What is typed is a text whose identities are new.                        *)
LEMMA TypedText ==
    ASSUME NEW kinds \in Seq(Kinds), NEW t, IsText(t)
    PROVE  IsText(Typed(kinds, t)) /\ IdsOf(Typed(kinds, t)) \cap IdsOf(t) = {}
  <1> DEFINE y == Typed(kinds, t)
             b == NewIds(t)
             K == Len(kinds)
  <1>1. K \in Nat /\ DOMAIN kinds = 1..K /\ \A i \in 1..K : kinds[i] \in Kinds
    BY LenProperties
  <1>2. b \in Nat /\ \A x \in IdsOf(t) : x < b
    BY NewIdsAreNew
  <1> HIDE DEF K, b
  <1>3. y = [i \in 1..K |-> [id |-> b + i, kind |-> kinds[i]]]
    BY <1>1 DEF Typed, b
  <1> HIDE DEF y
  <1>4. DOMAIN y = 1..K /\ \A i \in 1..K : /\ y[i] = [id |-> b + i, kind |-> kinds[i]]
                                           /\ y[i].id = b + i /\ b + i \in Nat
    BY <1>1, <1>2, <1>3
  <1>5. y \in Seq([id : Nat, kind : Kinds])
    <2>1. \A i \in 1..K : y[i] \in [id : Nat, kind : Kinds]
      BY <1>1, <1>4
    <2>2. K \in Nat /\ y = [i \in 1..K |-> y[i]]
      BY <1>1, <1>3
    <2>3. y \in Seq(ToSet(y))
      BY <2>2, AsSeq
    <2>4. ToSet(y) \subseteq [id : Nat, kind : Kinds]
      BY <1>4, <2>1 DEF ToSet
    <2> QED BY <2>3, <2>4, SeqOver
  <1>6. \A i, j \in DOMAIN y : y[i].id = y[j].id => i = j
    BY <1>1, <1>2, <1>4
  <1>7. \A x \in IdsOf(y) : x \notin IdsOf(t)
    <2>1. \A x \in IdsOf(y) : \E i \in 1..K : x = b + i
      BY <1>4 DEF IdsOf, ToSet
    <2>2. \A i \in 1..K : ~ (b + i < b)
      BY <1>1, <1>2
    <2> QED BY <1>2, <2>1, <2>2
  <1>8. IsText(y)
    BY <1>5, <1>6 DEF IsText
  <1> QED BY <1>7, <1>8 DEF y

(* So is what the constructor is given.                                     *)
LEMMA NewTextIsText ==
    ASSUME NEW kinds \in Seq(Kinds)
    PROVE  IsText(NewText(kinds))
  <1> DEFINE y == NewText(kinds)
             K == Len(kinds)
  <1>1. K \in Nat /\ DOMAIN kinds = 1..K /\ \A i \in 1..K : kinds[i] \in Kinds
    BY LenProperties
  <1> HIDE DEF K
  <1>2. y = [i \in 1..K |-> [id |-> i, kind |-> kinds[i]]]
    BY <1>1 DEF NewText
  <1> HIDE DEF y
  <1>3. \A i \in 1..K : y[i].id = i /\ y[i] \in [id : Nat, kind : Kinds]
    BY <1>1, <1>2
  <1>4. y \in [1..K -> [id : Nat, kind : Kinds]] /\ DOMAIN y = 1..K
    BY <1>2, <1>3
  <1>5. y \in Seq([id : Nat, kind : Kinds])
    BY <1>1, <1>4, Enlisted
  <1>6. IsText(y)
    BY <1>3, <1>4, <1>5 DEF IsText
  <1> QED BY <1>6 DEF y

(* Typing leaves a text, with its facets on their symbols.                  *)
LEMMA InsertRich ==
    ASSUME NEW rt, IsRichText(rt), NEW y, IsText(y), IdsOf(rt.text) \cap IdsOf(y) = {},
           NEW at \in Boundaries(rt.text)
    PROVE  LET new == Insert(rt, at, y)
           IN /\ IsRichText(new)
              /\ AllCover(rt) /\ Size(y, Utf16) = Length(y) => AllCover(new)
  <1> DEFINE t == rt.text
             u == (Prefix(t, at) \o y) \o From(t, at)
             moved == [i \in DOMAIN rt.facets |-> MovedByInsert(rt.facets[i], t, at, y)]
             new == Insert(rt, at, y)
  <1>1. IsText(t) /\ IsText(u)
    <2>1. IsText(t)
      BY DEF IsRichText
    <2> QED BY <2>1, InsertedText
  <1>2. new = [text |-> u, facets |-> IF rt.facets = None THEN None ELSE moved]
    BY DEF Insert
  <1> HIDE DEF u, new
  <1>3. new.text = u /\ new.facets = (IF rt.facets = None THEN None ELSE moved) /\ IsRichText(new)
    BY <1>1, <1>2 DEF IsRichText
  <1>4. ASSUME AllCover(rt), Size(y, Utf16) = Length(y), new.facets # None
        PROVE  IsList(new.facets) /\ \A i \in DOMAIN new.facets : Covers(u, new.facets[i])
    <2>1. rt.facets # None /\ new.facets = moved
      BY <1>3, <1>4
    <2>2. IsList(rt.facets) /\ \A i \in DOMAIN rt.facets : Covers(t, rt.facets[i])
      BY <1>4, <2>1 DEF AllCover
    <2>3. \A f : Covers(t, f) => Covers(u, MovedByInsert(f, t, at, y))
      BY <1>1, <1>4, InsertKeeps DEF u
    <2>4. \A i \in DOMAIN rt.facets : Covers(u, moved[i])
      BY <2>2, <2>3
    <2>5. DOMAIN rt.facets = 1..Len(rt.facets) /\ Len(rt.facets) \in Nat
      BY <2>2, SeqFacts DEF IsList
    <2>6. DOMAIN moved = DOMAIN rt.facets /\ moved = [i \in 1..Len(rt.facets) |-> moved[i]]
      BY <2>5
    <2> HIDE DEF moved
    <2>7. IsList(moved)
      BY <2>5, <2>6, AsSeq DEF IsList
    <2> QED BY <2>1, <2>4, <2>6, <2>7
  <1>5. AllCover(rt) /\ Size(y, Utf16) = Length(y) => AllCover(new)
    BY <1>3, <1>4 DEF AllCover
  <1> QED BY <1>3, <1>5 DEF new

(* So does deleting, whatever is typed.                                     *)
LEMMA DeleteRich ==
    ASSUME NEW rt, IsRichText(rt), NEW from \in Boundaries(rt.text), NEW to \in Boundaries(rt.text),
           from < to
    PROVE  LET new == Delete(rt, from, to)
           IN /\ IsRichText(new) /\ (AllCover(rt) => AllCover(new))
              /\ IdsOf(new.text) \subseteq IdsOf(rt.text) /\ from \in Boundaries(new.text)
  <1> DEFINE t == rt.text
             u == Prefix(t, from) \o From(t, to)
             moved == [i \in DOMAIN rt.facets |-> MovedByDelete(rt.facets[i], t, from, to)]
             kept == { i \in DOMAIN moved : moved[i].start < moved[i].end }
             new == Delete(rt, from, to)
  <1>1. IsText(t) /\ IsText(u) /\ IdsOf(u) \subseteq IdsOf(t) /\ from \in Boundaries(u)
    <2>1. IsText(t)
      BY DEF IsRichText
    <2>2. from \in Nat /\ to \in Nat
      BY <2>1, EndsFacts
    <2>3. from <= to /\ from <= from
      BY <2>2
    <2> QED BY <2>1, <2>3, DeletedText
  <1>2. new = [text |-> u, facets |-> IF rt.facets = None THEN None ELSE Keep(moved, kept)]
    BY DEF Delete
  <1> HIDE DEF u, new
  <1>3. new.text = u /\ new.facets = (IF rt.facets = None THEN None ELSE Keep(moved, kept)) /\ IsRichText(new)
    BY <1>1, <1>2 DEF IsRichText
  <1>4. ASSUME AllCover(rt), new.facets # None
        PROVE  IsList(new.facets) /\ \A i \in DOMAIN new.facets : Covers(u, new.facets[i])
    <2>1. rt.facets # None /\ new.facets = Keep(moved, kept)
      BY <1>3, <1>4
    <2>2. IsList(rt.facets) /\ \A i \in DOMAIN rt.facets : Covers(t, rt.facets[i])
      BY <1>4, <2>1 DEF AllCover
    <2>3. \A f : /\ Covers(t, f)
                 /\ MovedByDelete(f, t, from, to).start < MovedByDelete(f, t, from, to).end
                 => Covers(u, MovedByDelete(f, t, from, to))
      BY <1>1, DeleteKeeps DEF u
    <2>4. \A i \in kept : Covers(u, moved[i])
      BY <2>2, <2>3
    <2>5. DOMAIN rt.facets = 1..Len(rt.facets) /\ Len(rt.facets) \in Nat
      BY <2>2, SeqFacts DEF IsList
    <2>6. moved = [i \in 1..Len(rt.facets) |-> moved[i]] /\ kept \in SUBSET DOMAIN moved
      BY <2>5
    <2> HIDE DEF moved, kept
    <2>7. IsList(moved)
      BY <2>5, <2>6, AsSeq DEF IsList
    <2>8. IsList(Keep(moved, kept)) /\ ToSet(Keep(moved, kept)) = { moved[i] : i \in kept }
      BY <2>6, <2>7, KeptFacts
    <2>9. \A i \in DOMAIN Keep(moved, kept) : Covers(u, Keep(moved, kept)[i])
      <3>1. \A i \in DOMAIN Keep(moved, kept) : Keep(moved, kept)[i] \in ToSet(Keep(moved, kept))
        BY DEF ToSet
      <3> QED BY <2>4, <2>8, <3>1
    <2> QED BY <2>1, <2>8, <2>9
  <1>5. AllCover(rt) => AllCover(new)
    BY <1>3, <1>4 DEF AllCover
  <1> QED BY <1>1, <1>3, <1>5 DEF new

(* Sorting facets, and filtering them, leaves each on its symbols.          *)
AllOn(t, facets) == IsList(facets) /\ \A i \in DOMAIN facets : Covers(t, facets[i])

(* Sorting facets keeps each of them on the text.                           *)
LEMMA SortKeeps ==
    ASSUME NEW t, IsText(t), NEW facets, AllOn(t, facets)
    PROVE  AllOn(t, FacetSort(facets))
  <1> DEFINE w == [i \in DOMAIN facets |-> facets[i].start]
             r == Ranked(facets, DOMAIN facets, w)
  <1>1. IsList(facets) /\ Len(facets) \in Nat /\ DOMAIN facets = 1..Len(facets)
    BY SeqFacts DEF AllOn, IsList
  <1>2. \A i \in DOMAIN facets : w[i] \in Nat /\ i \in Nat
    <2>1. \A f : Covers(t, f) => f.start \in Nat
      BY DEF Covers
    <2> QED BY <1>1, <2>1 DEF AllOn
  <1>3. Weighed(DOMAIN facets, w)
    <2>1. IsFiniteSet(1..Len(facets))
      BY <1>1, FS_Interval
    <2>2. DOMAIN facets \in SUBSET Nat
      BY <1>2
    <2> HIDE DEF w
    <2> QED BY <1>1, <1>2, <2>1, <2>2 DEF Weighed
  <1> HIDE DEF w
  <1>4. r \in Seq(ToSet(r)) /\ ToSet(r) = { facets[i] : i \in DOMAIN facets }
    BY <1>3, RankedFacts, RankedElements
  <1> HIDE DEF r
  <1>5. \A i \in DOMAIN r : r[i] \in ToSet(r)
    BY DEF ToSet
  <1>6. AllOn(t, r)
    BY <1>4, <1>5 DEF AllOn, IsList
  <1> QED BY <1>6 DEF FacetSort, r, w

(* A facet made between two boundaries is on its symbols.                   *)
LEMMA FacetCovers ==
    ASSUME NEW t, IsText(t), NEW a \in Nat, NEW b \in Boundaries(t), a <= b
    PROVE  Covers(t, Facet(t, a, b))
  BY DEF Covers, Facet

(* Of facets proposed at boundaries, those that are kept are on the text.   *)
LEMMA FilterKeeps ==
    ASSUME NEW t, IsText(t), NEW facets, IsList(facets),
           \A i \in DOMAIN facets : \E a \in Nat : \E b :
               facets[i] = Facet(t, a, b) /\ (a <= b => b \in Boundaries(t))
    PROVE  AllOn(t, FacetFilter(facets))
  <1> DEFINE kept == { i \in DOMAIN facets : facets[i].start <= facets[i].end }
             r == Keep(facets, kept)
  <1>1. \A i \in kept : Covers(t, facets[i])
    <2> TAKE i \in kept
    <2>1. PICK a \in Nat : \E b : facets[i] = Facet(t, a, b) /\ (a <= b => b \in Boundaries(t))
      OBVIOUS
    <2>2. PICK b : facets[i] = Facet(t, a, b) /\ (a <= b => b \in Boundaries(t))
      BY <2>1
    <2>3. a <= b
      BY <2>2 DEF Facet
    <2> QED BY <2>2, <2>3, FacetCovers
  <1>2. kept \in SUBSET DOMAIN facets
    OBVIOUS
  <1> HIDE DEF kept
  <1>3. IsList(r) /\ ToSet(r) = { facets[i] : i \in kept }
    BY <1>2, KeptFacts
  <1> HIDE DEF r
  <1>4. \A i \in DOMAIN r : r[i] \in ToSet(r)
    BY DEF ToSet
  <1>5. AllOn(t, r)
    BY <1>1, <1>3, <1>4 DEF AllOn
  <1> QED BY <1>5 DEF FacetFilter, r, kept

(* A rich text whose facets are all on their symbols.                       *)
Good(rt) == IsRichText(rt) /\ AllCover(rt)
Goods ==
    { rt \in [text : Seq([id : Nat, kind : Kinds]),
              facets : {None} \cup Seq([start : Nat, end : Nat, about : SUBSET Nat])] : Good(rt) }

(* A rich text as the invariant has it is a member of the set of those.     *)
LEMMA GoodsAreGood ==
    ASSUME NEW rt, Good(rt)
    PROVE  rt \in Goods
  <1> DEFINE t == rt.text
             S == [start : Nat, end : Nat, about : SUBSET Nat]
  <1>1. rt = [text |-> t, facets |-> rt.facets] /\ IsText(t) /\ t \in Seq([id : Nat, kind : Kinds])
    BY DEF Good, IsRichText, IsText
  <1>2. ASSUME rt.facets # None
        PROVE  rt.facets \in Seq(S)
    <2>1. IsList(rt.facets) /\ \A i \in DOMAIN rt.facets : Covers(t, rt.facets[i])
      BY <1>2 DEF Good, AllCover
    <2>2. \A f : Covers(t, f) => f \in S
      <3> TAKE f
      <3> HAVE Covers(t, f)
      <3>1. /\ f = [start |-> f.start, end |-> f.end, about |-> f.about]
            /\ f.start \in Nat /\ f.end \in Nat
            /\ \A x : x \in f.about <=> \E n : EndsAt(t, x, n) /\ f.start < n /\ n <= f.end
        BY <1>1, CoversMeans
      <3>2. \A x, n : EndsAt(t, x, n) => x \in Nat
        BY <1>1, EndsFacts
      <3>3. f.about \in SUBSET Nat
        BY <3>1, <3>2
      <3> QED BY <3>1, <3>3
    <2>3. ToSet(rt.facets) \subseteq S
      <3> HIDE DEF S
      <3> QED BY <2>1, <2>2 DEF ToSet
    <2> HIDE DEF S
    <2> QED BY <2>1, <2>3, SeqOver DEF IsList
  <1> HIDE DEF S, t
  <1>3. rt \in [text : Seq([id : Nat, kind : Kinds]), facets : {None} \cup Seq(S)]
    BY <1>1, <1>2
  <1> QED BY <1>3 DEF Goods, S

(* A text of symbols that are as wide in UTF-16 as in UTF-8.                *)
LEMMA SameWidth ==
    ASSUME NEW y, IsText(y), \A i \in DOMAIN y : Utf16[y[i].kind] = Utf8[y[i].kind]
    PROVE  Size(y, Utf16) = Length(y)
  <1> DEFINE K == Len(y)
             o8 == Offsets(y, Utf8)
             o16 == Offsets(y, Utf16)
             T == { k \in 0..K : o8[k] = o16[k] }
  <1>1. /\ K \in Nat /\ DOMAIN y = 1..K
        /\ o8[0] = 0 /\ \A k \in 1..K : o8[k] = o8[k - 1] + Utf8[y[k].kind]
        /\ o16[0] = 0 /\ \A k \in 1..K : o16[k] = o16[k - 1] + Utf16[y[k].kind]
    BY TextFacts, OffsetsFacts, Widths
  <1> HIDE DEF K, o8, o16
  <1>2. 0 \in T
    BY <1>1
  <1>3. \A k \in 1..K : k - 1 \in T => k \in T
    <2> TAKE k \in 1..K
    <2> HAVE k - 1 \in T
    <2>1. k \in 0..K /\ k \in DOMAIN y
      BY <1>1
    <2>2. o8[k] = o16[k]
      BY <1>1, <2>1
    <2> QED BY <2>1, <2>2
  <1> HIDE DEF T
  <1>4. \A k \in 0..K : k \in T
    BY <1>1, <1>2, <1>3, Climb
  <1>5. o8[K] = o16[K]
    BY <1>1, <1>4 DEF T
  <1> QED BY <1>5 DEF Length, Size, K, o8, o16

(* Cleaning once cuts a run of blanks out and puts two newlines in.         *)
LEMMA CleanOnceKeeps ==
    ASSUME NEW rt, Good(rt)
    PROVE  Good(CleanOnce(rt))
  <1> SUFFICES ASSUME Excess(rt.text) # {} PROVE Good(CleanOnce(rt))
    BY DEF CleanOnce
  <1> DEFINE t == rt.text
             K == Len(t)
             X == Excess(t)
             firsts == { e[1] : e \in X }
             first == Min(firsts)
             lasts == { k \in DOMAIN t : <<first, k>> \in X }
             last == Max(lasts)
             ot == Offsets(t, Utf8)
             at == ot[first - 1]
             to == ot[last]
             cut == Delete(rt, at, to)
             y == Typed(<<"newline", "newline">>, t)
  <1>1. IsText(t) /\ K \in Nat /\ DOMAIN t = 1..K
    BY TextFacts DEF Good, IsRichText
  <1>2. \A e \in X : /\ e \in (1..K) \X (1..K) /\ e[1] \in 1..K /\ e[2] \in 1..K /\ e = <<e[1], e[2]>>
                      /\ \E k \in e[1] + 1..e[2] - 1 : t[k].kind = "newline"
    BY <1>1 DEF Excess
  <1> HIDE DEF K, X
  <1>3. first \in firsts
    <2>1. firsts # {} /\ firsts \subseteq Nat
      BY <1>1, <1>2 DEF X
    <2> QED BY <2>1, LeastOf
  <1>4. PICK e \in X : first = e[1]
    BY <1>3
  <1> HIDE DEF first
  <1>5. last \in lasts
    <2>1. e[2] \in lasts
      BY <1>1, <1>2, <1>4
    <2>2. lasts # {} /\ lasts \subseteq 0..K
      BY <1>1, <2>1
    <2> HIDE DEF lasts
    <2> QED BY <1>1, <2>2, MaxOf
  <1> HIDE DEF last
  <1>6. first \in 1..K /\ last \in 1..K /\ first - 1 \in 0..K /\ last \in 0..K /\ first - 1 < last
    <2>1. <<first, last>> \in X /\ last \in 1..K
      BY <1>1, <1>5
    <2>2. first \in 1..K /\ \E k \in first + 1..last - 1 : t[k].kind = "newline"
      BY <1>2, <2>1
    <2> QED BY <1>1, <2>1, <2>2
  <1>7. at \in Boundaries(t) /\ to \in Boundaries(t) /\ at < to
    <2>1. at < to
      BY <1>1, <1>6, OffsetsFacts, Widths DEF K
    <2> QED BY <1>6, <2>1 DEF Boundaries, K
  <1> HIDE DEF at, to
  <1>8. Good(cut) /\ IdsOf(cut.text) \subseteq IdsOf(t) /\ at \in Boundaries(cut.text)
    BY <1>7, DeleteRich DEF Good
  <1>9. IsText(y) /\ IdsOf(y) \cap IdsOf(t) = {} /\ Size(y, Utf16) = Length(y)
    <2> DEFINE kinds == <<"newline", "newline">>
    <2>1. kinds \in Seq(Kinds) /\ DOMAIN kinds = 1..2 /\ \A i \in 1..2 : kinds[i] = "newline"
      BY DEF Kinds, Utf8
    <2>2. IsText(y) /\ IdsOf(y) \cap IdsOf(t) = {}
      BY <1>1, <2>1, TypedText
    <2>3. \A i \in DOMAIN y : Utf16[y[i].kind] = Utf8[y[i].kind]
      <3>1. \A i \in DOMAIN y : i \in 1..2 /\ y[i].kind = kinds[i]
        BY <2>1 DEF Typed
      <3> HIDE DEF y, kinds
      <3>2. \A i \in DOMAIN y : y[i].kind = "newline"
        BY <2>1, <3>1
      <3> QED BY <3>2 DEF Utf8, Utf16
    <2> HIDE DEF y
    <2> QED BY <2>2, <2>3, SameWidth
  <1>10. CleanOnce(rt) = Insert(cut, at, y)
    BY DEF CleanOnce, Match, cut, at, to, ot, last, lasts, first, firsts, X, y
  <1> HIDE DEF cut, y, t
  <1>11. IdsOf(cut.text) \cap IdsOf(y) = {}
    BY <1>8, <1>9
  <1>12. Good(Insert(cut, at, y))
    BY <1>8, <1>9, <1>11, InsertRich DEF Good
  <1> QED BY <1>10, <1>12

(* Cleaning, however many rounds it takes, keeps them.                      *)
LEMMA CleanKeeps ==
    ASSUME NEW rt, Good(rt)
    PROVE  Good(Clean(rt))
  <1> DEFINE K == Len(rt.text)
             Rec(f) == f = [n \in 0..K |-> IF n = 0 THEN rt ELSE CleanOnce(f[n - 1])]
             g == [p \in (1..K) \X Goods |-> CleanOnce(p[2])]
  <1>1. K \in Nat /\ rt \in Goods
    BY TextFacts, GoodsAreGood DEF Good, IsRichText
  <1>2. \A n \in 1..K : \A c \in Goods : g[<<n, c>>] = CleanOnce(c)
    OBVIOUS
  <1> HIDE DEF K, g
  <1>3. \A c \in Goods : CleanOnce(c) \in Goods
    <2>1. \A c \in Goods : Good(c)
      BY DEF Goods
    <2>2. \A c : Good(c) => CleanOnce(c) \in Goods
      BY CleanOnceKeeps, GoodsAreGood
    <2> QED BY <2>1, <2>2
  <1>4. PICK f : Iterates(f, K, g, rt) /\ \A n \in 0..K : f[n] \in Goods
    <2>1. \A n \in 1..K : \A c \in Goods : g[<<n, c>>] \in Goods
      BY <1>2, <1>3
    <2> QED BY <1>1, <2>1, IteratesExist
  <1>5. Rec(f)
    <2>1. f = [n \in 0..K |-> IF n = 0 THEN rt ELSE g[<<n, f[n - 1]>>]]
      BY <1>4 DEF Iterates
    <2>2. \A n \in 0..K : n # 0 => n \in 1..K /\ n - 1 \in 0..K
      BY <1>1
    <2>3. \A n \in 0..K : n # 0 => g[<<n, f[n - 1]>>] = CleanOnce(f[n - 1])
      BY <1>2, <1>4, <2>2
    <2> QED BY <2>1, <2>3
  <1> DEFINE after == CHOOSE a : Rec(a)
  <1>6. Rec(after)
    BY <1>5
  <1>7. Clean(rt) = after[K]
    BY Zenon DEF Clean, K
  <1> HIDE DEF after
  <1>8. \A n \in 0..K : after[n] \in Goods
    <2> DEFINE T == { n \in 0..K : after[n] \in Goods }
    <2>1. 0 \in T
      BY <1>1, <1>6
    <2>2. \A n \in 1..K : n - 1 \in T => n \in T
      <3> TAKE n \in 1..K
      <3>1. n \in 0..K /\ n # 0
        BY <1>1
      <3>2. after[n] = CleanOnce(after[n - 1])
        BY <1>6, <3>1
      <3> QED BY <1>3, <3>1, <3>2
    <2> HIDE DEF T
    <2>3. \A n \in 0..K : n \in T
      BY <1>1, <2>1, <2>2, Climb
    <2> QED BY <2>3 DEF T
  <1>9. after[K] \in Goods
    BY <1>1, <1>8
  <1> QED BY <1>7, <1>9 DEF Goods

(* The facets proposed by old entities lie on boundaries.                   *)
Proposed(t, facets) ==
    /\ IsList(facets)
    /\ \A i \in DOMAIN facets : \E a \in Nat : \E b :
          facets[i] = Facet(t, a, b) /\ (a <= b => b \in Boundaries(t))

(* The facets made from entities are about slices of the text.              *)
LEMMA EntitiesPropose ==
    ASSUME NEW t, IsText(t), NEW entities, IsList(entities),
           \A i \in DOMAIN entities : entities[i].start \in Nat /\ entities[i].end \in Nat
    PROVE  Proposed(t, EntitiesToFacets(t, entities))
  <1> DEFINE kept == { i \in DOMAIN entities : entities[i].type \in {"link", "mention"} }
             known == Keep(entities, kept)
             a(i) == Utf16IndexToUtf8Index(t, known[i].start)
             b(i) == Utf16IndexToUtf8Index(t, known[i].end)
             r == [i \in DOMAIN known |-> Facet(t, a(i), b(i))]
  <1>1. \A n \in Nat : Utf16IndexToUtf8Index(t, n) \in Boundaries(t)
    BY HeldFacts, Widths DEF Utf16IndexToUtf8Index, Boundaries
  <1>2. kept \in SUBSET DOMAIN entities
    OBVIOUS
  <1> HIDE DEF kept
  <1>3. IsList(known) /\ ToSet(known) = { entities[i] : i \in kept }
    BY <1>2, KeptFacts
  <1> HIDE DEF known
  <1>4. \A i \in DOMAIN known : known[i].start \in Nat /\ known[i].end \in Nat
    <2>1. \A i \in DOMAIN known : known[i] \in ToSet(known)
      BY DEF ToSet
    <2> QED BY <1>2, <1>3, <2>1
  <1>5. \A i \in DOMAIN known : a(i) \in Nat /\ b(i) \in Boundaries(t)
    <2>1. \A n \in Boundaries(t) : n \in Nat
      BY EndsFacts
    <2> QED BY <1>1, <1>4, <2>1
  <1>6. DOMAIN known = 1..Len(known) /\ Len(known) \in Nat
    BY <1>3, SeqFacts DEF IsList
  <1>7. r = [i \in 1..Len(known) |-> r[i]] /\ DOMAIN r = DOMAIN known
    BY <1>6
  <1>8. \A i \in DOMAIN known : r[i] = Facet(t, a(i), b(i))
    OBVIOUS
  <1>9. EntitiesToFacets(t, entities) = r
    BY DEF EntitiesToFacets, known, kept
  <1> HIDE DEF r, a, b
  <1>10. IsList(r)
    BY <1>6, <1>7, AsSeq DEF IsList
  <1>11. Proposed(t, r)
    BY <1>5, <1>7, <1>8, <1>10 DEF Proposed
  <1> QED BY <1>9, <1>11

(* Whatever the constructor is given.                                       *)
LEMMA ConstructIsGood ==
    ASSUME NEW source \in Sources
    PROVE  Good(Construct(source))
  <1> DEFINE t == NewText(source.text)
             given == IF source.facets = None THEN None
                      ELSE [i \in DOMAIN source.facets |-> Facet(t, source.facets[i][1], source.facets[i][2])]
             facets == IF given \in {None, <<>>} /\ source.entities # <<>>
                       THEN EntitiesToFacets(t, source.entities) ELSE given
             rt == [text |-> t,
                    facets |-> IF facets = None THEN None ELSE FacetSort(FacetFilter(facets))]
  <1>1. /\ source.text \in Seq(Kinds)
        /\ source.facets # None =>
              /\ source.facets \in Seq(Nat \X Nat)
              /\ \A i \in DOMAIN source.facets :
                    source.facets[i][1] <= source.facets[i][2] => source.facets[i][2] \in Boundaries(t)
        /\ IsList(source.entities)
        /\ \A i \in DOMAIN source.entities : source.entities[i].start \in Nat /\ source.entities[i].end \in Nat
    BY TextAssumption DEF SourcesAssumption
  <1>2. IsText(t)
    BY <1>1, NewTextIsText
  <1> HIDE DEF t
  <1>3. ASSUME given # None
        PROVE  Proposed(t, given)
    <2>1. source.facets \in Seq(Nat \X Nat) /\ source.facets # None
      BY <1>1, <1>3
    <2>2. /\ Len(source.facets) \in Nat /\ DOMAIN source.facets = 1..Len(source.facets)
          /\ \A i \in DOMAIN source.facets : source.facets[i] \in Nat \X Nat
      BY <2>1, LenProperties
    <2>3. \A i \in DOMAIN source.facets : source.facets[i][1] \in Nat
      BY <2>2
    <2>4. given = [i \in DOMAIN source.facets |-> Facet(t, source.facets[i][1], source.facets[i][2])]
      BY <2>1
    <2> HIDE DEF given
    <2>5. DOMAIN given = DOMAIN source.facets /\ given = [i \in 1..Len(source.facets) |-> given[i]]
      BY <2>2, <2>4
    <2>6. \A i \in DOMAIN given : given[i] = Facet(t, source.facets[i][1], source.facets[i][2])
      BY <2>4
    <2>7. IsList(given)
      BY <2>2, <2>5, AsSeq DEF IsList
    <2>8. \A i \in DOMAIN given : \E a \in Nat : \E b :
              given[i] = Facet(t, a, b) /\ (a <= b => b \in Boundaries(t))
      <3> TAKE i \in DOMAIN given
      <3> DEFINE a == source.facets[i][1]
                 b == source.facets[i][2]
      <3>1. a \in Nat /\ given[i] = Facet(t, a, b) /\ (a <= b => b \in Boundaries(t))
        BY <1>1, <2>1, <2>3, <2>5, <2>6
      <3> HIDE DEF a, b
      <3> QED BY <3>1
    <2> QED BY <2>7, <2>8 DEF Proposed
  <1>4. Proposed(t, EntitiesToFacets(t, source.entities))
    BY <1>1, <1>2, EntitiesPropose
  <1> HIDE DEF given
  <1>5. facets # None => Proposed(t, facets)
    BY <1>3, <1>4
  <1>6. facets # None => AllOn(t, FacetSort(FacetFilter(facets)))
    <2> HIDE DEF facets
    <2>1. facets # None => AllOn(t, FacetFilter(facets))
      BY <1>2, <1>5, FilterKeeps DEF Proposed
    <2> QED BY <1>2, <2>1, SortKeeps
  <1>7. Construct(source) = IF source.cleanNewlines THEN Clean(rt) ELSE rt
    BY DEF Construct, t, given
  <1> HIDE DEF facets
  <1>8. rt.text = t /\ rt.facets = (IF facets = None THEN None ELSE FacetSort(FacetFilter(facets)))
        /\ rt = [text |-> rt.text, facets |-> rt.facets]
    OBVIOUS
  <1> HIDE DEF rt
  <1>9. Good(rt)
    BY <1>2, <1>6, <1>8 DEF Good, IsRichText, AllCover, AllOn
  <1>10. Good(Clean(rt))
    BY <1>9, CleanKeeps
  <1> QED BY <1>7, <1>9, <1>10

(* Each mention that is found covers one symbol.                            *)
LEMMA DetectedOn ==
    ASSUME NEW t, IsText(t), DetectedFacets(t) # None
    PROVE  AllOn(t, DetectedFacets(t))
  <1> DEFINE ones == [i \in DOMAIN t |-> i]
             kept == { i \in DOMAIN t : t[i].kind = "mention"
                                        /\ (i = 1 \/ t[i - 1].kind \in {"space", "newline"}) }
             places == Keep(ones, kept)
             at == Offsets(t, Utf8)
             found == [n \in DOMAIN places |-> Facet(t, at[places[n] - 1], at[places[n]])]
  <1>1. DetectedFacets(t) = IF found = <<>> THEN None ELSE found
    BY DEF DetectedFacets
  <1>2. Len(t) \in Nat /\ DOMAIN t = 1..Len(t) /\ at \in [0..Len(t) -> Nat]
        /\ \A k \in 1..Len(t) : at[k - 1] < at[k]
    BY TextFacts, OffsetsFacts, Widths
  <1>3. IsList(ones) /\ DOMAIN ones = DOMAIN t /\ \A i \in DOMAIN t : ones[i] = i
    <2>1. ones = [i \in 1..Len(t) |-> ones[i]]
      BY <1>2
    <2>2. DOMAIN ones = DOMAIN t /\ \A i \in DOMAIN t : ones[i] = i
      OBVIOUS
    <2> HIDE DEF ones
    <2> QED BY <1>2, <2>1, <2>2, AsSeq DEF IsList
  <1>4. kept \subseteq DOMAIN t
    OBVIOUS
  <1> HIDE DEF ones, kept
  <1>5. IsList(places) /\ ToSet(places) = { ones[i] : i \in kept }
    BY <1>3, <1>4, KeptFacts
  <1> HIDE DEF places
  <1>6. \A n \in DOMAIN places : places[n] \in 1..Len(t)
    <2>1. \A n \in DOMAIN places : places[n] \in ToSet(places)
      BY DEF ToSet
    <2> QED BY <1>2, <1>3, <1>4, <1>5, <2>1
  <1>7. \A k \in 1..Len(t) : Covers(t, Facet(t, at[k - 1], at[k]))
    <2> TAKE k \in 1..Len(t)
    <2>1. k - 1 \in 0..Len(t) /\ k \in 0..Len(t)
      BY <1>2
    <2>2. at[k - 1] \in Nat /\ at[k] \in Nat /\ at[k - 1] < at[k]
      BY <1>2, <2>1
    <2>3. at[k] \in Boundaries(t) /\ at[k - 1] <= at[k]
      BY <2>1, <2>2 DEF Boundaries
    <2> QED BY <2>2, <2>3, FacetCovers
  <1>8. \A n \in DOMAIN places : Covers(t, found[n])
    BY <1>6, <1>7
  <1>9. DOMAIN places = 1..Len(places) /\ Len(places) \in Nat
    BY <1>5, SeqFacts DEF IsList
  <1>10. DOMAIN found = DOMAIN places /\ found = [n \in 1..Len(places) |-> found[n]]
    BY <1>9
  <1> HIDE DEF found
  <1>11. AllOn(t, found)
    BY <1>8, <1>9, <1>10, AsSeq DEF AllOn, IsList
  <1> QED BY <1>1, <1>11

-------------------------------------------------------------------------------
(* The steps *)

(* The invariant of rich text holds at the start.                           *)
LEMMA TextStarts ==
    ASSUME TextInit
    PROVE  TextInv
  <1>1. PICK source \in Sources : richText = Construct(source)
    BY DEF TextInit
  <1> QED BY <1>1, ConstructIsGood DEF TextInv, Good

(* Each edit and each step of a detection keeps it.                         *)
LEMMA TextKeeps ==
    ASSUME TextInv, TextNext
    PROVE  TextInv'
  <1> DEFINE t == richText.text
  <1>1. IsRichText(richText) /\ IsText(t) /\ (~mixed => AllCover(richText))
    BY DEF TextInv, IsRichText
  <1>2. CASE InsertText
    <2>1. PICK at \in Boundaries(t), kinds \in Inserts :
            /\ richText' = Insert(richText, at, Typed(kinds, t))
            /\ mixed' = (mixed \/ Size(Typed(kinds, t), Utf16) # Length(Typed(kinds, t)))
      BY <1>2 DEF InsertText
    <2> DEFINE y == Typed(kinds, t)
    <2>2. IsText(y) /\ IdsOf(t) \cap IdsOf(y) = {}
      <3>1. kinds \in Seq(Kinds)
        BY TextAssumption DEF InsertsAssumption
      <3> QED BY <1>1, <3>1, TypedText
    <2> HIDE DEF y
    <2>3. /\ IsRichText(Insert(richText, at, y))
          /\ AllCover(richText) /\ Size(y, Utf16) = Length(y) => AllCover(Insert(richText, at, y))
      BY <1>1, <2>2, InsertRich
    <2>4. ~mixed' => ~mixed /\ Size(y, Utf16) = Length(y)
      BY <2>1, Zenon DEF y
    <2>5. richText' = Insert(richText, at, y)
      BY <2>1 DEF y
    <2>6. IsRichText(richText') /\ (~mixed' => AllCover(richText'))
      BY <1>1, <2>3, <2>4, <2>5, Zenon
    <2> QED BY <2>6 DEF TextInv
  <1>3. CASE DeleteText
    <2>1. PICK from \in Boundaries(t), to \in Boundaries(t) :
            from < to /\ richText' = Delete(richText, from, to)
      BY <1>3 DEF DeleteText
    <2>2. IsRichText(richText') /\ (AllCover(richText) => AllCover(richText')) /\ mixed' = mixed
      BY <1>1, <1>3, <2>1, DeleteRich DEF DeleteText
    <2>3. ~mixed' => AllCover(richText')
      BY <1>1, <2>2, Zenon
    <2> QED BY <2>2, <2>3 DEF TextInv
  <1>4. CASE StartDetect
    <2>1. richText' = [richText EXCEPT !.facets = DetectedFacets(t)]
      BY <1>4 DEF StartDetect
    <2>2. richText = [text |-> t, facets |-> richText.facets]
      BY <1>1 DEF IsRichText
    <2> DEFINE found == DetectedFacets(t)
    <2> HIDE DEF found
    <2>3. richText'.text = t /\ richText'.facets = found
          /\ richText' = [text |-> richText'.text, facets |-> richText'.facets]
      BY <2>1, <2>2 DEF found
    <2>4. found # None => AllOn(t, found)
      BY <1>1, DetectedOn DEF found
    <2>5. IsRichText(richText') /\ AllCover(richText')
      BY <1>1, <2>3, <2>4 DEF IsRichText, AllCover, AllOn
    <2> QED BY <2>5 DEF TextInv
  <1>5. ASSUME NEW i \in DOMAIN detects, Resolved(i)
        PROVE  TextInv'
    <2>1. mixed' = mixed /\ richText' = IF richText.facets = None THEN richText
                                        ELSE [richText EXCEPT !.facets = FacetSort(richText.facets)]
      BY <1>5 DEF Resolved
    <2>2. CASE richText.facets = None
      BY <1>1, <2>1, <2>2 DEF TextInv
    <2>3. CASE richText.facets # None
      <3> DEFINE sorted == FacetSort(richText.facets)
      <3>1. richText = [text |-> t, facets |-> richText.facets]
        BY <1>1 DEF IsRichText
      <3> HIDE DEF sorted
      <3>2. richText'.text = t /\ richText'.facets = sorted
            /\ richText' = [text |-> richText'.text, facets |-> richText'.facets]
        BY <2>1, <2>3, <3>1 DEF sorted
      <3>3. AllCover(richText) => AllOn(t, sorted)
        <4>1. AllCover(richText) => AllOn(t, richText.facets)
          BY <2>3 DEF AllCover, AllOn
        <4> QED BY <1>1, <4>1, SortKeeps DEF sorted
      <3>4. IsRichText(richText') /\ (AllCover(richText) => AllCover(richText'))
        BY <1>1, <3>2, <3>3 DEF IsRichText, AllCover, AllOn
      <3>5. ~mixed' => AllCover(richText')
        BY <1>1, <2>1, <3>4, Zenon
      <3> QED BY <3>4, <3>5 DEF TextInv
    <2> QED BY <2>2, <2>3
  <1> QED BY <1>2, <1>3, <1>4, <1>5 DEF TextNext

-------------------------------------------------------------------------------
(* Segments *)

(* The segments so far, from the start of the text to an offset.            *)
SegmentsOf(facets) == [from : Nat, to : Nat, facet : ToSet(facets) \cup {None}]
Run(out, c) ==
    /\ Len(out) = 0 => c = 0
    /\ Len(out) > 0 => out[1].from = 0 /\ out[Len(out)].to = c
    /\ \A i \in 1..Len(out) - 1 : out[i].to = out[i + 1].from

(* A segment more, from where they end.                                     *)
LEMMA Extended ==
    ASSUME NEW G, NEW out \in Seq(G), NEW c \in Nat, Run(out, c),
           NEW g \in G, g.from = c
    PROVE  out \o <<g>> \in Seq(G) /\ Run(out \o <<g>>, g.to) /\ Len(out \o <<g>>) > 0
  <1> DEFINE n == Len(out)
             r == out \o <<g>>
  <1>1. n \in Nat /\ <<g>> \in Seq(G) /\ Len(<<g>>) = 1 /\ <<g>>[1] = g
    BY LenProperties
  <1>2. /\ r \in Seq(G) /\ Len(r) = n + 1
        /\ \A i \in 1..n + 1 : r[i] = IF i <= n THEN out[i] ELSE <<g>>[i - n]
    BY <1>1, ConcatProperties
  <1> HIDE DEF r
  <1>3. \A i \in 1..n : i \in 1..n + 1 /\ r[i] = out[i]
    BY <1>1, <1>2
  <1>4. r[n + 1] = g
    <2>1. n + 1 \in 1..n + 1 /\ ~ (n + 1 <= n) /\ n + 1 - n = 1
      BY <1>1
    <2> QED BY <1>1, <1>2, <2>1
  <1>5. r[1].from = 0
    <2>1. CASE n = 0
      BY <1>4, <2>1 DEF Run
    <2>2. CASE n > 0
      <3>1. 1 \in 1..n
        BY <1>1, <2>2
      <3> QED BY <1>3, <2>2, <3>1 DEF Run
    <2> QED BY <1>1, <2>1, <2>2
  <1>6. \A i \in 1..Len(r) - 1 : r[i].to = r[i + 1].from
    <2> TAKE i \in 1..Len(r) - 1
    <2>1. CASE i = n
      <3>1. n > 0 /\ i \in 1..n
        BY <1>1, <1>2, <2>1
      <3>2. out[n].to = c
        BY <3>1 DEF Run
      <3> QED BY <1>3, <1>4, <2>1, <3>1, <3>2
    <2>2. CASE i # n
      <3>1. i \in 1..n - 1 /\ i \in 1..n /\ i + 1 \in 1..n
        BY <1>1, <1>2, <2>2
      <3>2. out[i].to = out[i + 1].from
        BY <3>1 DEF Run
      <3> QED BY <1>3, <3>1, <3>2
    <2> QED BY <2>1, <2>2
  <1>7. Len(r) > 0 /\ Len(r) # 0 /\ r[Len(r)].to = g.to
    BY <1>1, <1>2, <1>4
  <1>8. Run(r, g.to)
    BY <1>5, <1>6, <1>7 DEF Run
  <1> QED BY <1>2, <1>7, <1>8 DEF r

(* One turn of the loop goes on from where the segments end.                *)
Walks(facets, end) ==
    { acc \in [cursor : Nat, out : Seq(SegmentsOf(facets))] :
        Run(acc.out, acc.cursor) /\ acc.cursor <= end }

(* One more facet walked leaves a segment list as segments() builds it.     *)
LEMMA WalkedKeeps ==
    ASSUME NEW t, IsText(t), NEW facets, NEW f \in ToSet(facets), Covers(t, f),
           NEW acc \in Walks(facets, Length(t))
    PROVE  Walked(acc, f, t) \in Walks(facets, Length(t))
  <1> DEFINE G == SegmentsOf(facets)
             c == acc.cursor
             gap == IF c < f.start THEN <<Segment(c, f.start, None)>> ELSE <<>>
             g == Segment(f.start, f.end, IF Shown(t, f) THEN f ELSE None)
             part1 == acc.out \o gap
             part2 == part1 \o (IF f.start < f.end THEN <<g>> ELSE <<>>)
             w == [cursor |-> f.end, out |-> part2]
  <1>1. /\ f.start \in Nat /\ f.end \in Nat /\ f.start <= f.end /\ f.end <= Length(t)
    BY CoversMeans, EndsFacts
  <1>2. /\ c \in Nat /\ acc.out \in Seq(G) /\ Run(acc.out, c)
    BY DEF Walks
  <1> SUFFICES ASSUME ~ (c > f.start) PROVE w \in Walks(facets, Length(t))
    BY DEF Walked
  <1>3. \A a, b \in Nat : \A h \in ToSet(facets) \cup {None} :
           Segment(a, b, h) \in G /\ Segment(a, b, h).from = a /\ Segment(a, b, h).to = b
    BY DEF Segment, SegmentsOf
  <1>4. g \in G /\ g.from = f.start /\ g.to = f.end
    <2>1. (IF Shown(t, f) THEN f ELSE None) \in ToSet(facets) \cup {None}
      OBVIOUS
    <2> QED BY <1>1, <1>3, <2>1
  <1> HIDE DEF G, g, c
  <1>5. part1 \in Seq(G) /\ Run(part1, f.start)
    <2>1. CASE c < f.start
      <3> DEFINE h == Segment(c, f.start, None)
      <3>1. h \in G /\ h.from = c /\ h.to = f.start
        BY <1>1, <1>2, <1>3
      <3> HIDE DEF h
      <3>2. acc.out \o <<h>> \in Seq(G) /\ Run(acc.out \o <<h>>, h.to)
        BY <1>2, <3>1, Extended
      <3>3. part1 = acc.out \o <<h>>
        BY <2>1 DEF h
      <3> HIDE DEF part1
      <3> QED BY <3>1, <3>2, <3>3
    <2>2. CASE ~ (c < f.start)
      <3>1. c = f.start
        BY <1>1, <1>2, <2>2 DEF c
      <3>2. part1 = acc.out
        BY <1>2, <2>2, ConcatEmptySeq
      <3> HIDE DEF part1
      <3> QED BY <1>2, <3>1, <3>2
    <2> QED BY <2>1, <2>2
  <1> HIDE DEF part1
  <1>6. part2 \in Seq(G) /\ Run(part2, f.end)
    <2>1. CASE f.start < f.end
      <3>1. part1 \o <<g>> \in Seq(G) /\ Run(part1 \o <<g>>, g.to)
        BY <1>1, <1>4, <1>5, Extended
      <3>2. part2 = part1 \o <<g>>
        BY <2>1
      <3> HIDE DEF part2
      <3> QED BY <1>4, <3>1, <3>2
    <2>2. CASE ~ (f.start < f.end)
      <3>1. f.start = f.end
        BY <1>1, <2>2
      <3>2. part2 = part1
        BY <1>5, <2>2, ConcatEmptySeq
      <3> HIDE DEF part2
      <3> QED BY <1>5, <3>1, <3>2
    <2> QED BY <2>1, <2>2
  <1> HIDE DEF part2
  <1>7. w.cursor = f.end /\ w.out = part2 /\ w \in [cursor : Nat, out : Seq(G)]
    BY <1>1, <1>6
  <1> HIDE DEF w
  <1> QED BY <1>1, <1>6, <1>7 DEF Walks, G

(* The segments put together are the text.                                  *)
LEMMA GoodReassembles ==
    ASSUME NEW rt, Good(rt)
    PROVE  Reassembled(rt)
  <1> DEFINE t == rt.text
             facets == rt.facets
             end == Length(t)
             segments == Segments(rt)
             K == Len(facets)
             none == [cursor |-> 0, out |-> <<>>]
             W == Walks(facets, end)
             Rec(a) == a = [n \in 0..K |-> IF n = 0 THEN none ELSE Walked(a[n - 1], facets[n], t)]
             walked == CHOOSE a : Rec(a)
             last == walked[K]
             rest == <<Segment(last.cursor, end, None)>>
  <1>1. IsText(t) /\ end \in Nat
    <2>1. IsText(t)
      BY DEF Good, IsRichText
    <2> QED BY <2>1, EndsFacts
  <1>2. ASSUME NEW G, NEW out \in Seq(G), Run(out, end), segments = out, end > 0 => Len(out) > 0
        PROVE  Reassembled(rt)
    <2> HIDE DEF segments
    <2>1. Len(out) \in Nat /\ DOMAIN out = 1..Len(out)
      BY LenProperties
    <2>2. end > 0 => segments[1].from = 0 /\ Last(segments).to = end
      BY <1>2, <2>1 DEF Run, Last
    <2>3. \A i \in 1..Len(segments) - 1 : segments[i].to = segments[i + 1].from
      BY <1>2 DEF Run
    <2> QED BY <2>2, <2>3 DEF Reassembled, segments
  <1>3. <<>> \in Seq(SegmentsOf(facets)) /\ Run(<<>>, 0) /\ Len(<<>>) = 0
    BY DEF Run
  <1>4. \A a, b \in Nat : /\ Segment(a, b, None) \in SegmentsOf(facets)
                           /\ Segment(a, b, None).from = a /\ Segment(a, b, None).to = b
    BY DEF Segment, SegmentsOf
  <1>5. CASE facets \in {None, <<>>}
    <2> DEFINE g == Segment(0, end, None)
    <2>1. g \in SegmentsOf(facets) /\ g.from = 0 /\ g.to = end
      BY <1>1, <1>4
    <2>2. segments = <<g>>
      BY <1>5 DEF Segments
    <2> HIDE DEF g, segments
    <2>3. /\ <<>> \o <<g>> \in Seq(SegmentsOf(facets)) /\ Run(<<>> \o <<g>>, g.to)
          /\ Len(<<>> \o <<g>>) > 0
      BY <1>3, <2>1, Extended
    <2>4. <<>> \o <<g>> = <<g>>
      <3>1. <<g>> \in Seq(SegmentsOf(facets))
        BY <2>1
      <3> QED BY <3>1, ConcatEmptySeq
    <2>5. <<g>> \in Seq(SegmentsOf(facets)) /\ Run(<<g>>, end) /\ Len(<<g>>) > 0
      BY <2>1, <2>3, <2>4
    <2> QED BY <1>2, <2>2, <2>5
  <1>6. CASE facets \notin {None, <<>>}
    <2>1. IsList(facets) /\ \A i \in DOMAIN facets : Covers(t, facets[i])
      BY <1>6 DEF Good, AllCover
    <2>2. K \in Nat /\ DOMAIN facets = 1..K /\ \A i \in 1..K : facets[i] \in ToSet(facets)
      <3>1. K \in Nat /\ DOMAIN facets = 1..K
        BY <2>1, SeqFacts DEF IsList
      <3> QED BY <3>1 DEF ToSet
    <2>3. segments = last.out \o (IF last.cursor < end THEN rest ELSE <<>>)
      BY <1>6, Zenon DEF Segments
    <2> HIDE DEF facets, t, end, segments
    <2>4. none \in W
      <3>1. none.cursor = 0 /\ none.out = <<>>
        OBVIOUS
      <3>2. none \in [cursor : Nat, out : Seq(SegmentsOf(facets))]
        BY <1>3
      <3> HIDE DEF none
      <3> QED BY <1>1, <1>3, <3>1, <3>2 DEF Walks
    <2> DEFINE g == [p \in (1..K) \X W |-> Walked(p[2], facets[p[1]], t)]
    <2>5. \A n \in 1..K : \A acc \in W : g[<<n, acc>>] = Walked(acc, facets[n], t)
      OBVIOUS
    <2> HIDE DEF K, g, none, W
    <2>6. \A n \in 1..K : \A acc \in W : Walked(acc, facets[n], t) \in W
      BY <1>1, <2>1, <2>2, WalkedKeeps DEF W, end
    <2>7. PICK a : Iterates(a, K, g, none) /\ \A n \in 0..K : a[n] \in W
      <3>1. \A n \in 1..K : \A acc \in W : g[<<n, acc>>] \in W
        BY <2>5, <2>6
      <3> QED BY <2>2, <2>4, <3>1, IteratesExist
    <2>8. Rec(a)
      <3>1. a = [n \in 0..K |-> IF n = 0 THEN none ELSE g[<<n, a[n - 1]>>]]
        BY <2>7 DEF Iterates
      <3>2. \A n \in 0..K : n # 0 => n \in 1..K /\ n - 1 \in 0..K
        BY <2>2
      <3>3. \A n \in 0..K : n # 0 => g[<<n, a[n - 1]>>] = Walked(a[n - 1], facets[n], t)
        BY <2>5, <2>7, <3>2
      <3> QED BY <3>1, <3>3
    <2>9. Rec(walked)
      BY <2>8
    <2> HIDE DEF walked
    <2>10. \A n \in 0..K : walked[n] \in W
      <3> DEFINE T == { n \in 0..K : walked[n] \in W }
      <3>1. 0 \in T
        BY <2>2, <2>4, <2>9
      <3>2. \A n \in 1..K : n - 1 \in T => n \in T
        <4> TAKE n \in 1..K
        <4>1. n \in 0..K /\ n # 0
          BY <2>2
        <4>2. walked[n] = Walked(walked[n - 1], facets[n], t)
          BY <2>9, <4>1
        <4> QED BY <2>6, <4>1, <4>2
      <3> HIDE DEF T
      <3>3. \A n \in 0..K : n \in T
        BY <2>2, <3>1, <3>2, Climb
      <3> QED BY <3>3 DEF T
    <2>11. last \in W
      BY <2>2, <2>10
    <2> HIDE DEF last
    <2>12. /\ last.cursor \in Nat /\ last.cursor <= end
           /\ last.out \in Seq(SegmentsOf(facets)) /\ Run(last.out, last.cursor)
      BY <2>11 DEF W, Walks
    <2>13. CASE last.cursor < end
      <3> DEFINE h == Segment(last.cursor, end, None)
      <3>1. h \in SegmentsOf(facets) /\ h.from = last.cursor /\ h.to = end
        BY <1>1, <1>4, <2>12
      <3>2. segments = last.out \o <<h>>
        BY <2>3, <2>13
      <3> HIDE DEF h
      <3>3. /\ last.out \o <<h>> \in Seq(SegmentsOf(facets)) /\ Run(last.out \o <<h>>, end)
            /\ Len(last.out \o <<h>>) > 0
        BY <2>12, <3>1, Extended
      <3> QED BY <1>2, <3>2, <3>3
    <2>14. CASE ~ (last.cursor < end)
      <3>1. last.cursor = end
        BY <1>1, <2>12, <2>14
      <3>2. segments = last.out
        BY <2>3, <2>12, <2>14, ConcatEmptySeq
      <3>3. end > 0 => Len(last.out) > 0
        <4>1. Len(last.out) \in Nat
          BY <2>12, LenProperties
        <4>2. Len(last.out) = 0 => end = 0
          BY <2>12, <3>1 DEF Run
        <4> QED BY <1>1, <4>1, <4>2
      <3> QED BY <1>2, <2>12, <3>1, <3>2, <3>3
    <2> QED BY <2>13, <2>14
  <1> QED BY <1>5, <1>6

(* A facet that is on its symbols is aligned with them.                     *)
LEMMA GoodAligns ==
    ASSUME NEW rt, Good(rt)
    PROVE  Aligned(rt)
  <1>1. IsText(rt.text)
    BY DEF Good, IsRichText
  <1>2. \A f : Covers(rt.text, f) =>
            /\ f.start <= f.end /\ f.end <= Length(rt.text)
            /\ IdsOf(Slice(rt.text, f.start, f.end)) = f.about
    BY <1>1, EndsFacts DEF Covers
  <1>3. ASSUME rt.facets # None
        PROVE  \A f \in ToSet(rt.facets) : Covers(rt.text, f)
    BY <1>3 DEF Good, AllCover, ToSet
  <1> QED BY <1>2, <1>3 DEF Aligned

(* The invariant implies what is shown of the facets.                       *)
LEMMA FacetsFollowInv ==
    ASSUME TextInv
    PROVE  FacetsFollowText
  <1>1. ~mixed => Good(richText)
    BY DEF TextInv, Good
  <1>2. Good(richText) => Aligned(richText) /\ Reassembled(richText)
    BY GoodAligns, GoodReassembles
  <1> QED BY <1>1, <1>2, Zenon DEF FacetsFollowText

-------------------------------------------------------------------------------
(* The preferences an action leaves alone *)

(* What is chosen from a sequence grows by each chosen element in turn.     *)
ChosenBy(f, s, at) ==
    /\ f[0] = <<>>
    /\ \A n \in 1..Len(s) : f[n] = IF n \in at THEN Append(f[n - 1], s[n]) ELSE f[n - 1]

(* What is chosen of a list is reached element by element.                  *)
LEMMA ChosenSteps ==
    ASSUME NEW S, NEW s \in Seq(S), NEW at
    PROVE  \E f : f \in [0..Len(s) -> Seq(S)] /\ ChosenBy(f, s, at) /\ Chosen(s, at) = f[Len(s)]
  <1> DEFINE K == Len(s)
             Rec(u) == u = [n \in 0..K |-> IF n = 0 THEN <<>>
                                           ELSE IF n \in at THEN Append(u[n - 1], s[n]) ELSE u[n - 1]]
             g == [p \in (1..K) \X Seq(S) |-> IF p[1] \in at THEN Append(p[2], s[p[1]]) ELSE p[2]]
  <1>1. K \in Nat /\ <<>> \in Seq(S) /\ \A n \in 1..K : s[n] \in S
    BY LenProperties, EmptySeq
  <1>2. \A n \in 1..K : \A c \in Seq(S) : g[<<n, c>>] = IF n \in at THEN Append(c, s[n]) ELSE c
    OBVIOUS
  <1> HIDE DEF g
  <1>3. \A n \in 1..K : \A c \in Seq(S) : g[<<n, c>>] \in Seq(S)
    <2> TAKE n \in 1..K
    <2> TAKE c \in Seq(S)
    <2>1. Append(c, s[n]) \in Seq(S)
      BY <1>1, AppendProperties
    <2> QED BY <1>2, <2>1
  <1>4. PICK f : Iterates(f, K, g, <<>>) /\ \A n \in 0..K : f[n] \in Seq(S)
    BY <1>1, <1>3, IteratesExist
  <1>5. Rec(f)
    <2>1. f = [n \in 0..K |-> IF n = 0 THEN <<>> ELSE g[<<n, f[n - 1]>>]]
      BY <1>4 DEF Iterates
    <2>2. \A n \in 0..K : n # 0 => n \in 1..K /\ n - 1 \in 0..K
      BY <1>1
    <2>3. \A n \in 0..K : n # 0 =>
             g[<<n, f[n - 1]>>] = IF n \in at THEN Append(f[n - 1], s[n]) ELSE f[n - 1]
      BY <1>2, <1>4, <2>2
    <2> QED BY <2>1, <2>3
  <1> DEFINE u == CHOOSE u : Rec(u)
  <1>6. Rec(u) /\ Chosen(s, at) = u[K]
    <2>1. Chosen(s, at) = u[K]
      BY Zenon DEF Chosen
    <2> HIDE DEF Rec
    <2> QED BY <1>5, <2>1
  <1> HIDE DEF u
  <1>7. /\ u[0] = <<>>
        /\ \A n \in 1..K : u[n] = IF n \in at THEN Append(u[n - 1], s[n]) ELSE u[n - 1]
    <2>1. 0 \in 0..K /\ \A n \in 1..K : n \in 0..K /\ n # 0
      BY <1>1
    <2> QED BY <1>6, <2>1
  <1>8. \A n \in 0..K : u[n] \in Seq(S)
    <2> DEFINE T == { n \in 0..K : u[n] \in Seq(S) }
    <2>0. 0 \in 0..K /\ u[0] \in Seq(S)
      BY <1>1, <1>7
    <2>1. 0 \in T
      BY <2>0
    <2>2. \A n \in 1..K : n - 1 \in T => n \in T
      <3> TAKE n \in 1..K
      <3> HAVE n - 1 \in T
      <3>1. u[n - 1] \in Seq(S) /\ n \in 0..K
        BY <1>1
      <3>2. Append(u[n - 1], s[n]) \in Seq(S)
        BY <1>1, <3>1, AppendProperties
      <3> QED BY <1>7, <3>1, <3>2
    <2> HIDE DEF T
    <2>3. \A n \in 0..K : n \in T
      BY <1>1, <2>1, <2>2, Climb
    <2> QED BY <2>3 DEF T
  <1>9. u = [n \in 0..K |-> u[n]]
    BY <1>6
  <1>10. u \in [0..K -> Seq(S)]
    BY <1>8, <1>9
  <1>11. ChosenBy(u, s, at)
    BY <1>7 DEF ChosenBy
  <1> QED BY <1>6, <1>10, <1>11

(* Two choices that go the same way, element by element, end the same way.  *)
LEMMA SameChoice ==
    ASSUME NEW S, NEW s \in Seq(S), NEW t \in Seq(S), NEW K \in Nat, NEW f, NEW g, NEW at, NEW bt,
           ChosenBy(f, s, at), ChosenBy(g, t, bt), K <= Len(s), K <= Len(t),
           \A n \in 1..K : (n \in at <=> n \in bt) /\ (n \in at => s[n] = t[n])
    PROVE  f[K] = g[K]
  <1> DEFINE T == { n \in 0..K : f[n] = g[n] }
  <1>1. Len(s) \in Nat /\ Len(t) \in Nat
    BY LenProperties
  <1>2. 0 \in T
    BY DEF ChosenBy
  <1>3. \A n \in 1..K : n - 1 \in T => n \in T
    <2> TAKE n \in 1..K
    <2>1. n \in 1..Len(s) /\ n \in 1..Len(t) /\ n \in 0..K
      BY <1>1
    <2>2. /\ f[n] = IF n \in at THEN Append(f[n - 1], s[n]) ELSE f[n - 1]
          /\ g[n] = IF n \in bt THEN Append(g[n - 1], t[n]) ELSE g[n - 1]
      BY <2>1 DEF ChosenBy
    <2> QED BY <2>1, <2>2
  <1> HIDE DEF T
  <1>4. K \in T
    <2>1. \A n \in 0..K : n \in T
      BY <1>2, <1>3, Climb, Zenon
    <2> QED BY <2>1
  <1> QED BY <1>4 DEF T

(* The elements of a sequence that are in a set, in order.                  *)
Within(s, X) == Chosen(s, { i \in DOMAIN s : s[i] \in X })

(* Lists with the same elements of a set at the same places have the same   *)
(* within it.                                                               *)
LEMMA WithinSame ==
    ASSUME NEW S, NEW s \in Seq(S), NEW t \in Seq(S), Len(s) = Len(t), NEW X,
           \A n \in 1..Len(s) : (s[n] \in X <=> t[n] \in X) /\ (s[n] \in X => s[n] = t[n])
    PROVE  Within(s, X) = Within(t, X)
  <1> DEFINE at == { i \in DOMAIN s : s[i] \in X }
             bt == { i \in DOMAIN t : t[i] \in X }
  <1>1. Len(s) \in Nat /\ DOMAIN s = 1..Len(s) /\ DOMAIN t = 1..Len(s)
    BY LenProperties
  <1>2. \A n \in 1..Len(s) : (n \in at <=> n \in bt) /\ (n \in at => s[n] = t[n])
    BY <1>1
  <1> HIDE DEF at, bt
  <1>3. PICK f : ChosenBy(f, s, at) /\ Chosen(s, at) = f[Len(s)]
    BY ChosenSteps
  <1>4. PICK g : ChosenBy(g, t, bt) /\ Chosen(t, bt) = g[Len(t)]
    BY ChosenSteps
  <1>5. f[Len(s)] = g[Len(s)]
    BY <1>1, <1>2, <1>3, <1>4, SameChoice
  <1> QED BY <1>3, <1>4, <1>5 DEF Within, at, bt

(* An element appended counts for the sets that it is in.                   *)
LEMMA WithinAppend ==
    ASSUME NEW S, NEW s \in Seq(S), NEW e \in S, NEW X
    PROVE  /\ e \in X => Within(Append(s, e), X) = Append(Within(s, X), e)
           /\ e \notin X => Within(Append(s, e), X) = Within(s, X)
  <1> DEFINE t == Append(s, e)
             at == { i \in DOMAIN s : s[i] \in X }
             bt == { i \in DOMAIN t : t[i] \in X }
             K == Len(s)
  <1>1. /\ t \in Seq(S) /\ K \in Nat /\ Len(t) = K + 1 /\ DOMAIN s = 1..K /\ DOMAIN t = 1..(K + 1)
        /\ t[K + 1] = e /\ \A n \in 1..K : t[n] = s[n]
    BY AppendProperties, LenProperties
  <1> HIDE DEF t
  <1>2. \A n \in 1..K : (n \in at <=> n \in bt) /\ (n \in at => s[n] = t[n])
    BY <1>1
  <1>3. K + 1 \in bt <=> e \in X
    BY <1>1
  <1> HIDE DEF at, bt
  <1>4. PICK f : ChosenBy(f, s, at) /\ Chosen(s, at) = f[K]
    BY ChosenSteps
  <1>5. PICK g : ChosenBy(g, t, bt) /\ Chosen(t, bt) = g[K + 1]
    BY <1>1, ChosenSteps
  <1>6. f[K] = g[K]
    <2>1. K <= Len(s) /\ K <= Len(t)
      BY <1>1
    <2> QED BY <1>1, <1>2, <1>4, <1>5, <2>1, SameChoice
  <1>7. g[K + 1] = IF K + 1 \in bt THEN Append(g[K], t[K + 1]) ELSE g[K]
    <2>1. K + 1 \in 1..Len(t) /\ (K + 1) - 1 = K
      BY <1>1
    <2>2. g[K + 1] = IF K + 1 \in bt THEN Append(g[(K + 1) - 1], t[K + 1]) ELSE g[(K + 1) - 1]
      BY <1>5, <2>1, Zenon DEF ChosenBy
    <2> QED BY <2>1, <2>2
  <1>8. Within(t, X) = g[K + 1] /\ Within(s, X) = f[K]
    BY <1>4, <1>5 DEF Within, at, bt
  <1>9. Within(t, X) = IF e \in X THEN Append(Within(s, X), e) ELSE Within(s, X)
    BY <1>1, <1>3, <1>6, <1>7, <1>8
  <1> QED BY <1>9 DEF t

(* What is chosen is a sequence of the same things, and what a set takes    *)
(* from it is what it takes from the whole when nothing of it was left out. *)
LEMMA WithinChosen ==
    ASSUME NEW S, NEW s \in Seq(S), NEW at, NEW X, \A i \in DOMAIN s : s[i] \in X => i \in at
    PROVE  Chosen(s, at) \in Seq(S) /\ Within(Chosen(s, at), X) = Within(s, X)
  <1> DEFINE bt == { i \in DOMAIN s : s[i] \in X }
             K == Len(s)
  <1>1. K \in Nat /\ DOMAIN s = 1..K /\ \A n \in 1..K : s[n] \in S
    BY LenProperties
  <1>0. \A c \in Seq(S) : \A e \in S :
           /\ e \in X => Within(Append(c, e), X) = Append(Within(c, X), e)
           /\ e \notin X => Within(Append(c, e), X) = Within(c, X)
    BY WithinAppend
  <1>2. PICK f : f \in [0..K -> Seq(S)] /\ ChosenBy(f, s, at) /\ Chosen(s, at) = f[K]
    BY ChosenSteps
  <1>3. \A n \in 1..K : (n \in bt <=> s[n] \in X) /\ (n \in bt => n \in at)
    BY <1>1
  <1> HIDE DEF bt
  <1>4. PICK g : g \in [0..K -> Seq(S)] /\ ChosenBy(g, s, bt) /\ Chosen(s, bt) = g[K]
    BY ChosenSteps
  <1> DEFINE T == { n \in 0..K : Within(f[n], X) = g[n] }
  <1>5. 0 \in T
    <2>1. <<>> \in Seq(S) /\ Len(<<>>) = 0
      BY EmptySeq
    <2>2. Within(<<>>, X) = <<>>
      <3> DEFINE ct == { i \in DOMAIN <<>> : <<>>[i] \in X }
      <3> HIDE DEF ct
      <3>1. PICK h : ChosenBy(h, <<>>, ct) /\ Chosen(<<>>, ct) = h[Len(<<>>)]
        BY <2>1, ChosenSteps, Zenon
      <3>2. Chosen(<<>>, ct) = <<>>
        BY <2>1, <3>1 DEF ChosenBy
      <3> QED BY <3>2, Zenon DEF Within, ct
    <2>3. f[0] = <<>> /\ g[0] = <<>>
      BY <1>2, <1>4 DEF ChosenBy
    <2> QED BY <1>1, <2>2, <2>3
  <1>6. \A n \in 1..K : n - 1 \in T => n \in T
    <2> TAKE n \in 1..K
    <2> HAVE n - 1 \in T
    <2>1. n - 1 \in 0..K /\ n \in 0..K /\ f[n - 1] \in Seq(S) /\ s[n] \in S
      BY <1>1, <1>2
    <2>2. Within(f[n - 1], X) = g[n - 1]
      OBVIOUS
    <2>3. /\ s[n] \in X => Within(Append(f[n - 1], s[n]), X) = Append(Within(f[n - 1], X), s[n])
          /\ s[n] \notin X => Within(Append(f[n - 1], s[n]), X) = Within(f[n - 1], X)
      BY <1>0, <2>1, Zenon
    <2>4. /\ f[n] = IF n \in at THEN Append(f[n - 1], s[n]) ELSE f[n - 1]
          /\ g[n] = IF n \in bt THEN Append(g[n - 1], s[n]) ELSE g[n - 1]
      BY <1>2, <1>4 DEF ChosenBy
    <2>5. Within(f[n], X) = g[n]
      BY <1>3, <2>2, <2>3, <2>4
    <2> QED BY <2>1, <2>5
  <1> HIDE DEF T
  <1>7. K \in T
    BY <1>1, <1>5, <1>6, Climb
  <1>8. Within(Chosen(s, at), X) = Chosen(s, bt)
    BY <1>2, <1>4, <1>7 DEF T
  <1>9. K \in 0..K
    BY <1>1
  <1> QED BY <1>2, <1>8, <1>9 DEF Within, bt

(* Nothing is chosen after the last one.                                    *)
LEMMA ChosenTail ==
    ASSUME NEW S, NEW u \in Seq(S), NEW f, NEW at, ChosenBy(f, u, at), NEW K \in Nat, K <= Len(u),
           \A n \in (K + 1)..Len(u) : n \notin at
    PROVE  f[Len(u)] = f[K]
  <1> DEFINE T == { n \in 0..Len(u) : n > K => f[n] = f[K] }
  <1>1. Len(u) \in Nat
    BY LenProperties
  <1>2. 0 \in T
    BY <1>1
  <1>3. \A n \in 1..Len(u) : n - 1 \in T => n \in T
    <2> TAKE n \in 1..Len(u)
    <2> HAVE n - 1 \in T
    <2>1. f[n] = IF n \in at THEN Append(f[n - 1], u[n]) ELSE f[n - 1]
      BY DEF ChosenBy
    <2>2. n > K => n \notin at /\ (n - 1 > K \/ n - 1 = K)
      BY <1>1
    <2> QED BY <1>1, <2>1, <2>2
  <1> HIDE DEF T
  <1>4. \A n \in 0..Len(u) : n \in T
    BY <1>1, <1>2, <1>3, Climb, Zenon
  <1>5. Len(u) \in T
    BY <1>1, <1>4
  <1> QED BY <1>1, <1>5 DEF T

(* A sequence that goes on with nothing of a set.                           *)
LEMMA WithinStart ==
    ASSUME NEW S, NEW s \in Seq(S), NEW u \in Seq(S), Len(s) <= Len(u), NEW X,
           \A n \in 1..Len(s) : u[n] = s[n],
           \A n \in (Len(s) + 1)..Len(u) : u[n] \notin X
    PROVE  Within(u, X) = Within(s, X)
  <1> DEFINE at == { i \in DOMAIN s : s[i] \in X }
             bt == { i \in DOMAIN u : u[i] \in X }
             K == Len(s)
  <1>1. K \in Nat /\ Len(u) \in Nat /\ DOMAIN s = 1..K /\ DOMAIN u = 1..Len(u)
    BY LenProperties
  <1>2. \A n \in 1..K : (n \in at <=> n \in bt) /\ (n \in at => s[n] = u[n])
    BY <1>1
  <1>3. \A n \in (K + 1)..Len(u) : n \notin bt
    BY <1>1
  <1> HIDE DEF at, bt
  <1>4. PICK f : ChosenBy(f, s, at) /\ Chosen(s, at) = f[K]
    BY ChosenSteps
  <1>5. PICK g : ChosenBy(g, u, bt) /\ Chosen(u, bt) = g[Len(u)]
    BY ChosenSteps
  <1>6. f[K] = g[K]
    <2>1. K <= Len(s) /\ K <= Len(u)
      BY <1>1
    <2> QED BY <1>1, <1>2, <1>4, <1>5, <2>1, SameChoice
  <1>7. g[Len(u)] = g[K]
    BY <1>1, <1>3, <1>5, ChosenTail
  <1> QED BY <1>4, <1>5, <1>6, <1>7 DEF Within, at, bt

(* The first that is chosen.                                                *)
LEMMA ChosenFirst ==
    ASSUME NEW S, NEW s \in Seq(S), NEW at, at \subseteq DOMAIN s
    PROVE  /\ at = {} => Chosen(s, at) = <<>>
           /\ \A m \in at : (\A i \in at : m <= i) => Chosen(s, at) # <<>> /\ Chosen(s, at)[1] = s[m]
  <1> DEFINE K == Len(s)
  <1>1. K \in Nat /\ DOMAIN s = 1..K /\ \A n \in 1..K : s[n] \in S
    BY LenProperties
  <1>2. PICK f : f \in [0..K -> Seq(S)] /\ ChosenBy(f, s, at) /\ Chosen(s, at) = f[K]
    BY ChosenSteps
  <1>3. /\ f[0] = <<>>
        /\ \A n \in 1..K : f[n] = IF n \in at THEN Append(f[n - 1], s[n]) ELSE f[n - 1]
    BY <1>2 DEF ChosenBy
  <1>4. at = {} => f[K] = f[0]
    <2>1. 0 <= K /\ (at = {} => \A n \in (0 + 1)..K : n \notin at)
      BY <1>1
    <2> QED BY <1>2, <2>1, ChosenTail
  <1>5. ASSUME NEW m \in at, \A i \in at : m <= i
        PROVE  f[K] # <<>> /\ f[K][1] = s[m]
    <2> DEFINE T == { n \in 0..K : IF n < m THEN f[n] = <<>> ELSE Len(f[n]) > 0 /\ f[n][1] = s[m] }
    <2>1. m \in 1..K
      BY <1>1
    <2>2. 0 \in T
      BY <1>1, <1>3, <2>1
    <2>3. \A n \in 1..K : n - 1 \in T => n \in T
      <3> TAKE n \in 1..K
      <3> HAVE n - 1 \in T
      <3>1. n - 1 \in 0..K /\ n \in 0..K /\ f[n - 1] \in Seq(S) /\ s[n] \in S
        BY <1>1, <1>2
      <3>2. /\ Len(f[n - 1]) \in Nat /\ Len(Append(f[n - 1], s[n])) = Len(f[n - 1]) + 1
            /\ \A i \in 1..Len(f[n - 1]) : Append(f[n - 1], s[n])[i] = f[n - 1][i]
            /\ Append(f[n - 1], s[n])[Len(f[n - 1]) + 1] = s[n]
        BY <3>1, AppendProperties, LenProperties
      <3>3. CASE n < m
        <4>1. n \notin at /\ n - 1 < m
          BY <1>1, <1>5, <3>3
        <4> QED BY <1>3, <3>1, <3>3, <4>1
      <3>4. CASE n = m
        <4>1. n \in at /\ n - 1 < m /\ ~(n < m)
          BY <1>1, <3>4
        <4>2. f[n - 1] = <<>> /\ f[n] = Append(f[n - 1], s[n])
          BY <1>3, <4>1
        <4>3. Len(f[n - 1]) = 0
          BY <4>2
        <4>4. Len(f[n]) = 1 /\ f[n][1] = s[n]
          BY <3>2, <4>2, <4>3
        <4> QED BY <3>1, <3>4, <4>1, <4>4
      <3>5. CASE n > m
        <4>1. ~(n < m) /\ ~(n - 1 < m)
          BY <1>1, <2>1, <3>5
        <4>2. Len(f[n - 1]) > 0 /\ f[n - 1][1] = s[m] /\ 1 \in 1..Len(f[n - 1])
          BY <3>2, <4>1
        <4>3. f[n] = Append(f[n - 1], s[n]) \/ f[n] = f[n - 1]
          BY <1>3
        <4>4. Append(f[n - 1], s[n])[1] = f[n - 1][1]
          BY <3>2, <4>2
        <4>5. Len(Append(f[n - 1], s[n])) > 0
          BY <3>2
        <4>6. Len(f[n]) > 0 /\ f[n][1] = s[m]
          BY <4>2, <4>3, <4>4, <4>5, Zenon
        <4> QED BY <3>1, <4>1, <4>6
      <3> QED BY <2>1, <3>3, <3>4, <3>5
    <2> HIDE DEF T
    <2>4. \A n \in 0..K : n \in T
      BY <1>1, <2>2, <2>3, Climb, Zenon
    <2>5. K \in T /\ ~(K < m)
      BY <1>1, <2>1, <2>4
    <2>6. Len(f[K]) > 0 /\ f[K][1] = s[m]
      BY <2>5 DEF T
    <2> QED BY <2>6
  <1> QED BY <1>2, <1>3, <1>4, <1>5

(* What is of a type, and the first of it.                                  *)
LEMMA OfTypeWithin ==
    ASSUME NEW U, NEW s \in Seq(U), NEW t
    PROVE  OfType(s, t) = Within(s, { p \in U : p.type = t })
  <1>1. \A i \in DOMAIN s : s[i] \in U
    BY ElementOfSeq, LenProperties
  <1>2. { i \in DOMAIN s : IsType(s[i], t) } = { i \in DOMAIN s : s[i] \in { p \in U : p.type = t } }
    BY <1>1 DEF IsType
  <1> QED BY <1>2, Zenon DEF OfType, Within

(* The first object of a type is the first of those of that type.           *)
LEMMA FirstOfType ==
    ASSUME NEW U, NEW s \in Seq(U), NEW t
    PROVE  /\ Has(s, t) <=> OfType(s, t) # <<>>
           /\ Has(s, t) => /\ First(s, t) = OfType(s, t)[1]
                           /\ First(s, t) \in U /\ First(s, t).type = t
           /\ ~Has(s, t) => First(s, t) = None
  <1> DEFINE at == { i \in DOMAIN s : IsType(s[i], t) }
  <1>1. DOMAIN s = 1..Len(s) /\ Len(s) \in Nat /\ \A i \in DOMAIN s : s[i] \in U
    BY ElementOfSeq, LenProperties
  <1>2. at \subseteq Nat /\ at \subseteq DOMAIN s
    BY <1>1
  <1>3. Has(s, t) <=> at # {}
    BY DEF Has
  <1>4. First(s, t) = IF Has(s, t) THEN s[Min(at)] ELSE None
    BY Zenon DEF First
  <1>5. OfType(s, t) = Chosen(s, at)
    BY Zenon DEF OfType
  <1>6. \A i \in at : i \in DOMAIN s /\ s[i].type = t
    BY DEF IsType
  <1> HIDE DEF at
  <1>7. at # {} => Min(at) \in at /\ \A i \in at : Min(at) <= i
    BY <1>2, LeastOf
  <1>8. at = {} => OfType(s, t) = <<>>
    BY <1>2, <1>5, ChosenFirst
  <1>9. at # {} => OfType(s, t) # <<>> /\ OfType(s, t)[1] = s[Min(at)]
    BY <1>2, <1>5, <1>7, ChosenFirst
  <1> QED BY <1>1, <1>3, <1>4, <1>6, <1>7, <1>8, <1>9

-------------------------------------------------------------------------------
(* Lists of typed objects *)

(* What has a type, and lists that agree but for the objects of some types. *)
Objects(U) == \A p \in U : "type" \in DOMAIN p
Frame(b, r, T) == \A t : t \notin T => OfType(r, t) = OfType(b, t)

(* A list of typed objects, over its own elements or any larger set of      *)
(* such.                                                                    *)
LEMMA TypedList ==
    ASSUME NEW s
    PROVE  /\ AllTyped(s) => s \in Seq(ToSet(s)) /\ Objects(ToSet(s))
           /\ \A U : s \in Seq(U) /\ Objects(U) => AllTyped(s)
  <1>1. AllTyped(s) => s \in Seq(ToSet(s)) /\ Objects(ToSet(s))
    BY DEF AllTyped, Objects, ToSet
  <1>2. ASSUME NEW U, s \in Seq(U), Objects(U)
        PROVE  AllTyped(s)
    <2>1. \A i \in DOMAIN s : s[i] \in U
      BY <1>2, ElementOfSeq, LenProperties
    <2>2. s \in Seq(ToSet(s))
      BY <1>2, ListOf DEF IsList
    <2> QED BY <1>2, <2>1, <2>2 DEF AllTyped, Objects
  <1> QED BY <1>1, <1>2

(* Objects replaced by objects of the same types ...                        *)
LEMMA FrameMap ==
    ASSUME NEW U, NEW b \in Seq(U), NEW r \in Seq(U), Len(r) = Len(b), NEW T,
           \A n \in 1..Len(b) : r[n] = b[n] \/ (b[n].type \in T /\ r[n].type \in T)
    PROVE  Frame(b, r, T)
  <1> SUFFICES ASSUME NEW t, t \notin T
               PROVE  OfType(r, t) = OfType(b, t)
    BY DEF Frame
  <1> DEFINE X == { p \in U : p.type = t }
  <1>1. \A n \in 1..Len(b) : b[n] \in U /\ r[n] \in U
    BY ElementOfSeq
  <1>2. \A n \in 1..Len(b) : (b[n] \in X <=> r[n] \in X) /\ (b[n] \in X => b[n] = r[n])
    BY <1>1
  <1>3. OfType(b, t) = Within(b, X) /\ OfType(r, t) = Within(r, X)
    BY OfTypeWithin
  <1> HIDE DEF X
  <1>4. Within(b, X) = Within(r, X)
    BY <1>2, WithinSame
  <1> QED BY <1>3, <1>4

(* ... put at the end ...                                                   *)
LEMMA FrameMore ==
    ASSUME NEW U, NEW b \in Seq(U), NEW r \in Seq(U), Len(b) <= Len(r), NEW T,
           \A n \in 1..Len(b) : r[n] = b[n],
           \A n \in (Len(b) + 1)..Len(r) : r[n].type \in T
    PROVE  Frame(b, r, T)
  <1> SUFFICES ASSUME NEW t, t \notin T
               PROVE  OfType(r, t) = OfType(b, t)
    BY DEF Frame
  <1> DEFINE X == { p \in U : p.type = t }
  <1>1. \A n \in (Len(b) + 1)..Len(r) : r[n] \notin X
    OBVIOUS
  <1>2. OfType(b, t) = Within(b, X) /\ OfType(r, t) = Within(r, X)
    BY OfTypeWithin
  <1> HIDE DEF X
  <1>3. Within(r, X) = Within(b, X)
    BY <1>1, WithinStart
  <1> QED BY <1>2, <1>3

(* ... or left out.                                                         *)
LEMMA FrameLess ==
    ASSUME NEW U, NEW b \in Seq(U), NEW at, NEW T,
           \A n \in DOMAIN b : b[n].type \in T \/ n \in at
    PROVE  Chosen(b, at) \in Seq(U) /\ Frame(b, Chosen(b, at), T)
  <1>0. Chosen(b, at) \in Seq(U)
    <2> DEFINE X == {}
    <2>1. \A i \in DOMAIN b : b[i] \in X => i \in at
      OBVIOUS
    <2> HIDE DEF X
    <2> QED BY <2>1, WithinChosen
  <1> SUFFICES ASSUME NEW t, t \notin T
               PROVE  OfType(Chosen(b, at), t) = OfType(b, t)
    BY <1>0 DEF Frame
  <1> DEFINE X == { p \in U : p.type = t }
  <1>1. \A i \in DOMAIN b : b[i] \in X => i \in at
    OBVIOUS
  <1>2. OfType(b, t) = Within(b, X) /\ OfType(Chosen(b, at), t) = Within(Chosen(b, at), X)
    BY <1>0, OfTypeWithin
  <1> HIDE DEF X
  <1>3. Within(Chosen(b, at), X) = Within(b, X)
    BY <1>1, WithinChosen
  <1> QED BY <1>2, <1>3

(* The fields of one object over those of another.                          *)
LEMMA OverFacts ==
    ASSUME NEW f, NEW g, "type" \in DOMAIN g, "type" \in DOMAIN f => f.type = g.type
    PROVE  /\ "type" \in DOMAIN Over(f, g) /\ Over(f, g).type = g.type
           /\ \A x : x \notin DOMAIN f => /\ x \in DOMAIN Over(f, g) <=> x \in DOMAIN g
                                          /\ x \in DOMAIN g => Over(f, g)[x] = g[x]
  BY DEF Over

(* An object at the end.                                                    *)
LEMMA AppendFrame ==
    ASSUME NEW b, AllTyped(b), NEW T, NEW object, "type" \in DOMAIN object, object.type \in T
    PROVE  AllTyped(Append(b, object)) /\ Frame(b, Append(b, object), T)
  <1> DEFINE U == ToSet(b) \cup {object}
             r == Append(b, object)
  <1>1. b \in Seq(ToSet(b)) /\ Objects(ToSet(b))
    BY TypedList
  <1>2. Objects(U)
    BY <1>1 DEF Objects
  <1>3. b \in Seq(U) /\ object \in U
    BY <1>1, SeqOver
  <1> HIDE DEF U
  <1>4. /\ r \in Seq(U) /\ Len(b) \in Nat /\ Len(r) = Len(b) + 1
        /\ \A n \in 1..Len(b) : r[n] = b[n]
        /\ r[Len(b) + 1] = object
    BY <1>3, AppendProperties, LenProperties
  <1>5. Len(b) <= Len(r) /\ \A n \in (Len(b) + 1)..Len(r) : r[n].type \in T
    BY <1>4
  <1>6. AllTyped(r)
    BY <1>2, <1>4, TypedList
  <1> QED BY <1>3, <1>4, <1>5, <1>6, FrameMore

(* { ...object, ...fields } for the objects of a type: only those fields of *)
(* the first one are new.                                                   *)
LEMMA AssignFrame ==
    ASSUME NEW b, AllTyped(b), NEW t, NEW fields, "type" \in DOMAIN fields => fields.type = t
    PROVE  /\ AllTyped(Assign(b, t, fields)) /\ Frame(b, Assign(b, t, fields), {t})
           /\ \A f : f \notin DOMAIN fields /\ f # "type" =>
                 \A default : Setting(Assign(b, t, fields), t, f, default) = Setting(b, t, f, default)
  <1> DEFINE r == Assign(b, t, fields)
             fresh == Over(fields, [type |-> t])
             New(p) == IF IsType(p, t) THEN Over(fields, p) ELSE p
             U == ToSet(b) \cup { New(p) : p \in ToSet(b) } \cup {fresh}
  <1>1. b \in Seq(ToSet(b)) /\ Objects(ToSet(b))
    BY TypedList
  <1>2. "type" \in DOMAIN fresh /\ fresh.type = t
    <2>1. "type" \in DOMAIN [type |-> t] /\ [type |-> t].type = t
      OBVIOUS
    <2> QED BY <2>1, OverFacts
  <1>3. \A p \in ToSet(b) : "type" \in DOMAIN New(p) /\ New(p).type = p.type
    BY <1>1, OverFacts DEF Objects, IsType
  <1>4. Objects(U)
    BY <1>1, <1>2, <1>3 DEF Objects
  <1>5. b \in Seq(U)
    BY <1>1, SeqOver
  <1>6. /\ Len(b) \in Nat /\ DOMAIN b = 1..Len(b)
        /\ \A n \in 1..Len(b) : b[n] \in ToSet(b) /\ b[n] \in U /\ New(b[n]) \in U
    <2>1. \A n \in DOMAIN b : b[n] \in ToSet(b)
      BY DEF ToSet
    <2> QED BY <1>1, <2>1, LenProperties
  <1>7. CASE Has(b, t)
    <2>1. r = [n \in 1..Len(b) |-> New(b[n])]
      BY <1>6, <1>7 DEF Assign
    <2> HIDE DEF New, U, r
    <2>2. r \in Seq(U) /\ Len(r) = Len(b) /\ DOMAIN r = 1..Len(b)
      BY <1>6, <2>1, Enlisted
    <2>3. \A n \in 1..Len(b) : r[n] = New(b[n]) /\ r[n].type = b[n].type
      BY <1>3, <1>6, <2>1
    <2>4. \A n \in 1..Len(b) : r[n] = b[n] \/ (b[n].type \in {t} /\ r[n].type \in {t})
      BY <2>3 DEF New, IsType
    <2>5. Frame(b, r, {t})
      BY <1>5, <2>2, <2>4, FrameMap
    <2>6. { n \in DOMAIN r : IsType(r[n], t) } = { n \in DOMAIN b : IsType(b[n], t) }
      BY <1>6, <2>2, <2>3 DEF IsType
    <2> DEFINE m == Min({ n \in DOMAIN b : IsType(b[n], t) })
    <2>7. m \in DOMAIN b /\ IsType(b[m], t)
      <3>1. { n \in DOMAIN b : IsType(b[n], t) } \subseteq Nat
        BY <1>6
      <3>2. { n \in DOMAIN b : IsType(b[n], t) } # {}
        BY <1>7 DEF Has
      <3> QED BY <3>1, <3>2, LeastOf
    <2>8. Has(r, t)
      BY <2>6, <2>7 DEF Has
    <2>9. First(b, t) = b[m] /\ First(r, t) = r[m]
      BY <1>7, <2>6, <2>8, Zenon DEF First
    <2> HIDE DEF m
    <2>10. First(r, t) = Over(fields, First(b, t)) /\ "type" \in DOMAIN First(b, t)
      BY <1>1, <1>6, <2>3, <2>7, <2>9 DEF New, Objects
    <2>11. ASSUME NEW f, f \notin DOMAIN fields, NEW default
           PROVE  Setting(r, t, f, default) = Setting(b, t, f, default)
      <3>1. /\ f \in DOMAIN First(r, t) <=> f \in DOMAIN First(b, t)
            /\ f \in DOMAIN First(b, t) => First(r, t)[f] = First(b, t)[f]
        <4>1. First(b, t).type = t
          BY <2>7, <2>9 DEF IsType
        <4> QED BY <2>10, <2>11, <4>1, OverFacts
      <3> QED BY <1>7, <2>8, <3>1 DEF Setting, Field
    <2>12. AllTyped(r)
      BY <1>4, <2>2, TypedList
    <2> QED BY <2>5, <2>11, <2>12 DEF r
  <1>8. CASE ~Has(b, t)
    <2>1. r = Append(b, fresh)
      BY <1>8 DEF Assign
    <2> HIDE DEF fresh
    <2>2. AllTyped(r) /\ Frame(b, r, {t})
      BY <1>2, <2>1, AppendFrame
    <2>3. fresh \in U
      OBVIOUS
    <2>4. /\ DOMAIN r = 1..(Len(b) + 1)
          /\ \A n \in 1..Len(b) : r[n] = b[n]
          /\ r[Len(b) + 1] = fresh
      <3> HIDE DEF U
      <3> QED BY <1>5, <2>1, <2>3, AppendProperties, LenProperties
    <2>5. { n \in DOMAIN r : IsType(r[n], t) } = {Len(b) + 1}
      BY <1>2, <1>6, <1>8, <2>4 DEF Has, IsType
    <2>6. Min({Len(b) + 1}) = Len(b) + 1
      <3>1. {Len(b) + 1} \subseteq Nat /\ {Len(b) + 1} # {}
        BY <1>6
      <3> QED BY <3>1, LeastOf
    <2>7. Has(r, t)
      BY <2>5 DEF Has
    <2>8. First(r, t) = fresh
      BY <2>4, <2>5, <2>6, <2>7 DEF First
    <2>9. ASSUME NEW f, f \notin DOMAIN fields, f # "type", NEW default
          PROVE  Setting(r, t, f, default) = Setting(b, t, f, default)
      <3>1. "type" \in DOMAIN [type |-> t] /\ f \notin DOMAIN [type |-> t]
        BY <2>9
      <3>2. f \notin DOMAIN First(r, t)
        BY <2>8, <2>9, <3>1, OverFacts DEF fresh
      <3> QED BY <1>8, <2>7, <3>2 DEF Setting, Field
    <2> QED BY <2>2, <2>9 DEF r
  <1> QED BY <1>7, <1>8

(* Two changes to objects of the same types are one.                        *)
LEMMA FrameTwice ==
    ASSUME NEW a, NEW b, NEW c, NEW T, Frame(a, b, T), Frame(b, c, T)
    PROVE  Frame(a, c, T)
  BY DEF Frame

(* The objects of some types left out.                                      *)
LEMMA WithoutFrame ==
    ASSUME NEW b, AllTyped(b), NEW T
    PROVE  AllTyped(Without(b, T)) /\ Frame(b, Without(b, T), T)
  <1> DEFINE at == { i \in DOMAIN b : b[i].type \notin T }
  <1>1. b \in Seq(ToSet(b)) /\ Objects(ToSet(b))
    BY TypedList
  <1>2. \A n \in DOMAIN b : b[n].type \in T \/ n \in at
    OBVIOUS
  <1>3. Without(b, T) = Chosen(b, at)
    BY Zenon DEF Without
  <1> HIDE DEF at
  <1>4. Chosen(b, at) \in Seq(ToSet(b)) /\ Frame(b, Chosen(b, at), T)
    BY <1>1, <1>2, FrameLess
  <1> QED BY <1>1, <1>3, <1>4, TypedList

(* The first object of a type, or a new one.                                *)
LEMMA ExistingFacts ==
    ASSUME NEW b, AllTyped(b), NEW t, NEW new, "type" \in DOMAIN new, new.type = t
    PROVE  "type" \in DOMAIN Existing(b, t, new) /\ Existing(b, t, new).type = t
  <1>1. b \in Seq(ToSet(b)) /\ Objects(ToSet(b))
    BY TypedList
  <1>2. Has(b, t) => First(b, t) \in ToSet(b) /\ First(b, t).type = t
    BY <1>1, FirstOfType
  <1> QED BY <1>1, <1>2 DEF Existing, Objects

(* Moving an object to the end of the list changes objects of its type      *)
(* only.                                                                    *)
LEMMA MoveFrame ==
    ASSUME NEW b, AllTyped(b), NEW t, NEW object, "type" \in DOMAIN object, object.type = t
    PROVE  AllTyped(MoveToEnd(b, t, object)) /\ Frame(b, MoveToEnd(b, t, object), {t})
  <1>1. AllTyped(Without(b, {t})) /\ Frame(b, Without(b, {t}), {t})
    BY WithoutFrame
  <1>2. object.type \in {t}
    OBVIOUS
  <1>3. /\ AllTyped(Append(Without(b, {t}), object))
        /\ Frame(Without(b, {t}), Append(Without(b, {t}), object), {t})
    BY <1>1, <1>2, AppendFrame
  <1> QED BY <1>1, <1>3, FrameTwice DEF MoveToEnd

(* Two objects behind a list, as two appends.                               *)
LEMMA ConcatTwo ==
    ASSUME NEW S, NEW s \in Seq(S), NEW x \in S, NEW y \in S
    PROVE  s \o <<x, y>> = Append(Append(s, x), y)
  <1>1. <<x, y>> \in Seq(S) /\ Len(<<x, y>>) = 2
    OBVIOUS
  <1>2. /\ s \o <<x, y>> \in Seq(S) /\ Len(s \o <<x, y>>) = Len(s) + 2 /\ Len(s) \in Nat
        /\ \A i \in 1..Len(s) + 2 : (s \o <<x, y>>)[i] = IF i <= Len(s) THEN s[i] ELSE <<x, y>>[i - Len(s)]
    BY <1>1, ConcatProperties, LenProperties
  <1>3. Append(s, x) \in Seq(S) /\ Append(Append(s, x), y) \in Seq(S)
    BY AppendProperties
  <1>4. /\ Len(Append(Append(s, x), y)) = Len(s) + 2
        /\ \A i \in 1..Len(s) + 2 : Append(Append(s, x), y)[i] =
              IF i <= Len(s) THEN s[i] ELSE IF i = Len(s) + 1 THEN x ELSE y
    <2>1. /\ Len(Append(s, x)) = Len(s) + 1 /\ Append(s, x)[Len(s) + 1] = x
          /\ \A i \in 1..Len(s) : Append(s, x)[i] = s[i]
      BY AppendProperties
    <2>2. /\ Len(Append(Append(s, x), y)) = Len(Append(s, x)) + 1
          /\ Append(Append(s, x), y)[Len(Append(s, x)) + 1] = y
          /\ \A i \in 1..Len(Append(s, x)) : Append(Append(s, x), y)[i] = Append(s, x)[i]
      BY <1>3, AppendProperties
    <2> QED BY <1>2, <2>1, <2>2
  <1>5. \A i \in 1..Len(s) + 2 : (s \o <<x, y>>)[i] = Append(Append(s, x), y)[i]
    <2> TAKE i \in 1..Len(s) + 2
    <2>1. i <= Len(s) \/ i = Len(s) + 1 \/ i = Len(s) + 2
      BY <1>2
    <2>2. i - Len(s) = 1 <=> i = Len(s) + 1
      BY <1>2
    <2>3. i - Len(s) = 2 <=> i = Len(s) + 2
      BY <1>2
    <2>4. <<x, y>>[1] = x /\ <<x, y>>[2] = y
      OBVIOUS
    <2> QED BY <1>2, <1>4, <2>1, <2>2, <2>3, <2>4
  <1> QED BY <1>2, <1>3, <1>4, <1>5, SeqEqual

(* The saved feeds of either version, and nothing else.                     *)
FeedTypes == {"savedFeedsV2", "savedFeeds"}

(* Writing the saved feeds changes feed objects only.                       *)
LEMMA SavedFeedsFrame ==
    ASSUME NEW b, AllTyped(b), NEW items
    PROVE  AllTyped(WriteSavedFeeds(b, items)) /\ Frame(b, WriteSavedFeeds(b, items), FeedTypes)
  <1> DEFINE old == Existing(b, "savedFeedsV2", [type |-> "savedFeedsV2", items |-> <<>>])
             sorted == PinnedFirst(items)
             compat == SavedFeedsToUriArrays(SelectSeq(sorted, LAMBDA f : f.type \in {"feed", "list"}))
             v2 == [old EXCEPT !.items = sorted]
             first == First(b, "savedFeeds")
             v1 == [first EXCEPT !.saved = Distinct(@ \o compat.saved),
                                 !.pinned = Distinct(@ \o compat.pinned)]
             rest == Without(b, FeedTypes)
  <1>1. WriteSavedFeeds(b, items) = IF Has(b, "savedFeeds") THEN rest \o <<v2, v1>>
                                    ELSE MoveToEnd(b, "savedFeedsV2", v2)
    BY Zenon DEF WriteSavedFeeds, FeedTypes
  <1>2. "type" \in DOMAIN v2 /\ v2.type = "savedFeedsV2"
    <2>1. "type" \in DOMAIN [type |-> "savedFeedsV2", items |-> <<>>]
      OBVIOUS
    <2>2. "type" \in DOMAIN old /\ old.type = "savedFeedsV2"
      BY <2>1, ExistingFacts
    <2> HIDE DEF old, sorted
    <2> QED BY <2>2
  <1>3. Has(b, "savedFeeds") => "type" \in DOMAIN v1 /\ v1.type = "savedFeeds"
    <2>1. b \in Seq(ToSet(b)) /\ Objects(ToSet(b))
      BY TypedList
    <2>2. Has(b, "savedFeeds") => first \in ToSet(b) /\ first.type = "savedFeeds"
      BY <2>1, FirstOfType
    <2>3. Has(b, "savedFeeds") => "type" \in DOMAIN first /\ first.type = "savedFeeds"
      BY <2>1, <2>2 DEF Objects
    <2> HIDE DEF first, compat
    <2> QED BY <2>3
  <1> HIDE DEF v1, v2, rest
  <1>4. CASE Has(b, "savedFeeds")
    <2>1. AllTyped(rest) /\ Frame(b, rest, FeedTypes)
      BY WithoutFrame DEF rest
    <2>2. v2.type \in FeedTypes /\ v1.type \in FeedTypes
      BY <1>2, <1>3, <1>4 DEF FeedTypes
    <2>3. AllTyped(Append(rest, v2)) /\ Frame(rest, Append(rest, v2), FeedTypes)
      BY <1>2, <2>1, <2>2, AppendFrame
    <2>4. /\ AllTyped(Append(Append(rest, v2), v1))
          /\ Frame(Append(rest, v2), Append(Append(rest, v2), v1), FeedTypes)
      BY <1>3, <1>4, <2>2, <2>3, AppendFrame
    <2>5. rest \o <<v2, v1>> = Append(Append(rest, v2), v1)
      <3> DEFINE U == ToSet(rest) \cup {v1, v2}
      <3>1. rest \in Seq(ToSet(rest)) /\ ToSet(rest) \subseteq U /\ v1 \in U /\ v2 \in U
        BY <2>1, TypedList
      <3> HIDE DEF U
      <3>2. rest \in Seq(U)
        BY <3>1, SeqOver
      <3> QED BY <3>1, <3>2, ConcatTwo
    <2> QED BY <1>1, <1>4, <2>1, <2>3, <2>4, <2>5, FrameTwice, Zenon
  <1>5. CASE ~Has(b, "savedFeeds")
    <2>1. /\ AllTyped(MoveToEnd(b, "savedFeedsV2", v2))
          /\ Frame(b, MoveToEnd(b, "savedFeedsV2", v2), {"savedFeedsV2"})
      BY <1>2, MoveFrame
    <2>2. Frame(b, MoveToEnd(b, "savedFeedsV2", v2), FeedTypes)
      BY <2>1 DEF Frame, FeedTypes
    <2> QED BY <1>1, <1>5, <2>1, <2>2
  <1> QED BY <1>4, <1>5

(* The views of one feed, and nothing else.                                 *)
LEMMA FeedViewFrame ==
    ASSUME NEW b, AllTyped(b), NEW feed, NEW updates, "type" \notin DOMAIN updates
    PROVE  /\ AllTyped(SetFeedViewPrefs(b, feed, updates))
           /\ Frame(b, SetFeedViewPrefs(b, feed, updates), {"feedView"})
  <1> DEFINE mine == { i \in DOMAIN b : IsType(b[i], "feedView") /\ b[i].feed = feed }
             old == IF mine = {} THEN [type |-> "feedView", feed |-> feed] ELSE b[Min(mine)]
             updated == Over(updates, old)
             r == SetFeedViewPrefs(b, feed, updates)
             U == ToSet(b) \cup {updated}
  <1>1. b \in Seq(ToSet(b)) /\ Objects(ToSet(b))
    BY TypedList
  <1>2. Len(b) \in Nat /\ DOMAIN b = 1..Len(b) /\ \A n \in DOMAIN b : b[n] \in ToSet(b)
    BY <1>1, LenProperties DEF ToSet
  <1>3. r = IF mine = {} THEN Append(b, updated)
            ELSE [i \in DOMAIN b |-> IF i \in mine THEN updated ELSE b[i]]
    BY Zenon DEF SetFeedViewPrefs
  <1>4. \A i \in mine : i \in DOMAIN b /\ b[i].type = "feedView"
    BY DEF IsType
  <1>5. "type" \in DOMAIN old /\ old.type = "feedView"
    <2>1. CASE mine = {}
      BY <2>1
    <2>2. CASE mine # {}
      <3>1. mine \subseteq Nat
        BY <1>2
      <3> DEFINE m == Min(mine)
      <3> HIDE DEF mine
      <3>2. m \in mine
        BY <2>2, <3>1, LeastOf
      <3>3. old = b[m]
        BY <2>2
      <3> HIDE DEF m, old
      <3> QED BY <1>1, <1>2, <1>4, <3>2, <3>3 DEF Objects
    <2> QED BY <2>1, <2>2
  <1> HIDE DEF old
  <1>6. "type" \in DOMAIN updated /\ updated.type = "feedView"
    BY <1>5, OverFacts
  <1> HIDE DEF updated, mine, r
  <1>7. CASE mine = {}
    <2>1. updated.type \in {"feedView"}
      BY <1>6
    <2> QED BY <1>3, <1>6, <1>7, <2>1, AppendFrame DEF r
  <1>8. CASE mine # {}
    <2>1. Objects(U)
      BY <1>1, <1>6 DEF Objects
    <2>2. b \in Seq(U)
      BY <1>1, SeqOver
    <2>3. r = [i \in 1..Len(b) |-> IF i \in mine THEN updated ELSE b[i]]
      BY <1>2, <1>3, <1>8
    <2>4. \A i \in 1..Len(b) : (IF i \in mine THEN updated ELSE b[i]) \in U
      BY <1>2
    <2> HIDE DEF U
    <2>5. r \in [1..Len(b) -> U]
      BY <2>3, <2>4
    <2>6. r \in Seq(U) /\ Len(r) = Len(b)
      <3>1. r \in Seq(U)
        BY <1>2, <2>5, Enlisted
      <3>2. DOMAIN r = 1..Len(b)
        BY <2>5
      <3> QED BY <1>2, <3>1, <3>2, LenProperties
    <2>7. \A n \in 1..Len(b) : r[n] = b[n] \/ (b[n].type \in {"feedView"} /\ r[n].type \in {"feedView"})
      BY <1>4, <1>6, <2>3
    <2> QED BY <2>1, <2>2, <2>6, <2>7, FrameMap, TypedList DEF r
  <1> QED BY <1>7, <1>8

(* The settings of labels for one labeler, and nothing else.                *)
LEMMA LabelPrefsWithin ==
    ASSUME NEW U, NEW s \in Seq(U), NEW did
    PROVE  LabelPrefs(s, did) = Within(s, { p \in U : p.type = "contentLabel" /\ p.labelerDid = did })
  <1> DEFINE X == { p \in U : p.type = "contentLabel" /\ p.labelerDid = did }
  <1>1. \A i \in DOMAIN s : s[i] \in U
    BY ElementOfSeq, LenProperties
  <1>2. { i \in DOMAIN s : IsType(s[i], "contentLabel") /\ s[i].labelerDid = did }
           = { i \in DOMAIN s : s[i] \in X }
    BY <1>1 DEF IsType
  <1> QED BY <1>2, Zenon DEF LabelPrefs, Within

(* Putting a label setting changes those of the one labeler only.           *)
LEMMA PutLabelFrame ==
    ASSUME NEW b, AllTyped(b), NEW keys, keys \in Seq(ToSet(keys)), NEW value, NEW did
    PROVE  /\ AllTyped(PutLabel(b, keys, value, did))
           /\ Frame(b, PutLabel(b, keys, value, did), {"contentLabel"})
           /\ \A other : other # did =>
                 LabelPrefs(PutLabel(b, keys, value, did), other) = LabelPrefs(b, other)
  <1> DEFINE at == { i \in DOMAIN b : ~(/\ IsType(b[i], "contentLabel")
                                        /\ Contains(keys, b[i].label) /\ b[i].labelerDid = did) }
             Pref(k) == [type |-> "contentLabel", label |-> keys[k], labelerDid |-> did, visibility |-> value]
             new == [k \in DOMAIN keys |-> Pref(k)]
             mid == Chosen(b, at)
             r == mid \o new
             U == ToSet(b) \cup { Pref(k) : k \in DOMAIN keys }
  <1>1. PutLabel(b, keys, value, did) = r
    BY Zenon DEF PutLabel
  <1>2. b \in Seq(ToSet(b)) /\ Objects(ToSet(b))
    BY TypedList
  <1>3. \A n \in DOMAIN b :
           n \in at \/ (b[n].type = "contentLabel" /\ b[n].labelerDid = did)
    BY DEF IsType
  <1>4. /\ Len(keys) \in Nat
        /\ new = [k \in 1..Len(keys) |-> Pref(k)]
        /\ \A k \in 1..Len(keys) : Pref(k) \in U
    <2>1. Len(keys) \in Nat /\ DOMAIN keys = 1..Len(keys)
      BY LenProperties
    <2> QED BY <2>1
  <1>5. \A k : /\ "type" \in DOMAIN Pref(k) /\ Pref(k).type = "contentLabel"
               /\ Pref(k).labelerDid = did
    OBVIOUS
  <1>6. Objects(U)
    BY <1>2, <1>5 DEF Objects
  <1>7. b \in Seq(U)
    BY <1>2, SeqOver
  <1> HIDE DEF U, at, Pref
  <1>8. new \in [1..Len(keys) -> U] /\ \A k \in 1..Len(keys) : new[k] = Pref(k)
    BY <1>4
  <1>9. new \in Seq(U) /\ Len(new) = Len(keys)
    <2>1. new \in Seq(U)
      BY <1>4, <1>8, Enlisted
    <2>2. DOMAIN new = 1..Len(keys)
      BY <1>8
    <2> QED BY <1>4, <2>1, <2>2, LenProperties
  <1>10. mid \in Seq(U) /\ Frame(b, mid, {"contentLabel"})
    <2>1. \A n \in DOMAIN b : b[n].type \in {"contentLabel"} \/ n \in at
      BY <1>3
    <2> QED BY <1>7, <2>1, FrameLess
  <1> HIDE DEF new, mid
  <1>11. /\ r \in Seq(U) /\ Len(mid) \in Nat /\ Len(r) = Len(mid) + Len(keys)
         /\ \A n \in 1..Len(mid) : r[n] = mid[n]
         /\ \A n \in (Len(mid) + 1)..Len(r) :
               r[n].type = "contentLabel" /\ r[n].labelerDid = did
    <2>1. Len(mid) \in Nat
      BY <1>10, LenProperties
    <2>2. /\ r \in Seq(U) /\ Len(r) = Len(mid) + Len(keys)
          /\ \A n \in 1..Len(mid) + Len(keys) :
                r[n] = IF n <= Len(mid) THEN mid[n] ELSE new[n - Len(mid)]
      BY <1>9, <1>10, ConcatProperties
    <2> HIDE DEF r
    <2>3. \A n \in 1..Len(mid) : r[n] = mid[n]
      BY <1>4, <2>1, <2>2
    <2>4. ASSUME NEW n \in (Len(mid) + 1)..Len(r)
          PROVE  r[n].type = "contentLabel" /\ r[n].labelerDid = did
      <3>1. n - Len(mid) \in 1..Len(keys) /\ n \in 1..Len(mid) + Len(keys) /\ ~(n <= Len(mid))
        BY <1>4, <2>1, <2>2
      <3>2. r[n] = Pref(n - Len(mid))
        BY <1>8, <2>2, <3>1
      <3> QED BY <1>5, <3>2
    <2> QED BY <2>1, <2>2, <2>3, <2>4
  <1>12. Len(mid) <= Len(r)
    BY <1>4, <1>11
  <1> HIDE DEF r
  <1>13. Frame(b, r, {"contentLabel"})
    <2>1. \A n \in (Len(mid) + 1)..Len(r) : r[n].type \in {"contentLabel"}
      BY <1>11
    <2>2. Frame(mid, r, {"contentLabel"})
      BY <1>10, <1>11, <1>12, <2>1, FrameMore
    <2> QED BY <1>10, <2>2, FrameTwice
  <1>14. ASSUME NEW other, other # did
         PROVE  LabelPrefs(r, other) = LabelPrefs(b, other)
    <2> DEFINE X == { p \in U : p.type = "contentLabel" /\ p.labelerDid = other }
    <2>1. \A i \in DOMAIN b : b[i] \in X => i \in at
      BY <1>3, <1>14
    <2>2. \A n \in (Len(mid) + 1)..Len(r) : r[n] \notin X
      BY <1>11, <1>14
    <2>3. LabelPrefs(r, other) = Within(r, X) /\ LabelPrefs(b, other) = Within(b, X)
      BY <1>7, <1>11, LabelPrefsWithin
    <2> HIDE DEF X
    <2>4. Within(r, X) = Within(mid, X)
      BY <1>10, <1>11, <1>12, <2>2, WithinStart
    <2>5. Within(mid, X) = Within(b, X)
      BY <1>7, <2>1, WithinChosen DEF mid
    <2> QED BY <2>3, <2>4, <2>5
  <1> QED BY <1>1, <1>6, <1>11, <1>13, <1>14, TypedList

-------------------------------------------------------------------------------
(* What getPreferences makes of a list *)

(* What is read of a type depends on its objects only.                      *)
LEMMA SameSetting ==
    ASSUME NEW b, NEW r, AllTyped(b), AllTyped(r), NEW t, OfType(r, t) = OfType(b, t)
    PROVE  /\ Has(r, t) <=> Has(b, t)
           /\ First(r, t) = First(b, t)
           /\ \A f, default : Setting(r, t, f, default) = Setting(b, t, f, default)
  <1>1. b \in Seq(ToSet(b)) /\ r \in Seq(ToSet(r))
    BY TypedList
  <1>2. Has(r, t) <=> Has(b, t)
    BY <1>1, FirstOfType
  <1>3. First(r, t) = First(b, t)
    BY <1>1, <1>2, FirstOfType
  <1> QED BY <1>2, <1>3 DEF Setting

(* A label setting is read from the label objects.                          *)
LEMMA SameLabels ==
    ASSUME NEW b, NEW r, AllTyped(b), AllTyped(r), OfType(r, "contentLabel") = OfType(b, "contentLabel")
    PROVE  \A did : LabelPrefs(r, did) = LabelPrefs(b, did)
  <1> TAKE did
  <1> DEFINE U == ToSet(b) \cup ToSet(r)
             X == { p \in U : p.type = "contentLabel" /\ p.labelerDid = did }
             At(s) == { i \in DOMAIN s : IsType(s[i], "contentLabel") }
  <1>1. b \in Seq(U) /\ r \in Seq(U)
    BY TypedList, SeqOver
  <1>2. \A s : OfType(s, "contentLabel") = Chosen(s, At(s))
    BY Zenon DEF OfType
  <1>3. \A s \in Seq(U) : Within(OfType(s, "contentLabel"), X) = Within(s, X)
    <2> TAKE s \in Seq(U)
    <2>1. \A i \in DOMAIN s : s[i] \in X => i \in At(s)
      BY DEF IsType
    <2> HIDE DEF X, At
    <2>2. Within(Chosen(s, At(s)), X) = Within(s, X)
      BY <2>1, WithinChosen
    <2> QED BY <1>2, <2>2
  <1>4. LabelPrefs(b, did) = Within(b, X) /\ LabelPrefs(r, did) = Within(r, X)
    BY <1>1, LabelPrefsWithin
  <1> HIDE DEF X, U
  <1> QED BY <1>1, <1>3, <1>4

(* The type each field is read from.                                        *)
Home == [feeds |-> "savedFeeds", savedFeeds |-> "savedFeedsV2", feedViewPrefs |-> "feedView",
         threadViewPrefs |-> "threadView", adultContentEnabled |-> "adultContent",
         labels |-> "contentLabel", labelers |-> "labelers", mutedWords |-> "mutedWords",
         hiddenPosts |-> "hiddenPosts", birthDate |-> "personalDetails", declaredAge |-> "declaredAge",
         interests |-> "interests", queuedNudges |-> "bskyAppState",
         activeProgressGuide |-> "bskyAppState", nuxs |-> "bskyAppState", isBetaUser |-> "bskyAppState",
         threadgateAllowRules |-> "postInteractionSettings",
         postgateEmbeddingRules |-> "postInteractionSettings", hideBadges |-> "verification",
         hiddenFeedIds |-> "liveEvent", hideAllFeeds |-> "liveEvent"]

(* Where each field of the preferences object is read from.                 *)
LEMMA ObjectIs ==
    ASSUME NEW b
    PROVE  /\ DOMAIN Object(b) = DOMAIN Home
           /\ Object(b).feeds = [saved  |-> Setting(b, "savedFeeds", "saved", None),
                                 pinned |-> Setting(b, "savedFeeds", "pinned", None)]
           /\ Object(b).savedFeeds = Setting(b, "savedFeedsV2", "items", <<>>)
           /\ Object(b).feedViewPrefs = FeedViews(OfType(b, "feedView"))
           /\ Object(b).threadViewPrefs = ThreadViewOf(b)
           /\ Object(b).adultContentEnabled = Setting(b, "adultContent", "enabled", FALSE)
           /\ Object(b).labels = GlobalLabels(LabelPrefs(b, None))
           /\ Object(b).labelers = LabelersOf(b)
           /\ Object(b).mutedWords = MutedWordsOf(b)
           /\ Object(b).hiddenPosts = Setting(b, "hiddenPosts", "posts", <<>>)
           /\ Object(b).birthDate = Setting(b, "personalDetails", "birthDate", None)
           /\ Object(b).declaredAge = First(b, "declaredAge")
           /\ Object(b).interests = [tags |-> Setting(b, "interests", "tags", <<>>),
                                     updatedAt |-> Setting(b, "interests", "updatedAt", None)]
           /\ Object(b).queuedNudges = Setting(b, "bskyAppState", "queuedNudges", <<>>)
           /\ Object(b).activeProgressGuide = Setting(b, "bskyAppState", "activeProgressGuide", None)
           /\ Object(b).nuxs = Setting(b, "bskyAppState", "nuxs", <<>>)
           /\ Object(b).isBetaUser = Setting(b, "bskyAppState", "isBetaUser", None)
           /\ Object(b).threadgateAllowRules =
                 Setting(b, "postInteractionSettings", "threadgateAllowRules", None)
           /\ Object(b).postgateEmbeddingRules =
                 Setting(b, "postInteractionSettings", "postgateEmbeddingRules", None)
           /\ Object(b).hideBadges = Setting(b, "verification", "hideBadges", FALSE)
           /\ Object(b).hiddenFeedIds = Setting(b, "liveEvent", "hiddenFeedIds", <<>>)
           /\ Object(b).hideAllFeeds = Setting(b, "liveEvent", "hideAllFeeds", FALSE)
  BY DEF Object, Interpret, Home, V2Items, FeedViewsOf, LabelsOf

(* A field is what it was when nothing of its type has changed; the labels  *)
(* when none for everyone has, the labelers when none for a labeler has.    *)
SameBehind(b, r, f) ==
    CASE f = "labels"   -> LabelPrefs(r, None) = LabelPrefs(b, None)
      [] f = "labelers" -> /\ OfType(r, "labelers") = OfType(b, "labelers")
                           /\ \A did : did # None => LabelPrefs(r, did) = LabelPrefs(b, did)
      [] OTHER          -> OfType(r, Home[f]) = OfType(b, Home[f])

(* A field is as it was when the objects behind it are.                     *)
LEMMA FieldKept ==
    ASSUME NEW b, NEW r, AllTyped(b), AllTyped(r), NEW f \in DOMAIN Home, SameBehind(b, r, f)
    PROVE  Object(r)[f] = Object(b)[f]
  <1>1. f \notin {"labels", "labelers"} => OfType(r, Home[f]) = OfType(b, Home[f])
    BY DEF SameBehind
  <1>3. CASE f = "labels"
    BY <1>3, ObjectIs DEF SameBehind
  <1>4. CASE f = "labelers"
    <2>1. Setting(r, "labelers", "labelers", <<>>) = Setting(b, "labelers", "labelers", <<>>)
      BY <1>4, SameSetting DEF SameBehind
    <2>2. \A did : did # None => LabelPrefs(r, did) = LabelPrefs(b, did)
      BY <1>4 DEF SameBehind
    <2>3. LabelersOf(r) = LabelersOf(b)
      BY <2>1, <2>2 DEF LabelersOf
    <2> QED BY <1>4, <2>3, ObjectIs
  <1>5. CASE f = "feedViewPrefs"
    BY <1>1, <1>5, ObjectIs DEF Home
  <1>6. CASE f = "threadViewPrefs"
    <2>1. OfType(r, "threadView") = OfType(b, "threadView")
      BY <1>1, <1>6 DEF Home
    <2>2. ThreadViewOf(r) = ThreadViewOf(b)
      BY <2>1, SameSetting DEF ThreadViewOf
    <2> QED BY <1>6, <2>2, ObjectIs
  <1>7. CASE f = "mutedWords"
    <2>1. OfType(r, "mutedWords") = OfType(b, "mutedWords")
      BY <1>1, <1>7 DEF Home
    <2>2. MutedWordItems(r) = MutedWordItems(b)
      BY <2>1, SameSetting DEF MutedWordItems
    <2>3. MutedWordsOf(r) = MutedWordsOf(b)
      BY <2>2 DEF MutedWordsOf
    <2> QED BY <1>7, <2>3, ObjectIs
  <1>8. CASE f = "declaredAge"
    <2>1. OfType(r, "declaredAge") = OfType(b, "declaredAge")
      BY <1>1, <1>8 DEF Home
    <2>2. First(r, "declaredAge") = First(b, "declaredAge")
      BY <2>1, SameSetting
    <2> QED BY <1>8, <2>2, ObjectIs
  <1>9. CASE f = "feeds"
    <2>1. OfType(r, "savedFeeds") = OfType(b, "savedFeeds")
      BY <1>1, <1>9 DEF Home
    <2>2. /\ Setting(r, "savedFeeds", "saved", None) = Setting(b, "savedFeeds", "saved", None)
          /\ Setting(r, "savedFeeds", "pinned", None) = Setting(b, "savedFeeds", "pinned", None)
      BY <2>1, SameSetting
    <2> QED BY <1>9, <2>2, ObjectIs
  <1>10. CASE f = "savedFeeds"
    <2>1. OfType(r, "savedFeedsV2") = OfType(b, "savedFeedsV2")
      BY <1>1, <1>10 DEF Home
    <2>2. Setting(r, "savedFeedsV2", "items", <<>>) = Setting(b, "savedFeedsV2", "items", <<>>)
      BY <2>1, SameSetting
    <2> QED BY <1>10, <2>2, ObjectIs
  <1>11. CASE f = "adultContentEnabled"
    <2>1. OfType(r, "adultContent") = OfType(b, "adultContent")
      BY <1>1, <1>11 DEF Home
    <2>2. Setting(r, "adultContent", "enabled", FALSE) = Setting(b, "adultContent", "enabled", FALSE)
      BY <2>1, SameSetting DEF Setting
    <2> QED BY <1>11, <2>2, ObjectIs
  <1>12. CASE f = "hiddenPosts"
    <2>1. OfType(r, "hiddenPosts") = OfType(b, "hiddenPosts")
      BY <1>1, <1>12 DEF Home
    <2>2. Setting(r, "hiddenPosts", "posts", <<>>) = Setting(b, "hiddenPosts", "posts", <<>>)
      BY <2>1, SameSetting
    <2> QED BY <1>12, <2>2, ObjectIs
  <1>13. CASE f = "birthDate"
    <2>1. OfType(r, "personalDetails") = OfType(b, "personalDetails")
      BY <1>1, <1>13 DEF Home
    <2>2. Setting(r, "personalDetails", "birthDate", None) = Setting(b, "personalDetails", "birthDate", None)
      BY <2>1, SameSetting
    <2> QED BY <1>13, <2>2, ObjectIs
  <1>14. CASE f = "interests"
    <2>1. OfType(r, "interests") = OfType(b, "interests")
      BY <1>1, <1>14 DEF Home
    <2>2. /\ Setting(r, "interests", "tags", <<>>) = Setting(b, "interests", "tags", <<>>)
          /\ Setting(r, "interests", "updatedAt", None) = Setting(b, "interests", "updatedAt", None)
      BY <2>1, SameSetting
    <2> QED BY <1>14, <2>2, ObjectIs
  <1>15. CASE f = "queuedNudges"
    <2>1. OfType(r, "bskyAppState") = OfType(b, "bskyAppState")
      BY <1>1, <1>15 DEF Home
    <2>2. Setting(r, "bskyAppState", "queuedNudges", <<>>) = Setting(b, "bskyAppState", "queuedNudges", <<>>)
      BY <2>1, SameSetting
    <2> QED BY <1>15, <2>2, ObjectIs
  <1>16. CASE f = "activeProgressGuide"
    <2>1. OfType(r, "bskyAppState") = OfType(b, "bskyAppState")
      BY <1>1, <1>16 DEF Home
    <2>2. Setting(r, "bskyAppState", "activeProgressGuide", None) = Setting(b, "bskyAppState", "activeProgressGuide", None)
      BY <2>1, SameSetting
    <2> QED BY <1>16, <2>2, ObjectIs
  <1>17. CASE f = "nuxs"
    <2>1. OfType(r, "bskyAppState") = OfType(b, "bskyAppState")
      BY <1>1, <1>17 DEF Home
    <2>2. Setting(r, "bskyAppState", "nuxs", <<>>) = Setting(b, "bskyAppState", "nuxs", <<>>)
      BY <2>1, SameSetting
    <2> QED BY <1>17, <2>2, ObjectIs
  <1>18. CASE f = "isBetaUser"
    <2>1. OfType(r, "bskyAppState") = OfType(b, "bskyAppState")
      BY <1>1, <1>18 DEF Home
    <2>2. Setting(r, "bskyAppState", "isBetaUser", None) = Setting(b, "bskyAppState", "isBetaUser", None)
      BY <2>1, SameSetting
    <2> QED BY <1>18, <2>2, ObjectIs
  <1>19. CASE f = "threadgateAllowRules"
    <2>1. OfType(r, "postInteractionSettings") = OfType(b, "postInteractionSettings")
      BY <1>1, <1>19 DEF Home
    <2>2. Setting(r, "postInteractionSettings", "threadgateAllowRules", None) = Setting(b, "postInteractionSettings", "threadgateAllowRules", None)
      BY <2>1, SameSetting
    <2> QED BY <1>19, <2>2, ObjectIs
  <1>20. CASE f = "postgateEmbeddingRules"
    <2>1. OfType(r, "postInteractionSettings") = OfType(b, "postInteractionSettings")
      BY <1>1, <1>20 DEF Home
    <2>2. Setting(r, "postInteractionSettings", "postgateEmbeddingRules", None) = Setting(b, "postInteractionSettings", "postgateEmbeddingRules", None)
      BY <2>1, SameSetting
    <2> QED BY <1>20, <2>2, ObjectIs
  <1>21. CASE f = "hideBadges"
    <2>1. OfType(r, "verification") = OfType(b, "verification")
      BY <1>1, <1>21 DEF Home
    <2>2. Setting(r, "verification", "hideBadges", FALSE) = Setting(b, "verification", "hideBadges", FALSE)
      BY <2>1, SameSetting DEF Setting
    <2> QED BY <1>21, <2>2, ObjectIs
  <1>22. CASE f = "hiddenFeedIds"
    <2>1. OfType(r, "liveEvent") = OfType(b, "liveEvent")
      BY <1>1, <1>22 DEF Home
    <2>2. Setting(r, "liveEvent", "hiddenFeedIds", <<>>) = Setting(b, "liveEvent", "hiddenFeedIds", <<>>)
      BY <2>1, SameSetting
    <2> QED BY <1>22, <2>2, ObjectIs
  <1>23. CASE f = "hideAllFeeds"
    <2>1. OfType(r, "liveEvent") = OfType(b, "liveEvent")
      BY <1>1, <1>23 DEF Home
    <2>2. Setting(r, "liveEvent", "hideAllFeeds", FALSE) = Setting(b, "liveEvent", "hideAllFeeds", FALSE)
      BY <2>1, SameSetting DEF Setting
    <2> QED BY <1>23, <2>2, ObjectIs
  <1> QED BY <1>3, <1>4, <1>5, <1>6, <1>7, <1>8, <1>9, <1>10, <1>11, <1>12, <1>13, <1>14, <1>15, <1>16, <1>17, <1>18, <1>19, <1>20, <1>21, <1>22, <1>23 DEF Home

-------------------------------------------------------------------------------
(* What each action leaves alone *)

Left(b, r, P) == \A f \in DOMAIN Home : f \notin P => Object(r)[f] = Object(b)[f]

(* A change to objects of some types leaves the fields read from other      *)
(* types.                                                                   *)
LEMMA FrameLeaves ==
    ASSUME NEW b, NEW r, AllTyped(b), AllTyped(r), NEW T, Frame(b, r, T), "contentLabel" \notin T,
           NEW P, \A f \in DOMAIN Home : Home[f] \in T => f \in P
    PROVE  Left(b, r, P)
  <1> SUFFICES ASSUME NEW f \in DOMAIN Home, f \notin P
               PROVE  SameBehind(b, r, f)
    BY FieldKept DEF Left
  <1>1. OfType(r, Home[f]) = OfType(b, Home[f])
    BY DEF Frame
  <1>2. \A did : LabelPrefs(r, did) = LabelPrefs(b, did)
    BY SameLabels DEF Frame
  <1>3. f = "labelers" => OfType(r, "labelers") = OfType(b, "labelers")
    BY <1>1 DEF Home
  <1> QED BY <1>1, <1>2, <1>3 DEF SameBehind

(* Assigning to the object of a type leaves the other fields,               *)
LEMMA AssignLeaves ==
    ASSUME NEW b, AllTyped(b), NEW t, NEW fields, "type" \in DOMAIN fields => fields.type = t,
           t # "contentLabel", NEW P, \A f \in DOMAIN Home : Home[f] = t => f \in P
    PROVE  AllTyped(Assign(b, t, fields)) /\ Left(b, Assign(b, t, fields), P)
  <1>1. AllTyped(Assign(b, t, fields)) /\ Frame(b, Assign(b, t, fields), {t})
    BY AssignFrame
  <1>2. "contentLabel" \notin {t} /\ \A f \in DOMAIN Home : Home[f] \in {t} => f \in P
    OBVIOUS
  <1> QED BY <1>1, <1>2, FrameLeaves

(* moving it to the end does,                                               *)
LEMMA MoveLeaves ==
    ASSUME NEW b, AllTyped(b), NEW t, NEW object, "type" \in DOMAIN object, object.type = t,
           t # "contentLabel", NEW P, \A f \in DOMAIN Home : Home[f] = t => f \in P
    PROVE  AllTyped(MoveToEnd(b, t, object)) /\ Left(b, MoveToEnd(b, t, object), P)
  <1>1. AllTyped(MoveToEnd(b, t, object)) /\ Frame(b, MoveToEnd(b, t, object), {t})
    BY MoveFrame
  <1>2. "contentLabel" \notin {t} /\ \A f \in DOMAIN Home : Home[f] \in {t} => f \in P
    OBVIOUS
  <1> QED BY <1>1, <1>2, FrameLeaves

(* The state of the app has several fields, and an action writes one.       *)
LEMMA StateLeaves ==
    ASSUME NEW b, AllTyped(b), NEW fields, NEW x, DOMAIN fields = {x}, x # "type"
    PROVE  /\ AllTyped(Assign(b, "bskyAppState", fields))
           /\ Left(b, Assign(b, "bskyAppState", fields), {x})
  <1> DEFINE r == Assign(b, "bskyAppState", fields)
             state == {"queuedNudges", "activeProgressGuide", "nuxs", "isBetaUser"}
  <1>1. /\ AllTyped(r) /\ Frame(b, r, {"bskyAppState"})
        /\ \A f : f \notin DOMAIN fields /\ f # "type" =>
              \A default : Setting(r, "bskyAppState", f, default) = Setting(b, "bskyAppState", f, default)
    BY AssignFrame
  <1> HIDE DEF r
  <1>2. Left(b, r, state)
    <2>1. "contentLabel" \notin {"bskyAppState"} /\ \A f \in DOMAIN Home : Home[f] \in {"bskyAppState"} => f \in state
      BY DEF Home
    <2> HIDE DEF state
    <2> QED BY <1>1, <2>1, FrameLeaves
  <1>3. x # "queuedNudges" => Object(r).queuedNudges = Object(b).queuedNudges
    <2>1. x # "queuedNudges" => Setting(r, "bskyAppState", "queuedNudges", <<>>) = Setting(b, "bskyAppState", "queuedNudges", <<>>)
      BY <1>1
    <2> QED BY <2>1, ObjectIs
  <1>4. x # "activeProgressGuide" => Object(r).activeProgressGuide = Object(b).activeProgressGuide
    <2>1. x # "activeProgressGuide" => Setting(r, "bskyAppState", "activeProgressGuide", None) = Setting(b, "bskyAppState", "activeProgressGuide", None)
      BY <1>1
    <2> QED BY <2>1, ObjectIs
  <1>5. x # "nuxs" => Object(r).nuxs = Object(b).nuxs
    <2>1. x # "nuxs" => Setting(r, "bskyAppState", "nuxs", <<>>) = Setting(b, "bskyAppState", "nuxs", <<>>)
      BY <1>1
    <2> QED BY <2>1, ObjectIs
  <1>6. x # "isBetaUser" => Object(r).isBetaUser = Object(b).isBetaUser
    <2>1. x # "isBetaUser" => Setting(r, "bskyAppState", "isBetaUser", None) = Setting(b, "bskyAppState", "isBetaUser", None)
      BY <1>1
    <2> QED BY <2>1, ObjectIs
  <1>7. Left(b, r, {x})
    BY <1>2, <1>3, <1>4, <1>5, <1>6 DEF Left
  <1> QED BY <1>1, <1>7 DEF r

(* A label set for everyone leaves the labelers', one of a labeler's those  *)
(* for everyone.                                                            *)
LEMMA LabelLeaves ==
    ASSUME NEW b, AllTyped(b), NEW key, NEW value, NEW did
    PROVE  /\ AllTyped(SetContentLabelPref(b, key, value, did))
           /\ Left(b, SetContentLabelPref(b, key, value, did), IF did = None THEN {"labels"} ELSE {"labelers"})
  <1> DEFINE keys == IF did = None /\ key \in DOMAIN LABEL_REMAP_REVERSE
                     THEN <<key, LABEL_REMAP_REVERSE[key]>> ELSE <<key>>
             r == PutLabel(b, keys, value, did)
  <1>1. SetContentLabelPref(b, key, value, did) = r
    BY Zenon DEF SetContentLabelPref
  <1>2. keys \in Seq(ToSet(keys))
    <2>1. \A x, y : <<x, y>> \in Seq({x, y}) /\ <<x>> \in Seq({x})
      OBVIOUS
    <2>2. \E S : keys \in Seq(S)
      BY <2>1
    <2> HIDE DEF keys
    <2> QED BY <2>2, ListOf DEF IsList
  <1> HIDE DEF keys
  <1>3. /\ AllTyped(r) /\ Frame(b, r, {"contentLabel"})
        /\ \A other : other # did => LabelPrefs(r, other) = LabelPrefs(b, other)
    BY <1>2, PutLabelFrame
  <1> HIDE DEF r
  <1>4. ASSUME NEW f \in DOMAIN Home, f \notin IF did = None THEN {"labels"} ELSE {"labelers"}
        PROVE  SameBehind(b, r, f)
    <2>1. CASE f = "labels"
      <3>1. did # None
        BY <1>4, <2>1
      <3> QED BY <1>3, <2>1, <3>1 DEF SameBehind
    <2>2. CASE f = "labelers"
      <3>1. did = None
        BY <1>4, <2>2
      <3>2. OfType(r, "labelers") = OfType(b, "labelers")
        BY <1>3 DEF Frame
      <3> QED BY <1>3, <2>2, <3>1, <3>2 DEF SameBehind
    <2>3. CASE f \notin {"labels", "labelers"}
      <3>1. Home[f] # "contentLabel"
        BY <2>3 DEF Home
      <3>2. OfType(r, Home[f]) = OfType(b, Home[f])
        BY <1>3, <3>1 DEF Frame
      <3> QED BY <2>3, <3>2 DEF SameBehind
    <2> QED BY <2>1, <2>2, <2>3
  <1>5. Left(b, r, IF did = None THEN {"labels"} ELSE {"labelers"})
    BY <1>3, <1>4, FieldKept DEF Left
  <1> QED BY <1>1, <1>3, <1>5

(* writing the saved feeds leaves all but the feeds,                        *)
LEMMA FeedsLeave ==
    ASSUME NEW b, AllTyped(b), NEW items
    PROVE  AllTyped(WriteSavedFeeds(b, items)) /\ Left(b, WriteSavedFeeds(b, items), {"savedFeeds", "feeds"})
  <1>1. AllTyped(WriteSavedFeeds(b, items)) /\ Frame(b, WriteSavedFeeds(b, items), FeedTypes)
    BY SavedFeedsFrame
  <1>2. "contentLabel" \notin FeedTypes /\ \A f \in DOMAIN Home : Home[f] \in FeedTypes => f \in {"savedFeeds", "feeds"}
    BY DEF Home, FeedTypes
  <1> QED BY <1>1, <1>2, FrameLeaves

(* writing the muted words leaves all but those words,                      *)
LEMMA WordsLeave ==
    ASSUME NEW b, AllTyped(b), NEW items, NEW fresh
    PROVE  /\ AllTyped(WriteMutedWords(b, items, fresh))
           /\ Left(b, WriteMutedWords(b, items, fresh), {"mutedWords"})
  <1> DEFINE old == Existing(b, "mutedWords", [type |-> "mutedWords", items |-> <<>>])
             migrated == MigrateLegacyMutedWordsItems(items, fresh)
             new == [old EXCEPT !.items = migrated]
  <1>1. WriteMutedWords(b, items, fresh) = MoveToEnd(b, "mutedWords", new)
    BY Zenon DEF WriteMutedWords
  <1>2. "type" \in DOMAIN old /\ old.type = "mutedWords"
    <2>1. "type" \in DOMAIN [type |-> "mutedWords", items |-> <<>>]
      OBVIOUS
    <2> QED BY <2>1, ExistingFacts
  <1> HIDE DEF old, migrated
  <1>3. "type" \in DOMAIN new /\ new.type = "mutedWords"
    BY <1>2
  <1>4. \A f \in DOMAIN Home : Home[f] = "mutedWords" => f \in {"mutedWords"}
    BY DEF Home
  <1> HIDE DEF new
  <1> QED BY <1>1, <1>3, <1>4, MoveLeaves

(* and what is not changed is left.                                         *)
LEMMA NothingLeaves ==
    ASSUME NEW b, NEW P
    PROVE  Left(b, b, P)
  BY DEF Left

(* Each action leaves everything but its own part.                          *)
LEMMA ApplyLeaves ==
    ASSUME NEW op, PrefsCall(op), NEW b, AllTyped(b), NEW fresh, NEW now, Apply(op, b, fresh, now) # None
    PROVE  AllTyped(Apply(op, b, fresh, now)) /\ Left(b, Apply(op, b, fresh, now), Part(op))
  <1> DEFINE r == Apply(op, b, fresh, now)
  <1> SUFFICES AllTyped(r) /\ Left(b, r, Part(op))
    OBVIOUS
  <1> HIDE DEF r
  <1>1. CASE op.call = "addSavedFeeds"
    <2>1. r = AddSavedFeeds(b, op.feeds) /\ Part(op) = {"savedFeeds", "feeds"}
      BY <1>1 DEF Apply, Part, r
    <2>2. \E items : r = WriteSavedFeeds(b, items)
      BY <2>1, Zenon DEF AddSavedFeeds
    <2> QED BY <2>1, <2>2, FeedsLeave
  <1>2. CASE op.call = "removeSavedFeeds"
    <2>1. r = RemoveSavedFeeds(b, op.ids) /\ Part(op) = {"savedFeeds", "feeds"}
      BY <1>2 DEF Apply, Part, r
    <2>2. \E items : r = WriteSavedFeeds(b, items)
      BY <2>1, Zenon DEF RemoveSavedFeeds
    <2> QED BY <2>1, <2>2, FeedsLeave
  <1>3. CASE op.call = "updateSavedFeeds"
    <2>1. r = UpdateSavedFeeds(b, op.feeds) /\ Part(op) = {"savedFeeds", "feeds"}
      BY <1>3 DEF Apply, Part, r
    <2>2. \E items : r = WriteSavedFeeds(b, items)
      BY <2>1, Zenon DEF UpdateSavedFeeds
    <2> QED BY <2>1, <2>2, FeedsLeave
  <1>4. CASE op.call = "overwriteSavedFeeds"
    <2>1. r = OverwriteSavedFeeds(b, op.feeds) /\ Part(op) = {"savedFeeds", "feeds"}
      BY <1>4 DEF Apply, Part, r
    <2>2. \E items : r = WriteSavedFeeds(b, items)
      BY <2>1, Zenon DEF OverwriteSavedFeeds
    <2> QED BY <2>1, <2>2, FeedsLeave
  <1>5. CASE op.call = "addPinnedFeed"
    <2>1. r = AddPinnedFeed(b, op.uri) /\ Part(op) = {"feeds"}
      BY <1>5 DEF Apply, Part, r
    <2>2. \E x, y : r = Assign(b, "savedFeeds", [saved |-> x, pinned |-> y])
      BY <2>1, Zenon DEF AddPinnedFeed
    <2>3. \A f \in DOMAIN Home : Home[f] = "savedFeeds" => f \in {"feeds"}
      BY DEF Home
    <2> QED BY <2>1, <2>2, <2>3, AssignLeaves
  <1>6. CASE op.call = "removePinnedFeed"
    <2>1. r = RemovePinnedFeed(b, op.uri) /\ Part(op) = {"feeds"}
      BY <1>6 DEF Apply, Part, r
    <2>2. r # None => \E x : r = Assign(b, "savedFeeds", [pinned |-> x])
      BY <2>1, Zenon DEF RemovePinnedFeed
    <2>4. r # None
      BY DEF r
    <2>3. \A f \in DOMAIN Home : Home[f] = "savedFeeds" => f \in {"feeds"}
      BY DEF Home
    <2> QED BY <2>1, <2>2, <2>3, <2>4, AssignLeaves
  <1>7. CASE op.call = "setAdultContentEnabled"
    <2>1. r = SetAdultContentEnabled(b, op.enabled) /\ Part(op) = {"adultContentEnabled"}
      BY <1>7 DEF Apply, Part, r
    <2>2. \E x : r = Assign(b, "adultContent", [enabled |-> x])
      BY <2>1, Zenon DEF SetAdultContentEnabled
    <2>3. \A f \in DOMAIN Home : Home[f] = "adultContent" => f \in {"adultContentEnabled"}
      BY DEF Home
    <2> QED BY <2>1, <2>2, <2>3, AssignLeaves
  <1>8. CASE op.call = "setContentLabelPref"
    <2>1. r = SetContentLabelPref(b, op.key, op.value, op.did) /\ Part(op) = IF op.did = None THEN {"labels"} ELSE {"labelers"}
      BY <1>8 DEF Apply, Part, r
    <2> QED BY <2>1, LabelLeaves
  <1>9. CASE op.call = "setFeedViewPrefs"
    <2>1. r = SetFeedViewPrefs(b, op.feed, op.updates) /\ Part(op) = {"feedViewPrefs"}
      BY <1>9 DEF Apply, Part, r
    <2>2. "type" \notin DOMAIN op.updates
      BY <1>9 DEF PrefsCall
    <2>3. \A f \in DOMAIN Home : Home[f] = "feedView" => f \in {"feedViewPrefs"}
      BY DEF Home
    <2>4. AllTyped(r) /\ Frame(b, r, {"feedView"})
      BY <2>1, <2>2, FeedViewFrame
    <2>5. "contentLabel" \notin {"feedView"} /\ \A f \in DOMAIN Home : Home[f] \in {"feedView"} => f \in {"feedViewPrefs"}
      BY <2>3
    <2> QED BY <2>1, <2>4, <2>5, FrameLeaves
  <1>10. CASE op.call = "setThreadViewPrefs"
    <2>1. r = SetThreadViewPrefs(b, op.updates) /\ Part(op) = {"threadViewPrefs"}
      BY <1>10 DEF Apply, Part, r
    <2> DEFINE fields == IF Has(b, "threadView") THEN Over(op.updates, First(b, "threadView")) ELSE op.updates
    <2>2. r = Assign(b, "threadView", fields)
      BY <2>1, Zenon DEF SetThreadViewPrefs
    <2>3. \A f \in DOMAIN Home : Home[f] = "threadView" => f \in {"threadViewPrefs"}
      BY DEF Home
    <2>4. "type" \notin DOMAIN op.updates
      BY <1>10 DEF PrefsCall
    <2>5. Has(b, "threadView") => /\ "type" \in DOMAIN First(b, "threadView")
                                  /\ First(b, "threadView").type = "threadView"
      <3>1. b \in Seq(ToSet(b)) /\ Objects(ToSet(b))
        BY TypedList
      <3> QED BY <3>1, FirstOfType DEF Objects
    <2>6. "type" \in DOMAIN fields => fields.type = "threadView"
      BY <2>4, <2>5, OverFacts
    <2> HIDE DEF fields
    <2> QED BY <2>1, <2>2, <2>3, <2>6, AssignLeaves
  <1>11. CASE op.call = "setPersonalDetails"
    <2>1. r = SetPersonalDetails(b, op.birthDate) /\ Part(op) = {"birthDate"}
      BY <1>11 DEF Apply, Part, r
    <2>2. \E x : r = Assign(b, "personalDetails", [birthDate |-> x])
      BY <2>1, Zenon DEF SetPersonalDetails
    <2>3. \A f \in DOMAIN Home : Home[f] = "personalDetails" => f \in {"birthDate"}
      BY DEF Home
    <2> QED BY <2>1, <2>2, <2>3, AssignLeaves
  <1>12. CASE op.call = "setInterestsPref"
    <2>1. r = SetInterestsPref(b, op.tags, now) /\ Part(op) = {"interests"}
      BY <1>12 DEF Apply, Part, r
    <2>2. r = Assign(b, "interests", [tags |-> op.tags, updatedAt |-> now])
      BY <2>1, Zenon DEF SetInterestsPref
    <2>3. \A f \in DOMAIN Home : Home[f] = "interests" => f \in {"interests"}
      BY DEF Home
    <2> QED BY <2>1, <2>2, <2>3, AssignLeaves
  <1>13. CASE op.call = "addMutedWord"
    <2>1. r = AddMutedWord(b, op.word, fresh) /\ Part(op) = {"mutedWords"}
      BY <1>13 DEF Apply, Part, r
    <2>2. \E items : r = WriteMutedWords(b, items, fresh)
      BY <2>1, Zenon DEF AddMutedWord
    <2> QED BY <2>1, <2>2, WordsLeave
  <1>14. CASE op.call = "updateMutedWord"
    <2>1. r = UpdateMutedWord(b, op.word, fresh) /\ Part(op) = {"mutedWords"}
      BY <1>14 DEF Apply, Part, r
    <2>2. r = b \/ \E items : r = WriteMutedWords(b, items, fresh)
      BY <2>1, Zenon DEF UpdateMutedWord
    <2> QED BY <2>1, <2>2, WordsLeave, NothingLeaves
  <1>15. CASE op.call = "removeMutedWord"
    <2>1. r = RemoveMutedWord(b, op.word, fresh) /\ Part(op) = {"mutedWords"}
      BY <1>15 DEF Apply, Part, r
    <2>2. r = b \/ \E items : r = WriteMutedWords(b, items, fresh)
      BY <2>1, Zenon DEF RemoveMutedWord
    <2> QED BY <2>1, <2>2, WordsLeave, NothingLeaves
  <1>16. CASE op.call = "hidePost"
    <2>1. r = HidePost(b, op.uri) /\ Part(op) = {"hiddenPosts"}
      BY <1>16 DEF Apply, Part, r
    <2>2. r # None => \E x : r = Assign(b, "hiddenPosts", [posts |-> x])
      BY <2>1, Zenon DEF HidePost
    <2>4. r # None
      BY DEF r
    <2>3. \A f \in DOMAIN Home : Home[f] = "hiddenPosts" => f \in {"hiddenPosts"}
      BY DEF Home
    <2> QED BY <2>1, <2>2, <2>3, <2>4, AssignLeaves
  <1>17. CASE op.call = "unhidePost"
    <2>1. r = UnhidePost(b, op.uri) /\ Part(op) = {"hiddenPosts"}
      BY <1>17 DEF Apply, Part, r
    <2>2. r # None => \E x : r = Assign(b, "hiddenPosts", [posts |-> x])
      BY <2>1, Zenon DEF UnhidePost
    <2>4. r # None
      BY DEF r
    <2>3. \A f \in DOMAIN Home : Home[f] = "hiddenPosts" => f \in {"hiddenPosts"}
      BY DEF Home
    <2> QED BY <2>1, <2>2, <2>3, <2>4, AssignLeaves
  <1>18. CASE op.call = "addLabeler"
    <2>1. r = AddLabeler(b, op.did) /\ Part(op) = {"labelers"}
      BY <1>18 DEF Apply, Part, r
    <2>2. r # None => \E x : r = Assign(b, "labelers", [labelers |-> x])
      BY <2>1, Zenon DEF AddLabeler
    <2>4. r # None
      BY DEF r
    <2>3. \A f \in DOMAIN Home : Home[f] = "labelers" => f \in {"labelers"}
      BY DEF Home
    <2> QED BY <2>1, <2>2, <2>3, <2>4, AssignLeaves
  <1>19. CASE op.call = "removeLabeler"
    <2>1. r = RemoveLabeler(b, op.did) /\ Part(op) = {"labelers"}
      BY <1>19 DEF Apply, Part, r
    <2>2. r # None => \E x : r = Assign(b, "labelers", [labelers |-> x])
      BY <2>1, Zenon DEF RemoveLabeler
    <2>4. r # None
      BY DEF r
    <2>3. \A f \in DOMAIN Home : Home[f] = "labelers" => f \in {"labelers"}
      BY DEF Home
    <2> QED BY <2>1, <2>2, <2>3, <2>4, AssignLeaves
  <1>20. CASE op.call = "queueNudges"
    <2>1. r = QueueNudges(b, op.nudges) /\ Part(op) = {"queuedNudges"}
      BY <1>20 DEF Apply, Part, r
    <2>2. \E x : r = Assign(b, "bskyAppState", [queuedNudges |-> x])
      BY <2>1, Zenon DEF QueueNudges
    <2> QED BY <2>1, <2>2, StateLeaves
  <1>21. CASE op.call = "dismissNudges"
    <2>1. r = DismissNudges(b, op.nudges) /\ Part(op) = {"queuedNudges"}
      BY <1>21 DEF Apply, Part, r
    <2>2. r # None => \E x : r = Assign(b, "bskyAppState", [queuedNudges |-> x])
      BY <2>1, Zenon DEF DismissNudges
    <2>4. r # None
      BY DEF r
    <2> QED BY <2>1, <2>2, <2>4, StateLeaves
  <1>22. CASE op.call = "setIsBetaUser"
    <2>1. r = SetIsBetaUser(b, op.isBetaUser) /\ Part(op) = {"isBetaUser"}
      BY <1>22 DEF Apply, Part, r
    <2>2. \E x : r = Assign(b, "bskyAppState", [isBetaUser |-> x])
      BY <2>1, Zenon DEF SetIsBetaUser
    <2> QED BY <2>1, <2>2, StateLeaves
  <1>23. CASE op.call = "setActiveProgressGuide"
    <2>1. r = SetActiveProgressGuide(b, op.guide) /\ Part(op) = {"activeProgressGuide"}
      BY <1>23 DEF Apply, Part, r
    <2>2. \E x : r = Assign(b, "bskyAppState", [activeProgressGuide |-> x])
      BY <2>1, Zenon DEF SetActiveProgressGuide
    <2> QED BY <2>1, <2>2, StateLeaves
  <1>24. CASE op.call = "upsertNux"
    <2>1. r = UpsertNux(b, op.nux) /\ Part(op) = {"nuxs"}
      BY <1>24 DEF Apply, Part, r
    <2>2. \E x : r = Assign(b, "bskyAppState", [nuxs |-> x])
      BY <2>1, Zenon DEF UpsertNux
    <2> QED BY <2>1, <2>2, StateLeaves
  <1>25. CASE op.call = "removeNuxs"
    <2>1. r = RemoveNuxs(b, op.ids) /\ Part(op) = {"nuxs"}
      BY <1>25 DEF Apply, Part, r
    <2>2. r # None => \E x : r = Assign(b, "bskyAppState", [nuxs |-> x])
      BY <2>1, Zenon DEF RemoveNuxs
    <2>4. r # None
      BY DEF r
    <2> QED BY <2>1, <2>2, <2>4, StateLeaves
  <1>26. CASE op.call = "setVerificationPrefs"
    <2>1. r = SetVerificationPrefs(b, op.updates) /\ Part(op) = {"hideBadges"}
      BY <1>26 DEF Apply, Part, r
    <2>2. r = Assign(b, "verification", op.updates) /\ "type" \notin DOMAIN op.updates
      BY <1>26, <2>1 DEF SetVerificationPrefs, PrefsCall
    <2>3. \A f \in DOMAIN Home : Home[f] = "verification" => f \in {"hideBadges"}
      BY DEF Home
    <2> QED BY <2>1, <2>2, <2>3, AssignLeaves
  <1>27. CASE op.call = "setPostInteractionSettings"
    <2>1. r = SetPostInteractionSettings(b, op.threadgate, op.postgate) /\ Part(op) = {"threadgateAllowRules", "postgateEmbeddingRules"}
      BY <1>27 DEF Apply, Part, r
    <2> DEFINE old == Existing(b, "postInteractionSettings", [type |-> "postInteractionSettings"])
    <2>2. \E x, y : r = MoveToEnd(b, "postInteractionSettings", Over([threadgateAllowRules |-> x, postgateEmbeddingRules |-> y], old))
      BY <2>1, Zenon DEF SetPostInteractionSettings
    <2>3. \A f \in DOMAIN Home : Home[f] = "postInteractionSettings" => f \in {"threadgateAllowRules", "postgateEmbeddingRules"}
      BY DEF Home
    <2>4. "type" \in DOMAIN old /\ old.type = "postInteractionSettings"
      <3>1. "type" \in DOMAIN [type |-> "postInteractionSettings"]
        OBVIOUS
      <3> QED BY <3>1, ExistingFacts
    <2> HIDE DEF old
    <2>5. \A x, y : LET new == Over([threadgateAllowRules |-> x, postgateEmbeddingRules |-> y], old)
                    IN "type" \in DOMAIN new /\ new.type = "postInteractionSettings"
      BY <2>4, OverFacts
    <2> QED BY <2>1, <2>2, <2>3, <2>5, MoveLeaves
  <1>28. CASE op.call = "updateLiveEventPreferences"
    <2>1. r = UpdateLiveEventPreferences(b, op.kind, op.id) /\ Part(op) = {"hiddenFeedIds", "hideAllFeeds"}
      BY <1>28 DEF Apply, Part, r
    <2> DEFINE old == Existing(b, "liveEvent", [type |-> "liveEvent"])
    <2>2. \E x, y : r = MoveToEnd(b, "liveEvent", Over([hiddenFeedIds |-> x, hideAllFeeds |-> y], old))
      BY <2>1, Zenon DEF UpdateLiveEventPreferences
    <2>3. \A f \in DOMAIN Home : Home[f] = "liveEvent" => f \in {"hiddenFeedIds", "hideAllFeeds"}
      BY DEF Home
    <2>4. "type" \in DOMAIN old /\ old.type = "liveEvent"
      <3>1. "type" \in DOMAIN [type |-> "liveEvent"]
        OBVIOUS
      <3> QED BY <3>1, ExistingFacts
    <2> HIDE DEF old
    <2>5. \A x, y : LET new == Over([hiddenFeedIds |-> x, hideAllFeeds |-> y], old)
                    IN "type" \in DOMAIN new /\ new.type = "liveEvent"
      BY <2>4, OverFacts
    <2> QED BY <2>1, <2>2, <2>3, <2>5, MoveLeaves
  <1> QED BY <1>1, <1>2, <1>3, <1>4, <1>5, <1>6, <1>7, <1>8, <1>9, <1>10, <1>11, <1>12, <1>13, <1>14, <1>15, <1>16, <1>17, <1>18, <1>19, <1>20, <1>21, <1>22, <1>23, <1>24, <1>25, <1>26, <1>27, <1>28 DEF PrefsCall

(* A step of a cycle: it keeps its call, and has read what was stored.      *)
LEMMA CycleStepIs ==
    ASSUME PrefsTypeOK, NEW c \in Clients, NEW j \in DOMAIN jobs[c],
           \/ CycleStep(c, j)
           \/ Fail(c, j) \/ GiveUp(c, j) \/ LandLate(c, j)
    PROVE  \E r : /\ r = [f \in JobFields |-> r[f]] /\ SetJob(c, j, r)
                  /\ r.op = jobs[c][j].op /\ r.base \in {jobs[c][j].base, stored}
                  /\ \/ r.landed = jobs[c][j].landed /\ stored' = stored
                     \/ Result(c, j) # None /\ stored' = Result(c, j)
  <1> DEFINE v == jobs[c][j]
             New(r) == /\ r = [f \in JobFields |-> r[f]] /\ SetJob(c, j, r)
                       /\ r.op = v.op /\ r.base \in {v.base, stored}
                       /\ \/ r.landed = v.landed /\ stored' = stored
                          \/ Result(c, j) # None /\ stored' = Result(c, j)
  <1>1. v = [f \in JobFields |-> v[f]]
    BY ChainFacts
  <1> SUFFICES \E r : New(r)
    OBVIOUS
  <1> HIDE DEF v
  <1>2. CASE Read(c, j)
    <2> DEFINE r == [v EXCEPT !.phase = "read", !.base = stored, !.seen = writes]
    <2>1. /\ r = [f \in JobFields |-> r[f]] /\ r.op = v.op /\ r.base = stored /\ r.landed = v.landed
      BY <1>1 DEF JobFields
    <2>2. SetJob(c, j, r) /\ stored' = stored
      BY <1>2 DEF Read, v
    <2> HIDE DEF r
    <2> QED BY <2>1, <2>2
  <1>3. CASE SkipWrite(c, j) \/ Answer(c, j)
    <2> DEFINE r == [v EXCEPT !.phase = "done"]
    <2>1. /\ r = [f \in JobFields |-> r[f]] /\ r.op = v.op /\ r.base = v.base /\ r.landed = v.landed
      BY <1>1 DEF JobFields
    <2>2. SetJob(c, j, r) /\ stored' = stored
      BY <1>3 DEF SkipWrite, Answer, v
    <2> HIDE DEF r
    <2> QED BY <2>1, <2>2
  <1>4. CASE \E phase : Land(c, j, phase)
    <2> PICK phase : Land(c, j, phase)
      BY <1>4
    <2> DEFINE r == [v EXCEPT !.phase = phase, !.landed = writes + 1]
    <2>1. /\ r = [f \in JobFields |-> r[f]] /\ r.op = v.op /\ r.base = v.base
      BY <1>1 DEF JobFields
    <2>2. SetJob(c, j, r) /\ Result(c, j) # None /\ stored' = Result(c, j)
      BY DEF Land, v
    <2> HIDE DEF r
    <2> QED BY <2>1, <2>2
  <1>5. CASE Fail(c, j) \/ GiveUp(c, j)
    <2> PICK phase : SetJob(c, j, [v EXCEPT !.phase = phase]) /\ stored' = stored
      BY <1>5 DEF Fail, GiveUp, v
    <2> DEFINE r == [v EXCEPT !.phase = phase]
    <2>1. /\ r = [f \in JobFields |-> r[f]] /\ r.op = v.op /\ r.base = v.base /\ r.landed = v.landed
      BY <1>1 DEF JobFields
    <2> HIDE DEF r
    <2>2. SetJob(c, j, r) /\ stored' = stored
      BY DEF r
    <2> QED BY <2>1, <2>2
  <1>6. CASE Cleanup(c, j)
    <2> DEFINE r == [v EXCEPT !.cleaned = TRUE]
    <2>1. /\ r = [f \in JobFields |-> r[f]] /\ r.op = v.op /\ r.base = v.base /\ r.landed = v.landed
      BY <1>1 DEF JobFields
    <2>2. SetJob(c, j, r) /\ stored' = stored
      BY <1>6 DEF Cleanup, v
    <2> HIDE DEF r
    <2> QED BY <2>1, <2>2
  <1>7. Put(c, j) \/ LandLate(c, j) => \E phase : Land(c, j, phase)
    BY Zenon DEF Put, LandLate
  <1> HIDE DEF New
  <1> QED BY <1>2, <1>3, <1>4, <1>5, <1>6, <1>7 DEF CycleStep

(* The cycles of a call do what is a call themselves.                       *)
LEMMA CyclesAreCalls ==
    ASSUME NEW op \in Calls, op.call # "getPreferences"
    PROVE  \A i \in DOMAIN CyclesOf(op) : PrefsCall(CyclesOf(op)[i])
  <1> DEFINE PerWord(call) == MapSeq(LAMBDA w : [call |-> call, word |-> w], op.words)
             NotEmpty(o) == o.call = "addMutedWord" => SanitizeMutedWordValue(o.word.value) # <<>>
             cycles == CASE op.call = "addMutedWords"    -> PerWord("addMutedWord")
                         [] op.call = "removeMutedWords" -> PerWord("removeMutedWord")
                         [] OTHER                        -> <<WithIds(op)>>
             I == {i \in DOMAIN cycles : NotEmpty(cycles[i])}
  <1>1. DOMAIN cycles \subseteq Nat /\ IsFiniteSet(DOMAIN cycles) /\ \A i \in DOMAIN cycles : PrefsCall(cycles[i])
    <2>1. CASE op.call \in {"addMutedWords", "removeMutedWords"}
      <3>1. PICK call \in {"addMutedWord", "removeMutedWord"} :
               cycles = [i \in DOMAIN op.words |-> [call |-> call, word |-> op.words[i]]]
        BY <2>1 DEF MapSeq
      <3> HIDE DEF cycles
      <3>2. \A w : PrefsCall([call |-> call, word |-> w])
        BY DEF PrefsCall
      <3>3. Len(op.words) \in Nat /\ DOMAIN op.words = 1..Len(op.words)
        BY <2>1, ScenariosAssumption, SeqFacts DEF IsList
      <3>4. IsFiniteSet(1..Len(op.words))
        <4>1. 1 \in Int /\ Len(op.words) \in Int
          BY <3>3
        <4> QED BY <4>1, FS_Interval, Zenon
      <3>5. DOMAIN cycles = 1..Len(op.words) /\ 1..Len(op.words) \subseteq Nat
        BY <3>1, <3>3
      <3>6. \A i \in DOMAIN cycles : PrefsCall(cycles[i])
        BY <3>1, <3>2
      <3> QED BY <3>4, <3>5, <3>6
    <2>2. CASE op.call \notin {"addMutedWords", "removeMutedWords"}
      <3>1. cycles = <<WithIds(op)>>
        BY <2>2
      <3> HIDE DEF cycles
      <3>2. "call" \in DOMAIN op /\ PrefsCall(op)
        BY <2>2, ScenariosAssumption
      <3>3. PrefsCall(WithIds(op))
        <4>1. CASE op.call = "addSavedFeeds"
          <5>1. WithIds(op).call = op.call
            BY <3>2, <4>1 DEF WithIds
          <5> QED BY <4>1, <5>1 DEF PrefsCall
        <4>2. CASE op.call # "addSavedFeeds"
          BY <3>2, <4>2 DEF WithIds
        <4> QED BY <4>1, <4>2
      <3>4. DOMAIN cycles = 1..1 /\ cycles[1] = WithIds(op)
        BY <3>1
      <3>5. IsFiniteSet(1..1)
        <4>1. 1 \in Int
          OBVIOUS
        <4> QED BY <4>1, FS_Interval, Zenon
      <3>6. \A i \in 1..1 : i = 1 /\ i \in Nat
        OBVIOUS
      <3> QED BY <3>3, <3>4, <3>5, <3>6
    <2> QED BY <2>1, <2>2
  <1>2. I \subseteq DOMAIN cycles /\ CyclesOf(op) = Keep(cycles, I)
    BY DEF CyclesOf
  <1> HIDE DEF I, cycles
  <1>3. Weighed(I, [i \in I |-> 0])
    <2>1. IsFiniteSet(I) /\ I \in SUBSET Nat
      BY <1>1, <1>2, FS_Subset
    <2> QED BY <2>1 DEF Weighed
  <1>4. \A n \in DOMAIN CyclesOf(op) : \E i \in I : CyclesOf(op)[n] = cycles[i]
    BY <1>2, <1>3, RankedFacts DEF Keep
  <1> QED BY <1>1, <1>2, <1>4

(* The empty list has no object without a type.                             *)
LEMMA NoObjects == AllTyped(<<>>)
  <1>1. <<>> \in Seq({}) /\ Objects({})
    BY EmptySeq DEF Objects
  <1> QED BY <1>1, TypedList

(* What is put on a chain has read nothing.                                 *)
LEMMA ChainTyped ==
    ASSUME PrefsTypeOK, ListsAreTyped, stored' = stored,
           NEW c \in Clients, NEW m \in Nat, NEW ops, ops = [i \in 1..m |-> ops[i]],
           NEW migrates, Chain(c, ops, migrates), \A i \in 1..m : PrefsCall(ops[i])
    PROVE  ListsAreTyped'
  <1> DEFINE n == Len(jobs[c])
  <1>0. /\ \A e \in Clients : e # c => jobs'[e] = jobs[e]
        /\ DOMAIN jobs'[c] = 1..(n + m)
        /\ \A i \in 1..n : jobs'[c][i] = jobs[c][i]
    BY ChainAdds, SMTT(30)
  <1>1. \A i \in 1..(n + m) : i > n =>
           i - n \in 1..m /\ jobs'[c][i].op = ops[i - n] /\ jobs'[c][i].base = <<>>
    BY ChainAdds, ZenonT(30)
  <1>2. n \in Nat /\ DOMAIN jobs[c] = 1..n
    BY ChainFacts
  <1> HIDE DEF n
  <1>3. \A i \in 1..(n + m) : i \in 1..n \/ i > n
    BY <1>2
  <1>4. \A i \in DOMAIN jobs'[c] : AllTyped(jobs'[c][i].base) /\ PrefsCall(jobs'[c][i].op)
    <2> TAKE i \in DOMAIN jobs'[c]
    <2>1. CASE i \in 1..n
      BY <1>0, <1>2, <2>1 DEF ListsAreTyped
    <2>2. CASE i > n
      BY <1>0, <1>1, <2>2, NoObjects
    <2> QED BY <1>0, <1>3, <2>1, <2>2
  <1>5. \A e \in Clients : \A i \in DOMAIN jobs'[e] : AllTyped(jobs'[e][i].base) /\ PrefsCall(jobs'[e][i].op)
    BY <1>0, <1>4 DEF ListsAreTyped
  <1>6. AllTyped(stored')
    BY DEF ListsAreTyped
  <1> QED BY <1>5, <1>6 DEF ListsAreTyped

(* What a call starts is put on its client's chain, if anything.            *)
LEMMA CallChains ==
    ASSUME PrefsTypeOK, scenario \in DOMAIN Scenarios, NEW c \in Clients, Call(c)
    PROVE  /\ UNCHANGED stored
           /\ \/ UNCHANGED jobs
              \/ \E m \in Nat : \E ops :
                    /\ ops = [i \in 1..m |-> ops[i]] /\ Chain(c, ops, FALSE)
                    /\ \A i \in 1..m : PrefsCall(ops[i])
  <1> DEFINE op == Script(c)[issued[c] + 1]
  <1>1. /\ UNCHANGED stored /\ issued[c] < Len(Script(c))
        /\ UNCHANGED jobs \/ (op.call # "getPreferences" /\ Chain(c, CyclesOf(op), FALSE))
    BY DEF Call
  <1>2. op \in Calls
    <2>1. Script(c) \in Seq(Calls)
      BY ScenariosAssumption DEF Script
    <2>2. issued[c] \in Nat /\ Len(Script(c)) \in Nat
      BY <2>1, LenProperties DEF PrefsTypeOK
    <2>3. issued[c] + 1 \in 1..Len(Script(c))
      BY <1>1, <2>2
    <2> QED BY <2>1, <2>3, LenProperties
  <1> HIDE DEF op
  <1>3. PICK m \in Nat : CyclesOf(op) = [i \in 1..m |-> CyclesOf(op)[i]]
    BY <1>2, CyclesAreFew
  <1>4. op.call # "getPreferences" => \A i \in 1..m : PrefsCall(CyclesOf(op)[i])
    <2>1. DOMAIN CyclesOf(op) = 1..m
      BY <1>3
    <2> QED BY <1>2, <2>1, CyclesAreCalls
  <1> QED BY <1>1, <1>3, <1>4

(* What a read puts on the chain is at most the migration of the saved      *)
(* feeds.                                                                   *)
LEMMA GetChains ==
    ASSUME NEW c \in Clients, NEW g \in DOMAIN gets[c], GetStep(c, g) \/ GetFails(c, g)
    PROVE  /\ UNCHANGED stored
           /\ \/ UNCHANGED jobs
              \/ \E ops : /\ ops = [i \in 1..1 |-> ops[i]] /\ Chain(c, ops, TRUE)
                          /\ \A i \in 1..1 : PrefsCall(ops[i])
  <1>1. CASE GetMigrates(c, g)
    <2> DEFINE op == [call |-> "overwriteSavedFeeds", feeds |-> MigratedFeeds(gets[c][g].base, tids)]
    <2>1. Chain(c, <<op>>, TRUE) /\ UNCHANGED stored
      BY <1>1 DEF GetMigrates
    <2>2. PrefsCall(op)
      BY DEF PrefsCall
    <2> HIDE DEF op
    <2>3. <<op>> = [i \in 1..1 |-> <<op>>[i]] /\ \A i \in 1..1 : <<op>>[i] = op
      OBVIOUS
    <2> QED BY <2>1, <2>2, <2>3
  <1>2. CASE ~ GetMigrates(c, g)
    BY <1>2 DEF GetStep, GetFails, GetRead, GetReturns, GetSettles
  <1> QED BY <1>1, <1>2

(* Every step keeps lists typed, and lands what an action made of the list  *)
(* it read.                                                                 *)
LEMMA TypedKeeps ==
    ASSUME PrefsTypeOK, ListsAreTyped, scenario \in DOMAIN Scenarios, PrefsNext
    PROVE  /\ ListsAreTyped'
           /\ \A c \in Clients : \A j \in DOMAIN jobs[c] :
                 Lands(c, j) => Result(c, j) # None /\ stored' = Result(c, j)
  <1>1. ASSUME UNCHANGED <<jobs, stored>>
        PROVE  ListsAreTyped'
    BY <1>1 DEF ListsAreTyped
  <1>2. \A c \in Clients : \A j \in DOMAIN jobs[c] :
           jobs[c][j].landed \in Nat /\ (jobs'[c][j].landed = jobs[c][j].landed => ~ Lands(c, j))
    <2> TAKE c \in Clients
    <2> TAKE j \in DOMAIN jobs[c]
    <2>1. jobs[c][j].landed \in Nat
      BY ChainFacts
    <2>2. \A a, b : a = b /\ b \in Nat => ~ (a > b)
      OBVIOUS
    <2> QED BY <2>1, <2>2 DEF Lands
  <1>3. ASSUME NEW c \in Clients, NEW m \in Nat, NEW ops, ops = [i \in 1..m |-> ops[i]],
               NEW migrates, Chain(c, ops, migrates)
        PROVE  \A e \in Clients : \A i \in DOMAIN jobs[e] : ~ Lands(e, i)
    <2>1. /\ \A e \in Clients : e # c => jobs'[e] = jobs[e]
          /\ \A i \in 1..Len(jobs[c]) : jobs'[c][i] = jobs[c][i]
      BY <1>3, ChainAdds, SMTT(30)
    <2>2. DOMAIN jobs[c] = 1..Len(jobs[c])
      BY ChainFacts
    <2>3. \A e \in Clients : \A i \in DOMAIN jobs[e] : jobs'[e][i] = jobs[e][i]
      BY <2>1, <2>2
    <2> QED BY <1>2, <2>3
  <1>4. ASSUME NEW c \in Clients, UNCHANGED stored,
               \/ UNCHANGED jobs
               \/ \E m \in Nat : \E ops, migrates :
                     /\ ops = [i \in 1..m |-> ops[i]] /\ Chain(c, ops, migrates)
                     /\ \A i \in 1..m : PrefsCall(ops[i])
        PROVE  ListsAreTyped' /\ \A e \in Clients : \A i \in DOMAIN jobs[e] : ~ Lands(e, i)
    <2>1. CASE UNCHANGED jobs
      BY <1>1, <1>2, <1>4, <2>1
    <2>2. ASSUME NEW m \in Nat, NEW ops, NEW migrates, ops = [i \in 1..m |-> ops[i]],
                 Chain(c, ops, migrates), \A i \in 1..m : PrefsCall(ops[i])
          PROVE  ListsAreTyped' /\ \A e \in Clients : \A i \in DOMAIN jobs[e] : ~ Lands(e, i)
      BY <1>3, <1>4, <2>2, ChainTyped
    <2> QED BY <1>4, <2>1, <2>2
  <1>5. ASSUME NEW c \in Clients, Call(c)
        PROVE  ListsAreTyped' /\ \A e \in Clients : \A i \in DOMAIN jobs[e] : ~ Lands(e, i)
    BY <1>4, <1>5, CallChains
  <1>6. ASSUME NEW c \in Clients, NEW g \in DOMAIN gets[c], GetStep(c, g) \/ GetFails(c, g)
        PROVE  ListsAreTyped' /\ \A e \in Clients : \A i \in DOMAIN jobs[e] : ~ Lands(e, i)
    <2>1. 1 \in Nat
      OBVIOUS
    <2> QED BY <1>4, <1>6, <2>1, GetChains
  <1>7. ASSUME NEW c \in Clients, NEW j \in DOMAIN jobs[c],
               CycleStep(c, j) \/ Fail(c, j) \/ GiveUp(c, j) \/ LandLate(c, j)
        PROVE  /\ ListsAreTyped'
               /\ \A e \in Clients : \A i \in DOMAIN jobs[e] :
                     Lands(e, i) => Result(e, i) # None /\ stored' = Result(e, i)
    <2>1. PICK r : /\ r = [f \in JobFields |-> r[f]] /\ SetJob(c, j, r)
                   /\ r.op = jobs[c][j].op /\ r.base \in {jobs[c][j].base, stored}
                   /\ \/ r.landed = jobs[c][j].landed /\ stored' = stored
                      \/ Result(c, j) # None /\ stored' = Result(c, j)
      BY <1>7, CycleStepIs
    <2>2. /\ \A e \in Clients : DOMAIN jobs'[e] = DOMAIN jobs[e]
          /\ \A e \in Clients : e # c => jobs'[e] = jobs[e]
          /\ \A i \in DOMAIN jobs[c] : i # j => jobs'[c][i] = jobs[c][i]
          /\ jobs'[c][j] = r
      BY <2>1, OthersStay
    <2>3. AllTyped(stored')
      <3>1. AllTyped(jobs[c][j].base) /\ PrefsCall(jobs[c][j].op) /\ AllTyped(stored)
        BY DEF ListsAreTyped
      <3>2. Result(c, j) # None => AllTyped(Result(c, j))
        BY <3>1, ApplyLeaves DEF Result
      <3> QED BY <2>1, <3>1, <3>2
    <2>4. \A e \in Clients : \A i \in DOMAIN jobs[e] :
             AllTyped(jobs'[e][i].base) /\ PrefsCall(jobs'[e][i].op)
      BY <2>1, <2>2 DEF ListsAreTyped
    <2>5. ListsAreTyped'
      BY <2>2, <2>3, <2>4 DEF ListsAreTyped
    <2>6. \A e \in Clients : \A i \in DOMAIN jobs[e] : e # c \/ i # j => jobs'[e][i] = jobs[e][i]
      BY <2>2
    <2>7. ASSUME NEW e \in Clients, NEW i \in DOMAIN jobs[e], Lands(e, i)
          PROVE  Result(e, i) # None /\ stored' = Result(e, i)
      <3>1. jobs'[e][i].landed # jobs[e][i].landed
        BY <1>2, <2>7
      <3>2. e = c /\ i = j /\ r.landed # jobs[c][j].landed
        BY <2>2, <2>6, <3>1
      <3> QED BY <2>1, <3>2
    <2> QED BY <2>5, <2>7
  <1> QED BY <1>5, <1>6, <1>7 DEF PrefsNext, PrefsStep

(* So what lands is what it was but for the action's own part.              *)
LEMMA LandsLeave ==
    ASSUME PrefsTypeOK, ListsAreTyped, scenario \in DOMAIN Scenarios, PrefsNext,
           NEW c \in Clients, NEW j \in DOMAIN jobs[c], Lands(c, j)
    PROVE  Untouched(jobs[c][j].op, Object(jobs[c][j].base), Object(stored'))
  <1> DEFINE op == jobs[c][j].op
             b == jobs[c][j].base
  <1>1. Result(c, j) # None /\ stored' = Result(c, j)
    BY TypedKeeps
  <1>2. AllTyped(b) /\ PrefsCall(op)
    BY DEF ListsAreTyped
  <1>3. stored' = Apply(op, b, tids + 1, writes + 1) /\ Apply(op, b, tids + 1, writes + 1) # None
    BY <1>1 DEF Result
  <1> HIDE DEF op, b
  <1>4. Left(b, stored', Part(op))
    BY <1>2, <1>3, ApplyLeaves
  <1>5. DOMAIN Object(b) = DOMAIN Home
    BY ObjectIs
  <1>6. Untouched(op, Object(b), Object(stored'))
    BY <1>4, <1>5 DEF Untouched, Left
  <1> QED BY <1>6 DEF op, b

-------------------------------------------------------------------------------
(* The specification *)

(* Whichever part is at work, the invariant holds at the start.             *)
LEMMA InitInv ==
    ASSUME SdkInit
    PROVE  SdkInv
  <1>1. PrefsInv
    <2>1. /\ issued = [c \in Clients |-> 0] /\ tail = [c \in Clients |-> 0]
          /\ jobs = [c \in Clients |-> <<>>] /\ writes = 0
      BY DEF SdkInit, PrefsInit, PrefsRest
    <2>2. <<>> \in Seq(ToSet(<<>>)) /\ Len(<<>>) = 0 /\ DOMAIN <<>> = {}
      BY EmptySeq
    <2>3. \A c \in Clients : jobs[c] = <<>> /\ tail[c] = 0
      BY <2>1
    <2>4. PrefsTypeOK
      BY <2>1, <2>2, <2>3 DEF PrefsTypeOK
    <2>5. Chained
      <3>1. \A c \in Clients : tail[c] = 0 /\ Len(jobs[c]) = 0 /\ DOMAIN jobs[c] = {}
        BY <2>2, <2>3
      <3> QED BY <3>1 DEF Chained, SettledBefore
    <2>6. OneAtATime /\ ReadIsCurrent
      BY <2>2, <2>3 DEF OneAtATime, ReadIsCurrent
    <2> QED BY <2>4, <2>5, <2>6 DEF PrefsInv
  <1>10. ListsAreTyped
    <2>1. stored = <<>> \/ \E s \in DOMAIN Scenarios : stored = Scenarios[s].start
      BY DEF SdkInit, PrefsInit, PrefsRest
    <2>2. AllTyped(stored)
      BY <2>1, NoObjects, ScenariosAssumption
    <2>3. jobs = [c \in Clients |-> <<>>] /\ DOMAIN <<>> = {}
      BY EmptySeq DEF SdkInit, PrefsInit, PrefsRest
    <2>4. \A c \in Clients : DOMAIN jobs[c] = {}
      BY <2>3
    <2> QED BY <2>2, <2>4 DEF ListsAreTyped
  <1>2. ProfileInv
    <2>1. PICK p \in {"get", "failed"} :
            upserts = [c \in Callers |-> [phase |-> p, attempt |-> 0, existing |-> None, updated |-> None]]
      BY DEF SdkInit, ProfileInit, ProfileRest
    <2>2. \A c \in Callers :
            upserts[c] = [phase |-> p, attempt |-> 0, existing |-> None, updated |-> None]
      BY <2>1
    <2>3. \A c \in Callers : upserts[c] = [f \in CallFields |-> upserts[c][f]] /\ upserts[c].phase # "put"
      BY <2>2 DEF CallFields
    <2>4. upserts = [c \in Callers |-> upserts[c]]
      BY <2>1, <2>2
    <2> QED BY <2>3, <2>4 DEF ProfileInv
  <1>3. TidInv
    <2>1. clock \in Nat /\ tidLastTime = 0 /\ tidTimestampCount = 0 /\ tidClockid = None /\ lastTid = None
      BY TidAssumption DEF SdkInit, TidInit, TidRest
    <2> QED BY <2>1 DEF TidInv
  <1>4. part = "age" => AgeInv
    BY DEF SdkInit, AgeInit, AgeInv
  <1>5. part # "age" => ~computed
    BY DEF SdkInit, AgeRest
  <1>6. part = "preferences" => scenario \in DOMAIN Scenarios
    BY DEF SdkInit, PrefsInit
  <1>7. part = "moderation" => ModerationInv
    BY DEF SdkInit, ModerationInit, ModerationInv
  <1>8. part # "moderation" => verdict = None
    BY DEF SdkInit, ModerationRest
  <1>9. TextInv
    <2>1. CASE part = "text"
      BY <2>1, TextStarts DEF SdkInit
    <2>2. CASE part # "text"
      <3>1. richText = [text |-> <<>>, facets |-> None]
        BY <2>2 DEF SdkInit, TextRest
      <3>2. IsText(<<>>)
        BY EmptySeq DEF IsText
      <3> QED BY <3>1, <3>2 DEF TextInv, IsRichText, AllCover
    <2> QED BY <2>1, <2>2
  <1> QED BY <1>1, <1>2, <1>3, <1>4, <1>5, <1>6, <1>7, <1>8, <1>9, <1>10 DEF SdkInv

(* A part at rest keeps what the invariant says of it.                      *)
LEMMA Rest ==
    ASSUME SdkInv
    PROVE  /\ UNCHANGED prefsVars => PrefsInv' /\ ListsAreTyped'
           /\ UNCHANGED profileVars => ProfileInv'
           /\ UNCHANGED tidVars => TidInv'
           /\ UNCHANGED textVars => TextInv'
           /\ UNCHANGED moderationVars /\ ModerationInv => ModerationInv'
           /\ UNCHANGED ageVars /\ AgeInv => AgeInv'
  <1>1. UNCHANGED prefsVars => PrefsInv'
    BY DEF SdkInv, prefsVars, PrefsInv, PrefsTypeOK, Chained, OneAtATime, ReadIsCurrent, SettledBefore
  <1>7. UNCHANGED prefsVars => ListsAreTyped'
    BY DEF SdkInv, prefsVars, ListsAreTyped
  <1>2. UNCHANGED profileVars => ProfileInv'
    BY DEF SdkInv, profileVars, ProfileInv, ExistingRecord
  <1>3. UNCHANGED tidVars => TidInv'
    BY DEF SdkInv, tidVars, TidInv, Encoded
  <1>4. UNCHANGED ageVars /\ AgeInv => AgeInv'
    BY DEF ageVars, AgeInv
  <1>5. UNCHANGED moderationVars /\ ModerationInv => ModerationInv'
    BY DEF moderationVars, ModerationInv, Subject, ShownOpts
  <1>6. UNCHANGED textVars => TextInv'
    <2>1. TextInv
      BY DEF SdkInv
    <2> QED BY <2>1 DEF textVars, TextInv, IsRichText, AllCover
  <1> QED BY <1>1, <1>2, <1>3, <1>4, <1>5, <1>6, <1>7

(* Every step keeps it.                                                     *)
LEMMA NextInv ==
    ASSUME SdkInv, [SdkNext]_sdkVars
    PROVE  SdkInv'
  <1>1. CASE UNCHANGED sdkVars
    BY <1>1, Rest DEF sdkVars, SdkInv, prefsVars, moderationVars, ageVars
  <1>2. CASE part = "preferences" /\ PrefsNext
             /\ UNCHANGED <<part, profileVars, tidVars, textVars, moderationVars, ageVars>>
    <2>1. PrefsInv' /\ scenario' = scenario
      BY <1>2, PrefsKeeps DEF SdkInv
    <2>2. ListsAreTyped'
      BY <1>2, TypedKeeps DEF SdkInv, PrefsInv
    <2> QED BY <1>2, <2>1, <2>2, Rest DEF SdkInv, moderationVars, ageVars
  <1>3. CASE part = "profile" /\ ProfileNext
             /\ UNCHANGED <<part, prefsVars, tidVars, textVars, moderationVars, ageVars>>
    <2>1. ProfileInv'
      BY <1>3, ProfileKeeps DEF SdkInv
    <2> QED BY <1>3, <2>1, Rest DEF SdkInv, moderationVars, ageVars
  <1>4. CASE part = "tid" /\ TidNext
             /\ UNCHANGED <<part, prefsVars, profileVars, textVars, moderationVars, ageVars>>
    <2>1. TidInv'
      BY <1>4, TidKeeps DEF SdkInv
    <2> QED BY <1>4, <2>1, Rest DEF SdkInv, moderationVars, ageVars
  <1>5. CASE part = "text" /\ TextNext
             /\ UNCHANGED <<part, prefsVars, profileVars, tidVars, moderationVars, ageVars>>
    <2>1. TextInv'
      BY <1>5, TextKeeps DEF SdkInv
    <2> QED BY <1>5, <2>1, Rest DEF SdkInv, moderationVars, ageVars
  <1>6. CASE part = "moderation" /\ ModerationNext
             /\ UNCHANGED <<part, prefsVars, profileVars, tidVars, textVars, ageVars>>
    <2>1. ModerationInv'
      BY <1>6 DEF SdkInv, ModerationNext, Moderate, ModerationInv, Subject, ShownOpts
    <2> QED BY <1>6, <2>1, Rest DEF SdkInv, ageVars
  <1>7. CASE part = "age" /\ AgeNext
             /\ UNCHANGED <<part, prefsVars, profileVars, tidVars, textVars, moderationVars>>
    <2>1. AgeInv'
      BY <1>7 DEF SdkInv, AgeNext, ComputeAccess, AgeInv
    <2> QED BY <1>7, <2>1, Rest DEF SdkInv, moderationVars
  <1> QED BY <1>1, <1>2, <1>3, <1>4, <1>5, <1>6, <1>7 DEF SdkNext

(* The parts' invariants hold in every behavior.                            *)
THEOREM Invariance == SdkSpec => []SdkInv
  <1>1. SdkInit => SdkInv
    BY InitInv
  <1>2. SdkInv /\ [SdkNext]_sdkVars => SdkInv'
    BY NextInv
  <1> QED BY <1>1, <1>2, PTL DEF SdkSpec

(* The preference cycles of a client run one at a time and in the order of  *)
(* their calls, whatever fails: no cycle has left the queue before every    *)
(* earlier one of the client has settled.                                   *)
THEOREM CyclesTakeTurns == SdkSpec => []OneAtATime
  <1>1. SdkInv => OneAtATime
    BY DEF SdkInv, PrefsInv
  <1> QED BY <1>1, Invariance, PTL

(* No cycle a client still runs discards a change of the same client that   *)
(* reached the server after its read: there is no such change, for any      *)
(* number of clients and calls and however many requests fail.              *)
THEOREM NoUpdateIsLost == SdkSpec => NoLostUpdate
  <1>1. SdkInv => \A c \in Clients : \A j \in DOMAIN jobs[c] :
           (Lands(c, j) /\ jobs[c][j].phase = "read") =>
              \A o \in DOMAIN jobs[c] :
                 (jobs[c][o].landed > jobs[c][j].seen /\ jobs[c][o].phase \in {"written", "done"}
                    /\ InForce(jobs[c][o].op, stored))
                 => InForce(jobs[c][o].op, stored')
    <2> SUFFICES ASSUME SdkInv, NEW c \in Clients, NEW j \in DOMAIN jobs[c],
                        jobs[c][j].phase = "read", NEW o \in DOMAIN jobs[c],
                        jobs[c][o].landed > jobs[c][j].seen, jobs[c][o].phase \in {"written", "done"}
                 PROVE  FALSE
      OBVIOUS
    <2>1. jobs[c][o].landed <= jobs[c][j].seen
      BY DEF SdkInv, PrefsInv, ReadIsCurrent
    <2>2. jobs[c][o].landed \in Nat /\ jobs[c][j].seen \in Nat
      BY DEF SdkInv, PrefsInv, PrefsTypeOK
    <2> QED BY <2>1, <2>2
  <1> QED BY <1>1, Invariance, PTL DEF NoLostUpdate

(* Every put of an action leaves what it read of the account as it was, but *)
(* for the action's own part: whichever of the 28 actions, whatever list of *)
(* typed objects it read, and whichever call or other client comes between. *)
THEOREM OthersAreUntouched == SdkSpec => OthersUntouched
  <1>1. SdkInv /\ [SdkNext]_sdkVars =>
          [\A c \in Clients : \A j \in DOMAIN jobs[c] :
              Lands(c, j) => Untouched(jobs[c][j].op, Object(jobs[c][j].base), Object(stored'))]_progress
    <2> SUFFICES ASSUME SdkInv, [SdkNext]_sdkVars, ~ UNCHANGED progress,
                        NEW c \in Clients, NEW j \in DOMAIN jobs[c], Lands(c, j)
                 PROVE  Untouched(jobs[c][j].op, Object(jobs[c][j].base), Object(stored'))
      OBVIOUS
    <2>1. UNCHANGED prefsVars => UNCHANGED progress
      <3>1. UNCHANGED prefsVars => jobs' = jobs /\ gets' = gets
        BY DEF prefsVars
      <3> QED BY <3>1, Zenon DEF progress, MapSeq
    <2>2. part = "preferences" /\ PrefsNext
      BY <2>1 DEF SdkNext, sdkVars
    <2> QED BY <2>2, LandsLeave DEF SdkInv, PrefsInv
  <1> QED BY <1>1, Invariance, PTL DEF SdkSpec, OthersUntouched

(* A put whose call read a valid profile discards nothing written since.    *)
THEOREM SwapsAreHonoured == SdkSpec => ProfileSwapHonoured
  <1>1. SdkInv /\ [SdkNext]_sdkVars =>
          [\A c \in Callers :
             (Landed(c) /\ upserts[c].existing # None /\ profile # None /\ profile.valid)
                => profile.changes \subseteq profile'.changes]_profileVars
    <2> SUFFICES ASSUME SdkInv, [SdkNext]_sdkVars, ~ UNCHANGED profileVars,
                        NEW c \in Callers, Landed(c), upserts[c].existing # None, profile # None,
                        profile.valid
                 PROVE  profile.changes \subseteq profile'.changes
      OBVIOUS
    <2>1. ProfileNext
      BY DEF SdkNext, sdkVars
    <2> QED BY <2>1, SwapHonoured DEF SdkInv
  <1> QED BY <1>1, Invariance, PTL DEF SdkSpec, ProfileSwapHonoured

(* A TID sorts above every one drawn before it whatever the clock does, for *)
(* any number of TIDs in a millisecond and of clock ids.                    *)
THEOREM TidsAreMonotone == SdkSpec => TidsAscend
  <1>1. SdkInv /\ [SdkNext]_sdkVars =>
          [(lastTid # None /\ tidTimestampCount < PerMs) => lastTid' > lastTid]_lastTid
    <2> SUFFICES ASSUME SdkInv, [SdkNext]_sdkVars, lastTid' # lastTid, lastTid # None,
                        tidTimestampCount < PerMs
                 PROVE  lastTid' > lastTid
      OBVIOUS
    <2>1. NextTid
      BY DEF SdkNext, sdkVars, tidVars, TidNext, ClockSet
    <2> QED BY <2>1, DrawAscends DEF SdkInv
  <1> QED BY <1>1, Invariance, PTL DEF SdkSpec, TidsAscend

(* Once a third party has assured an age, the date of the account decides   *)
(* nothing, whatever the regions and their rules are.                       *)
THEOREM AssuranceDecides == SdkSpec => []AssuredAgeDecides
  <1>1. SdkInv => AssuredAgeDecides
    <2> SUFFICES ASSUME SdkInv, computed, Assured(person), NEW data \in People,
                        data.declaredAge = person.declaredAge, data.assuredAge = person.assuredAge
                 PROVE  AccessOf(data, place) = access
      BY DEF AssuredAgeDecides
    <2>1. access = AccessOf(person, place)
      BY DEF SdkInv, AgeInv
    <2>2. AccessOf(data, place) = AccessOf(person, place)
      BY SameRulesHold
    <2> QED BY <2>1, <2>2
  <1> QED BY <1>1, Invariance, PTL

(* A decision keeps the rules of decision.ts, for every view, preference    *)
(* list, viewer and set of label definitions: the user's own content is     *)
(* never locked nor filtered but by hand, what is locked is so whatever     *)
(* the labels are set to, what a post quotes is never blurred or noted on   *)
(* it, and the strictest cause comes first.                                 *)
THEOREM SettingsAreHonoured == SdkSpec => []DecisionsHonourSettings
  <1>1. SdkInv => DecisionsHonourSettings
    <2> SUFFICES ASSUME SdkInv, verdict # None PROVE DecisionsHonourSettings
      BY DEF DecisionsHonourSettings
    <2>1. ModerationInv
      BY DEF SdkInv
    <2> QED BY <2>1, SettingsHonoured
  <1> QED BY <1>1, Invariance, PTL

(* A post of another account is muted by words when some muted word, read   *)
(* by itself, mutes one of its texts, and the words found in a text are all *)
(* that mute it: what matchMuteWords() keeps of a word's readings for the   *)
(* words after it never changes a match, for any texts, words and number    *)
(* of either.                                                               *)
THEOREM WordsMute == SdkSpec => []MutedWordsMute
  <1>1. SdkInv => MutedWordsMute
    <2> SUFFICES ASSUME SdkInv, verdict # None PROVE MutedWordsMute
      BY DEF MutedWordsMute
    <2>1. ModerationInv
      BY DEF SdkInv
    <2> QED BY <2>1, WordsMuteInv
  <1> QED BY <1>1, Invariance, PTL

(* Each facet stays on the symbols it was put on and those typed inside it, *)
(* and the segments put together are the text, through any construction,    *)
(* newline cleaning, edits and detections, in whatever order they meet, as  *)
(* long as the text that is inserted is as long in UTF-16 as in UTF-8.      *)
THEOREM FacetsFollow == SdkSpec => []FacetsFollowText
  <1>1. SdkInv => FacetsFollowText
    BY FacetsFollowInv DEF SdkInv
  <1> QED BY <1>1, Invariance, PTL
===============================================================================
