---------------------------------- MODULE Tid ----------------------------------
(***************************************************************************)
(* The SDK's own TIDs (sdk/src/tid.ts), the ids of saved feeds and muted   *)
(* words: a microsecond timestamp and a clock id that share one number.    *)
(* The wall clock is the system's and may be set back.                     *)
(***************************************************************************)
EXTENDS SdkValues, Integers

CONSTANTS PerMs,        \* TIDs in a millisecond: 1000 in the code
          ClockIds,     \* room for clock ids: 1024 in the code, of which 0..31 are drawn
          MaxClock,     \* bound on the wall clock
          MaxCount      \* bound on the draws within one millisecond

ASSUME TidAssumption ==
    /\ PerMs \in Nat \ {0} /\ ClockIds \in Nat \ {0} /\ MaxClock \in Nat
    /\ None \notin Nat

VARIABLES clock,                    \* Date.now()
          tidLastTime, tidTimestampCount, tidClockid,
          lastTid                   \* the TID returned last, None before the first

tidVars == <<clock, tidLastTime, tidTimestampCount, tidClockid, lastTid>>

TidInit ==
    /\ clock \in 1 .. MaxClock
    /\ tidLastTime = 0
    /\ tidTimestampCount = 0
    /\ tidClockid = None
    /\ lastTid = None

ClockSet ==
    /\ clock' \in 1 .. MaxClock
    /\ UNCHANGED <<tidLastTime, tidTimestampCount, tidClockid, lastTid>>

\* Mutant: the wall clock as it is.
WallClock == clock

Now == IF clock > tidLastTime THEN clock ELSE tidLastTime

\* The digits are padded with the alphabet's zero: strings of TIDs compare as these numbers.
Encoded(timestamp, clockid) == timestamp * ClockIds + clockid

NextTid ==
    /\ tidTimestampCount < MaxCount
    /\ tidLastTime' = Now
    /\ tidTimestampCount' = IF Now = tidLastTime THEN tidTimestampCount + 1 ELSE 0
    /\ tidClockid' \in IF tidClockid = None THEN 0 .. ClockIds - 1 ELSE {tidClockid}
    /\ lastTid' = Encoded(Now * PerMs + tidTimestampCount', tidClockid')
    /\ UNCHANGED clock

TidNext == ClockSet \/ NextTid

\* "Monotonicity guard": whatever the wall clock does, a TID sorts above every
\* one drawn before it, as long as no millisecond gives more than PerMs of them.
TidsAscend ==
    [][(lastTid # None /\ tidTimestampCount < PerMs) => lastTid' > lastTid]_lastTid

\* The inductive invariant: the last TID is the one its parts encode.
TidInv ==
    /\ clock \in Nat /\ tidLastTime \in Nat /\ tidTimestampCount \in Nat
    /\ tidClockid \in {None} \cup 0 .. ClockIds - 1
    /\ lastTid # None =>
        /\ tidClockid # None
        /\ lastTid = Encoded(tidLastTime * PerMs + tidTimestampCount, tidClockid)
================================================================================
