------------------------------- MODULE SdkValues -------------------------------
(***************************************************************************)
(* What the modules of @bsky/sdk share: a value, and lists selected from   *)
(* others by position.                                                     *)
(***************************************************************************)
EXTENDS Integers, FiniteSets, SequencesExt

CONSTANT None    \* undefined, null, and the `false` of an update callback

IsList(s) == s \in Seq(ToSet(s))

\* The positions in `kept` that come no later than j, by rising weight, else as they are.
UpTo(j, kept, weight) == { i \in kept : weight[i] < weight[j] \/ (weight[i] = weight[j] /\ i <= j) }

\* A stable sort of the elements at some positions, and those elements as they are.
Ranked(s, kept, weight) ==
    [n \in 1 .. Cardinality(kept) |-> s[CHOOSE j \in kept : Cardinality(UpTo(j, kept, weight)) = n]]
Keep(s, kept) == Ranked(s, kept, [i \in kept |-> 0])
================================================================================
