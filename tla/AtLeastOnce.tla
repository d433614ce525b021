----------------------------- MODULE AtLeastOnce -----------------------------
(****************************************************************************)
(* What the cursor kept by a JetstreamRunner promises, said without any     *)
(* tracker, promise or save loop: the durable cursor is a bound below which *)
(* every event of the stream has been handled, and it only moves forward.   *)
(* A consumer that resumes from the cursor therefore sees every event at    *)
(* least once.                                                              *)
(****************************************************************************)
EXTENDS Naturals, Sequences

CONSTANT
    Stream          \* the seqs of the events the source offers, ascending

VARIABLES
    handled,        \* seqs some run has acknowledged
    cursor          \* the cursor a new run would load (0: none stored)

vars == <<handled, cursor>>

Offered == {Stream[i] : i \in 1..Len(Stream)}

(* Every event at or below c has been handled. *)
HandledUpTo(c) == \A i \in 1..Len(Stream) : Stream[i] <= c => Stream[i] \in handled

Init == handled = {} /\ cursor = 0

Handle(s) == handled' = handled \union {s} /\ UNCHANGED cursor

Advance(c) ==
    /\ c > cursor
    /\ HandledUpTo(c)
    /\ cursor' = c
    /\ UNCHANGED handled

Next == \E s \in Offered : Handle(s) \/ Advance(s)

Spec == Init /\ [][Next]_vars
==============================================================================
