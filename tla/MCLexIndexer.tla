---------------------------- MODULE MCLexIndexer -----------------------------
(* TLC instance of LexIndexer: two keys, the second with one event in the   *)
(* middle that has no handler.                                              *)
EXTENDS LexIndexer

Ev(k, h) == [key |-> k, handler |-> h]

MCEvents == <<Ev("a", TRUE), Ev("a", TRUE), Ev("b", TRUE), Ev("a", FALSE), Ev("b", TRUE)>>
MCShort  == <<Ev("a", TRUE), Ev("a", TRUE), Ev("b", TRUE), Ev("a", TRUE)>>
==============================================================================
