------------------------------- MODULE MCRunner -------------------------------
(* TLC instances of Runner: two handlers at work on two keys, and an event  *)
(* without a handler that is chained behind one of them.                    *)
EXTENDS Runner

Ev(k, h) == [key |-> k, handler |-> h]

MCStream == <<2, 3, 5>>
MCEvents == <<Ev("a", TRUE), Ev("b", TRUE), Ev("a", FALSE)>>
==============================================================================
