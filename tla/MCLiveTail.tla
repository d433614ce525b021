------------------------------ MODULE MCLiveTail ------------------------------
(* TLC instances of LiveTail: five seqs, one of them filtered out.          *)
EXTENDS LiveTail

MCWanted == {1, 2, 4, 5}

(* A stored seq, the start of the log, and the time of seq 2.               *)
WithCursor == {0, 2, Threshold + 2}
NoCursor   == {None}
==============================================================================
