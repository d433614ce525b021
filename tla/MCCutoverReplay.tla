--------------------------- MODULE MCCutoverReplay ---------------------------
(* TLC instances of CutoverReplay: blocks of two seqs, one block whose only *)
(* selected row the kinds filter prunes, a cursor and a ceiling inside a    *)
(* block.                                                                   *)
EXTENDS CutoverReplay

MCWanted   == {1, 2, 5, 6}
MCSelected == {1, 2, 4, 5, 6}
MCEnds     == {2, 4, 6}
MCAfters   == {0, 1}
MCBefores  == {None, 5}
==============================================================================
