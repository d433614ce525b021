---------------------------- MODULE MCArchiveSweep ----------------------------
(* TLC instances of ArchiveSweep: five blocks of two seqs, one of them with **)
(* no selected row, one whose selected row the kinds filter prunes, cursors *)
(* and a ceiling inside a block.                                            *)
EXTENDS ArchiveSweep

MCSelected == {1, 2, 3, 7, 9, 10}
MCWanted   == {1, 2, 7, 9, 10}
MCEnds     == {2, 4, 6, 8, 10}
MCAfters   == {0, 1, 6}
MCBefores  == {None, 3, 9}
==============================================================================
