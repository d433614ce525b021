--------------------------- MODULE MCCommitTracker ---------------------------
(* TLC instance of CommitTracker: four events with gaps between their seqs. *)
EXTENDS CommitTracker

MCStream == <<1, 3, 4, 7>>
MCShort  == <<2, 3, 5>>
==============================================================================
