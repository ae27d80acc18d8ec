------------------------------ MODULE MCInode ------------------------------
(***************************************************************************)
(* Instances of Inode for TLC.                                             *)
(***************************************************************************)
EXTENDS Inode, SequencesExt

\* A disk on which the largest file fits, and one that is full before.
MCUsedSets == {{0, 3}, {0, 1, 2, 5}}

\* Buffers of up to three words; the longest needs two transactions.
MCBuffers == SeqOf({1, 2}, 3) \ {<<>>}

\* The hypotheses of the theorem about NoOverrun.
ASSUME MCLogFits == RemovalFits /\ AreaFits
=============================================================================
