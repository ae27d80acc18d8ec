------------------------------ MODULE MCCSpace ------------------------------
(***************************************************************************)
(* Instances of CSpace for TLC.                                            *)
(***************************************************************************)
EXTENDS CSpace

\* The first and the last pages of the 512 MB.
MCPageSets == {1..7, (2^17 - 7) .. (2^17 - 1)}
=============================================================================
