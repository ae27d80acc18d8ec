--------------------------- MODULE MCIpcTransfer ---------------------------
(***************************************************************************)
(* Instances of IpcTransfer for TLC.                                       *)
(***************************************************************************)
EXTENDS IpcTransfer, TLC

\* An empty message, and one whose length is too large and that names a capability.
MCTags == {[length |-> 0, extraCaps |-> 0],
           [length |-> Os_MsgMaxLength + 1, extraCaps |-> Os_MsgMaxExtraCaps]}

\* Where no slot is: a word that has the type of a table where the universal struct
\* has it (bits 49 and 51: 10), one that looks like the endpoint's capability, and
\* one with all bits set.
MCStrayWords == {[i \in Bits |-> IF i \in {49, 51} THEN 1 ELSE 0],
                 EndpointCap(TRUE),
                 [i \in Bits |-> 1]}

Symmetry == Permutations(Word)
=============================================================================
