---------------------------- MODULE MCFileTable ----------------------------
(***************************************************************************)
(* Instances of FileTable for TLC.                                         *)
(***************************************************************************)
EXTENDS FileTable, TLC

\* /x is directory 2 and /x/y a file.
MCTree == [d \in {1, 2} |-> IF d = 1 THEN "x" :> 2 @@ "y" :> 0
                            ELSE "x" :> 0 @@ "y" :> 3]

\* Paths to every place in it, through a file, and the empty one.
MCPaths == {<<>>, <<"x">>, <<"y">>, <<"x", "y">>, <<"y", "x">>}

Symmetry == Permutations(FD)
=============================================================================
