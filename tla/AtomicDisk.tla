----------------------------- MODULE AtomicDisk -----------------------------
(***************************************************************************)
(* What the file system log promises: the writes of a transaction reach    *)
(* the disk all at once or, when the machine stops first, not at all.      *)
(***************************************************************************)

CONSTANTS
    Sector,     \* blocks of the file system
    Data        \* contents of a block

VARIABLES
    durable,    \* what survives a crash
    view        \* what the running transaction has made of it

diskVars == <<durable, view>>

Init == /\ durable \in [Sector -> Data]
        /\ view = durable

Write(s, v) == /\ view' = [view EXCEPT ![s] = v]
               /\ UNCHANGED durable

Commit == /\ durable' = view
          /\ UNCHANGED view

Abort == /\ view' = durable
         /\ UNCHANGED durable

Next == \/ \E s \in Sector, v \in Data : Write(s, v)
        \/ Commit
        \/ Abort

Spec == Init /\ [][Next]_diskVars
=============================================================================
