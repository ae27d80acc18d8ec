----------------------------- MODULE MCMemBlock -----------------------------
(* Memory maps for model checking MemBlock: pages of 4 bytes.               *)
EXTENDS MemBlock

E(addr, len, type) == [addr |-> addr, len |-> len, type |-> type]

\* RAM that ends inside a page, a hole, more RAM.
MapWithHole == <<E(0, 9, 1), E(9, 3, 2), E(12, 13, 1)>>

\* Unsorted, overlapping and touching entries, one of length 0, an end marker.
MapUnsorted == <<E(16, 6, 1), E(22, 0, 1), E(4, 4, 1), E(6, 9, 1), E(15, 1, 1), E(30, 9, 0)>>

\* No usable memory at all.
MapWithoutRam == <<E(0, 16, 2)>>

MCHole == {MapWithHole}

MCMaps == {MapWithHole, MapUnsorted, MapWithoutRam}
=============================================================================
