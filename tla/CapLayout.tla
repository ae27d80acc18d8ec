----------------------------- MODULE CapLayout -----------------------------
(***************************************************************************)
(* Capabilities as the words they are stored in.  Every kind of capability *)
(* is a struct of bit fields of its own (include/object/structures.h), and *)
(* the kernel passes all of them as the universal struct Cap, whose fields *)
(* lie elsewhere.  Only the second word matters: the first one holds a     *)
(* badge or a guard.  A word is a function from bit numbers to bits.       *)
(*                                                                         *)
(* Kernel objects start on a page of the first 512 MB, which the kernel    *)
(* sees at KERNBASE = 0xFFFFFFFF80000000; an object is named by its page.  *)
(***************************************************************************)
EXTENDS Naturals

Bits == 0..63

PGSIZE == 4096

\* sizeof(Cte): a capability of three words and a node of two.
SizeofCte == 40

\* Bit i of the number n.
Bit(n, i) == (n \div 2^i) % 2

\* The kernel's address of the physical address a.
p2v(a) == [i \in Bits |-> IF i >= 31 THEN 1 ELSE IF i < 29 THEN Bit(a, i) ELSE 0]

\* The address of page p.
KernelAddress(p) == p2v(p * PGSIZE)

\* enum CapTag, the members create_object() uses.
CapTag == [null |-> 0, untyped |-> 2, endpoint |-> 4, notification |-> 6, cnode |-> 10]

\* A slot that nothing was written to: memblock_alloc() clears its blocks.
NullCap == [i \in Bits |-> 0]

\* EndpointCap, NotificationCap and UntypedCap: the type in bits 0 to 4, then the
\* bits of the rights it has, and the low 48 bits of the object's address on top.
ObjectCap(type, rights, address) ==
    [i \in Bits |-> IF i < 5 THEN Bit(CapTag[type], i)
                    ELSE IF i \in rights THEN 1
                    ELSE IF i >= 16 THEN address[i - 16]
                    ELSE 0]

\* CNodeCap: create_object() leaves the type unset, so it is a parameter here.
\* Above the guard size and the radix, both 0, lie the low 47 bits of the region.
CNodeCap(type, region) ==
    [i \in Bits |-> IF i < 5 THEN Bit(type, i)
                    ELSE IF i >= 17 THEN region[i - 17]
                    ELSE 0]

\* region >> 1
ShiftRight(region) == [i \in Bits |-> IF i = 63 THEN 0 ELSE region[i + 1]]

----------------------------------------------------------------------------
(* How the fields are read *)

\* EndpointCap.capEPPtr, 48 bits, in transfer_caps().
capEPPtr(c) == [i \in Bits |-> IF i < 48 THEN c[i + 16] ELSE 0]

\* Mutant: the upper bits are left 0.
endpoint_of_Low(c) == [i \in Bits |-> IF i < 48 THEN c[i + 16] ELSE 0]

\* capEPPtr | 0xFFFF000000000000, in send() and receive_ipc().
endpoint_of(c) == [i \in Bits |-> IF i < 48 THEN c[i + 16] ELSE 1]

\* capCNodePtr << 1: a shift of a 47 bit field is a shift in 47 bits.
capCNodePtr(c) == [i \in Bits |-> IF i \in 1..46 THEN c[i + 16] ELSE 0]

\* (capCNodePtr << 1) | 0xFFFF800000000000, in lookup_slot().
table_of(c) == [i \in Bits |-> IF i >= 47 THEN 1 ELSE capCNodePtr(c)[i]]

\* EndpointCap.capType.
EndpointCap_capType(c) == c[0] + 2 * c[1] + 4 * c[2] + 8 * c[3] + 16 * c[4]

\* Cap.capType: in the universal struct the type follows 48 bits of pointer.
Cap_capType(c) == c[48] + 2 * c[49] + 4 * c[50] + 8 * c[51] + 16 * c[52]

----------------------------------------------------------------------------
(* Look-ups through a capability to a table of slots.  A status that the     *)
(* code never assigns is the parameter `garbage`, zero or not.               *)

EXCEPTION_NONE == 0
EXCEPTION_SYSCALL_ERROR == 3
WordBits == 64

\* No slot: the field slot is NULL.
NoSlot == [table |-> NullCap, index |-> 0]

\* CNodeCap: guard size and radix, six bits each.
levelBits(c) ==
    LET sixBits(i) == c[i] + 2 * c[i+1] + 4 * c[i+2] + 8 * c[i+3] + 16 * c[i+4] + 32 * c[i+5]
    IN  sixBits(5) + sixBits(11)

\* resolve_address_bits: the levels below the first are never followed.
resolve_address_bits(root, capptr, nBits, garbage) ==
    IF Cap_capType(root) # CapTag.cnode \/ levelBits(root) > nBits
    THEN [status |-> garbage, slot |-> NoSlot, bitsRemaining |-> nBits]
    ELSE [status |-> EXCEPTION_NONE,
          slot |-> [table |-> capCNodePtr(root), index |-> capptr],
          bitsRemaining |-> 0]

\* lookup_slot_for_cnode_op, and with it lookup_target_slot, lookup_source_slot
\* and lookup_pivot_slot, which differ in the error they record.
lookup_slot_for_cnode_op(root, capptr, depth, garbage) ==
    LET resRet == resolve_address_bits(root, capptr, depth, garbage)
    IN  IF \/ Cap_capType(root) # CapTag.cnode
           \/ depth < 1 \/ depth > WordBits
           \/ resRet.status # EXCEPTION_NONE
           \/ resRet.bitsRemaining # 0
        THEN [status |-> EXCEPTION_SYSCALL_ERROR, slot |-> NoSlot]
        ELSE [status |-> EXCEPTION_NONE, slot |-> resRet.slot]
=============================================================================
