------------------------------- MODULE CSpace -------------------------------
(***************************************************************************)
(* Capability tables: how boot builds one for each plugin and puts the     *)
(* endpoint into both (ipc_test in kernel/main.c), how a capability is     *)
(* found (kernel/cspace.c) and how objects are made from untyped memory    *)
(* (object/untyped.c, object/objecttype.c, object/cnode.c).                *)
(*                                                                         *)
(* Memory is a function from slots to capabilities; a slot is a page and   *)
(* the number of the slot in it.  Pages come from memblock_alloc_kernel()  *)
(* (module MemBlock), cleared and each of them once.                       *)
(***************************************************************************)
EXTENDS CapLayout, FiniteSets, FiniteSetsExt

CONSTANTS
    PageSets,       \* the pages that boot may be given, highest first
    NSlot,          \* slots of a page to look at
    Offsets,        \* destOffset of a retype; slot 0, which boot fills, may be among them,
    Lengths,        \* its destLength
    Bases,          \* and its retypeBase, within the region
    UserSize,       \* the userSize argument, a number of bits
    Garbage,        \* what an unset type field may hold
    MaxMade         \* bound on the objects made before a retype

ASSUME CSpaceAssumption ==
    /\ \A P \in PageSets : P \subseteq 1 .. (2^17 - 1) /\ Cardinality(P) = 7
    /\ NSlot \in 1 .. (PGSIZE \div SizeofCte)
    /\ Offsets \subseteq Nat /\ Lengths \subseteq Nat /\ Bases \subseteq Nat
    /\ Garbage \subseteq 0..31 /\ MaxMade \in Nat /\ UserSize \in Nat

Plugin == {0, 1}

VARIABLES
    pages,      \* the pages not given out yet
    slot,       \* memory: the capability in each slot
    tcbObject,  \* the page of each plugin's TCB object, 0 before
    cTable,     \* the page of each plugin's table
    cteRoot,    \* the page with the root capability
    region,     \* the page it is for
    endpoint,   \* the page of the endpoint
    step,       \* how far ipc_test() has come
    freeIndex,  \* capFreeIndex of the root capability
    made        \* history: slot, kind and address of each object made

vars == <<pages, slot, tcbObject, cTable, cteRoot, region, endpoint, step, freeIndex, made>>

----------------------------------------------------------------------------
(* Objects *)

OsTCBBits == 11
OsSlotBits == 5

\* get_object_size: the number of bits.
get_object_size(type, userSize) ==
    CASE type = "tcb"          -> OsTCBBits
      [] type = "endpoint"     -> 4
      [] type = "notification" -> 5
      [] type = "captable"     -> OsSlotBits + userSize
      [] type = "untyped"      -> userSize

\* create_object: the capability to an object at this address.  The case of a TCB
\* falls through to the one of an endpoint: the thread capability is built and lost.
\* It also sets tcbTimeSlice in the new object, memory that is not modelled here.
create_object(type, address, garbage) ==
    CASE type \in {"tcb", "endpoint"} -> ObjectCap("endpoint", 5..8, address)
      [] type = "notification"        -> ObjectCap("notification", 5..6, address)
      [] type = "captable"            -> CNodeCap(garbage, address)
      [] type = "untyped"             -> ObjectCap("untyped", {}, address)

----------------------------------------------------------------------------
(* Looking up *)

\* TCB_PTR_CTE_PTR(tcb, tcbCTable): the TCB lies in the upper half of its object
\* and the slots at its start.
tcb_slot(t) ==
    LET tcb == tcbObject[t] * PGSIZE + 2^(OsTCBBits - 1)
    IN  <<(tcb - (tcb % 2^OsTCBBits)) \div PGSIZE, 0>>

\* lookup_slot: the address of the slot.  capptr is added as a number of bytes; it
\* is less than PGSIZE here, and a table starts on a page.  Nothing bounds it (see
\* sys_wild in module Kernel).
lookup_slot(t, capptr) ==
    LET table == table_of(slot[tcb_slot(t)])
    IN  [i \in Bits |-> IF i < 12 THEN Bit(capptr, i) ELSE table[i]]

\* The slot at an address.
SlotAt(address) ==
    {s \in DOMAIN slot : p2v(s[1] * PGSIZE + s[2] * SizeofCte) = address}

\* insert_new_cap at an address; a capability that is there is not looked at.
insert_new_cap(mem, s, cap) == [mem EXCEPT ![s] = cap]

----------------------------------------------------------------------------
(* ipc_test() *)

Init ==
    /\ pages \in PageSets
    /\ slot = [s \in pages \X (0 .. (NSlot - 1)) |-> NullCap]
    /\ tcbObject = [t \in Plugin |-> 0]
    /\ cTable = [t \in Plugin |-> 0]
    /\ cteRoot = 0 /\ region = 0 /\ endpoint = 0
    /\ step = 0
    /\ freeIndex = 0
    /\ made = {}

\* memblock_alloc_kernel(PGSIZE, PGSIZE)
page == Max(pages)
memblock_alloc_kernel == pages' = pages \ {page}

alloc_tcb(t) ==
    /\ step = t
    /\ step' = step + 1
    /\ memblock_alloc_kernel
    /\ tcbObject' = [tcbObject EXCEPT ![t] = page]
    /\ UNCHANGED <<slot, cTable, cteRoot, region, endpoint, freeIndex, made>>

alloc_root ==
    /\ step = 2
    /\ step' = 3
    /\ memblock_alloc_kernel
    /\ cteRoot' = page
    /\ UNCHANGED <<slot, tcbObject, cTable, region, endpoint, freeIndex, made>>

\* Only the pointer of the root capability is set, so its type stays cap_null_cap.
init_root ==
    /\ step = 3
    /\ step' = 4
    /\ memblock_alloc_kernel
    /\ region' = page
    /\ slot' = [slot EXCEPT ![<<cteRoot, 0>>] = ObjectCap("null", {}, KernelAddress(page))]
    /\ UNCHANGED <<tcbObject, cTable, cteRoot, endpoint, freeIndex, made>>

\* The table of a plugin: its capability goes to the start of the TCB object.
init_table(t, garbage) ==
    /\ step = 4 + t
    /\ step' = step + 1
    /\ memblock_alloc_kernel
    /\ cTable' = [cTable EXCEPT ![t] = page]
    /\ slot' = [slot EXCEPT ![<<tcbObject[t], 0>>] =
                    create_object("captable", ShiftRight(KernelAddress(page)), garbage)]
    /\ UNCHANGED <<tcbObject, cteRoot, region, endpoint, freeIndex, made>>

alloc_endpoint ==
    /\ step = 6
    /\ step' = 7
    /\ memblock_alloc_kernel
    /\ endpoint' = page
    /\ UNCHANGED <<slot, tcbObject, cTable, cteRoot, region, freeIndex, made>>

\* Insert the endpoint capability into slot 0 of a plugin.
insert_endpoint(t) ==
    /\ step = 7 + t
    /\ step' = step + 1
    /\ \E s \in SlotAt(lookup_slot(t, 0)) :
           slot' = insert_new_cap(slot, s, create_object("endpoint", KernelAddress(endpoint), 0))
    /\ UNCHANGED <<pages, tcbObject, cTable, cteRoot, region, endpoint, freeIndex, made>>

----------------------------------------------------------------------------
(* invoke_untyped_retype() *)

ObjectAt(type, userSize, base, i) == base + i * 2^get_object_size(type, userSize)

\* Mutant: all objects go to the first slot.
create_new_objects_OneSlot(type, t, offset, length, base, userSize, garbage) ==
    [s \in DOMAIN slot |->
        IF s = <<cTable[t], offset>>
        THEN create_object(type, p2v(ObjectAt(type, userSize, base, length - 1)), garbage)
        ELSE slot[s]]

\* The slots from offset on get the capabilities to objects from base on.
create_new_objects(type, t, offset, length, base, userSize, garbage) ==
    [s \in DOMAIN slot |->
        IF s[1] = cTable[t] /\ s[2] \in offset .. (offset + length - 1)
        THEN create_object(type, p2v(ObjectAt(type, userSize, base, s[2] - offset)), garbage)
        ELSE slot[s]]

\* The free index of the untyped capability is set to 0, whatever was made of it.
invoke_untyped_retype(type, t, offset, length, base, userSize, garbage) ==
    /\ step = 9
    /\ Cardinality(made) <= MaxMade
    /\ offset + length <= NSlot
    /\ freeIndex' = 0
    /\ slot' = create_new_objects(type, t, offset, length, region * PGSIZE + base,
                                  userSize, garbage)
    /\ made' = {m \in made : ~(m.slot[1] = cTable[t]
                               /\ m.slot[2] \in offset .. (offset + length - 1))}
               \cup {[slot |-> <<cTable[t], offset + i>>, type |-> type,
                      address |-> ObjectAt(type, userSize, region * PGSIZE + base, i)] :
                         i \in 0 .. (length - 1)}
    /\ UNCHANGED <<pages, tcbObject, cTable, cteRoot, region, endpoint, step>>

Types == {"tcb", "endpoint", "notification", "captable", "untyped"}

Next ==
    \/ \E t \in Plugin : alloc_tcb(t) \/ insert_endpoint(t)
    \/ \E t \in Plugin, garbage \in Garbage : init_table(t, garbage)
    \/ alloc_root
    \/ init_root
    \/ alloc_endpoint
    \/ \E type \in Types, t \in Plugin, offset \in Offsets, length \in Lengths,
          base \in Bases, garbage \in Garbage :
          invoke_untyped_retype(type, t, offset, length, base, UserSize, garbage)

Spec == Init /\ [][Next]_vars

----------------------------------------------------------------------------
(* Properties *)

\* From a TCB the kernel finds the table that boot gave to the plugin: the address
\* survives the shift and the 47 bits of the capability, for low and high pages.
TableFound ==
    \A t \in Plugin : cTable[t] # 0 => table_of(slot[tcb_slot(t)]) = KernelAddress(cTable[t])

\* The endpoint that send() or receive() of a plugin uses for a capability pointer.
Reaches(t, capptr, address) ==
    \E s \in SlotAt(lookup_slot(t, capptr)) :
        /\ EndpointCap_capType(slot[s]) = CapTag.endpoint
        /\ endpoint_of(slot[s]) = address

\* After boot both plugins reach one and the same endpoint with capability pointer
\* 0, at the address it was allocated at.  insert_new_cap() does not look at what a
\* slot holds, so a retype told to start there replaces it, in one table and not in
\* the other; no other retype does.
SameEndpoint ==
    /\ TableFound
    /\ step = 9 =>
          \A t \in Plugin : \/ <<cTable[t], 0>> \in {m.slot : m \in made}
                            \/ Reaches(t, 0, KernelAddress(endpoint))

\* An endpoint that a retype made is the one its plugin reaches: the capability
\* pointer of the slot leads through the table of the TCB to that slot and no other,
\* and what send() and receive_ipc() make of the capability there is the address of
\* the object, wherever in memory it lies and whatever other retypes wrote since to
\* this table and to the other one.
EndpointsReached ==
    \A m \in made, t \in Plugin :
        m.type = "endpoint" /\ m.slot[1] = cTable[t] =>
            /\ SlotAt(lookup_slot(t, SizeofCte * m.slot[2])) = {m.slot}
            /\ Reaches(t, SizeofCte * m.slot[2], p2v(m.address))
=============================================================================
