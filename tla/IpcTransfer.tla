---------------------------- MODULE IpcTransfer ----------------------------
(***************************************************************************)
(* Messages: what do_ipc_transfer() (kernel/thread.c) and the functions it *)
(* calls move when a receive finds a sender.  The module adds the IPC      *)
(* buffers, the trap frames and the registers to Kernel and gives every    *)
(* step of Kernel its effect on them.                                      *)
(*                                                                         *)
(* send() copies nothing.  The tag is taken from the trap frame of the     *)
(* sender's latest system call and the words from its buffer when somebody *)
(* receives, and until then the sender goes on running.                    *)
(***************************************************************************)
EXTENDS Kernel, CapLayout, Sequences, FiniteSetsExt

CONSTANTS
    Word,               \* contents of a message word
    Os_MsgMaxLength,    \* words in the buffer
    Os_MsgMaxExtraCaps, \* capabilities a message may name
    CPtr,               \* capability pointers a plugin may name, 0 among them
    StrayWords,         \* what may lie where a pointer leads that names no slot
    Tags,               \* tags a plugin may have in rsi
    EndpointPage,       \* where the endpoint lies
    Grants              \* the values capCanGrant of the endpoint may have

\* OsMessageInfo.  The length field has 7 bits and can say more than there are words.
Tag == [length : 0 .. (Os_MsgMaxLength + 1), extraCaps : 0 .. Os_MsgMaxExtraCaps]

ASSUME IpcAssumption == /\ Os_MsgMaxLength \in Nat \ {0}
                        /\ Os_MsgMaxExtraCaps \in Nat
                        /\ Tags \subseteq Tag
                        /\ CPtr \subseteq Nat /\ 0 \in CPtr
                        /\ StrayWords \subseteq [Bits -> {0, 1}] /\ StrayWords # {}
                        /\ EndpointPage \in 0 .. (2^17 - 1)
                        /\ Grants \subseteq BOOLEAN

VARIABLES
    rsi,               \* tf->rsi of each plugin: the tag of its latest system call
    ipcBuffer,         \* the message words at tcbIPCBuffer
    msgInfo,           \* msgInfoRegister in tcbContext
    currentExtraCaps,  \* the capability pointers behind excaprefs, up to the NULL
    canGrant,          \* capCanGrant of the endpoint capability
    sent               \* history: what each plugin sent and nobody received yet

msgVars == <<rsi, ipcBuffer, msgInfo, currentExtraCaps, canGrant, sent>>
allVars == <<vars, msgVars>>

Buffer == [1..Os_MsgMaxLength -> Word]

\* The first system call has not happened: load_plugin() puts an address in rsi,
\* whose upper bits, where length and extraCaps lie, are 0.
NoTag == [length |-> 0, extraCaps |-> 0]

\* Nothing sent that was not received.
Nothing == [pending |-> FALSE, touched |-> FALSE, words |-> <<>>]

\* The endpoint capability boot puts in slot 0 of every plugin.  Bits 5 to 8 are its
\* rights, bit 6 is capCanGrant.
EndpointCap(grant) ==
    ObjectCap("endpoint", IF grant THEN 5..8 ELSE {5, 7, 8}, KernelAddress(EndpointPage))

\* Offsets of the other slots, which are empty.
EmptySlots == {SizeofCte * i : i \in 1 .. (PGSIZE \div SizeofCte) - 1}

\* What a capability pointer may lead to: lookup_slot() adds it to the address of
\* the table without a check, so one that names no slot leads anywhere.
cap_at == [grant \in BOOLEAN |-> [cptr \in CPtr |->
               IF cptr = 0 THEN {EndpointCap(grant)}
               ELSE IF cptr \in EmptySlots THEN {NullCap}
               ELSE StrayWords]]

----------------------------------------------------------------------------
(* The transfer *)

messageinfo_from_u64(tag) == [tag EXCEPT !.length = Min({@, Os_MsgMaxLength})]

\* Mutant: the return register holds one more than the words copied.
copyMRs_OffByOne(sendBuf, recvBuf, n) ==
    [count |-> n + 1,
     buffer |-> [i \in 1..Os_MsgMaxLength |-> IF i <= n THEN sendBuf[i] ELSE recvBuf[i]]]

\* copyMRs has no return statement; the code of the build leaves its counter, the
\* number of words copied, in the return register.
copyMRs(sendBuf, recvBuf, n) ==
    [count |-> n,
     buffer |-> [i \in 1..Os_MsgMaxLength |-> IF i <= n THEN sendBuf[i] ELSE recvBuf[i]]]

\* The possible contents of excaprefs: the status of each look-up is never set, so
\* either all are taken for good or one of them makes the caller drop them all.
lookup_extra_caps(tag) == {<<>>} \cup [1..tag.extraCaps -> CPtr]

\* do_normal_transfer() up to the copy: the test of canGrant.
extra_caps(tag) == IF canGrant THEN {<<>>} ELSE lookup_extra_caps(tag)

\* Where the receiver wants a capability: root, index and depth stand in its buffer.
\* The slot must also be empty; it lies in memory that is not modelled, so it may be.
get_receive_slots(root, index, depth, garbage) ==
    IF garbage # EXCEPTION_NONE
    THEN NoSlot
    ELSE LET lusRet == lookup_slot_for_cnode_op(root, index, depth, garbage)
         IN  IF lusRet.status # EXCEPTION_NONE THEN NoSlot ELSE lusRet.slot

\* The slots it can get, whatever stands there.
ReceiveSlots ==
    [grant \in BOOLEAN |->
        {get_receive_slots(word, index, depth, garbage) :
            word \in UNION {cap_at[grant][root] : root \in CPtr}, index \in CPtr,
            depth \in {0, 1, WordBits, WordBits + 1},
            garbage \in {EXCEPTION_NONE, EXCEPTION_SYSCALL_ERROR}}]

\* A capability to the endpoint of the message: only its badge is transferred.
same_endpoint(word) ==
    /\ EndpointCap_capType(word) = CapTag.endpoint
    /\ capEPPtr(word) = KernelAddress(EndpointPage)

\* The words that may stand where these capability pointers lead.
CapWords(caps) ==
    {words \in [1..Len(caps) -> UNION {cap_at[canGrant][cptr] : cptr \in CPtr}] :
        \A i \in 1..Len(caps) : words[i] \in cap_at[canGrant][caps[i]]}

\* transfer_caps() without a slot to receive in, or with the uninitialised result of
\* deriving a capability taken for an error: the loop stops at the first capability
\* that is not to the same endpoint.
transfer_caps(words) ==
    Min({i \in 0..Len(words) : i = Len(words) \/ ~same_endpoint(words[i + 1])})

----------------------------------------------------------------------------
(* What a plugin does to its message *)

MessageOf(t, tag) == SubSeq(ipcBuffer[t], 1, messageinfo_from_u64(tag).length)

\* The trap of a system call with this tag in rsi.
trap(tag) ==
    /\ rsi' = [rsi EXCEPT ![ksCurThread] = tag]
    /\ UNCHANGED canGrant

\* The history of a system call that neither sends nor receives.
touch(tag) ==
    sent' = [sent EXCEPT ![ksCurThread].touched = @ \/ tag # rsi[ksCurThread]]

IpcInit ==
    /\ Init
    /\ rsi = [t \in Plugin |-> NoTag]
    /\ ipcBuffer \in [Plugin -> {[i \in 1..Os_MsgMaxLength |-> w] : w \in Word}]
    /\ msgInfo = [t \in Plugin |-> NoTag]
    /\ currentExtraCaps = <<>>
    /\ canGrant \in Grants
    /\ sent = [t \in Plugin |-> Nothing]

\* The running plugin writes a message into its buffer, at 0x2000.
user_store(words) ==
    /\ mode = "user"
    /\ ipcBuffer' = [ipcBuffer EXCEPT ![ksCurThread] = words]
    /\ sent' = [sent EXCEPT ![ksCurThread].touched = TRUE]
    /\ UNCHANGED <<vars, rsi, msgInfo, currentExtraCaps, canGrant>>

\* print, test and brk change nothing here but the trap frame.
other_call(tag) ==
    /\ mode = "user"
    /\ trap(tag) /\ touch(tag)
    /\ UNCHANGED <<vars, ipcBuffer, msgInfo, currentExtraCaps>>

exit(tag) ==
    /\ sys_exit
    /\ trap(tag) /\ touch(tag)
    /\ UNCHANGED <<ipcBuffer, msgInfo, currentExtraCaps>>

send(tag) ==
    /\ sys_send
    /\ trap(tag)
    /\ sent' = [sent EXCEPT ![ksCurThread] =
                    [pending |-> TRUE, touched |-> FALSE,
                     words |-> MessageOf(ksCurThread, tag)]]
    /\ UNCHANGED <<ipcBuffer, msgInfo, currentExtraCaps>>

\* Mutant: the tag is the receiver's own.
receive_OwnTag(tag) ==
    /\ sys_receive
    /\ trap(tag)
    /\ LET sender == epq.head
           info == messageinfo_from_u64(rsi'[ksCurThread])
           copy == copyMRs(ipcBuffer[sender], ipcBuffer[ksCurThread], info.length)
       IN  \E caps \in extra_caps(info) : \E words \in CapWords(caps) :
               /\ currentExtraCaps' = caps
               /\ ipcBuffer' = [ipcBuffer EXCEPT ![ksCurThread] = copy.buffer]
               /\ msgInfo' = [msgInfo EXCEPT ![ksCurThread] =
                                  [length |-> copy.count, extraCaps |-> transfer_caps(words)]]
               /\ sent' = [sent EXCEPT ![ksCurThread].touched = TRUE, ![sender] = Nothing]

\* receive_ipc() with a sender: do_ipc_transfer() before the sender is woken.  The
\* receiver is the running plugin, so its own frame is the one of this call.
receive(tag) ==
    /\ sys_receive
    /\ trap(tag)
    /\ LET sender == epq.head
           info == messageinfo_from_u64(rsi'[sender])
           copy == copyMRs(ipcBuffer[sender], ipcBuffer[ksCurThread], info.length)
       IN  \E caps \in extra_caps(info) : \E words \in CapWords(caps) :
               /\ currentExtraCaps' = caps
               /\ ipcBuffer' = [ipcBuffer EXCEPT ![ksCurThread] = copy.buffer]
               /\ msgInfo' = [msgInfo EXCEPT ![ksCurThread] =
                                  [length |-> copy.count, extraCaps |-> transfer_caps(words)]]
               /\ sent' = [sent EXCEPT ![ksCurThread].touched = TRUE, ![sender] = Nothing]

\* A receive whose root leads to a word that reads as a capability to a table: the
\* slot in that table lies wherever the word says, and cte_insert() writes the
\* uninitialised capability there.  Of the rest of that state nothing is said.
transfer_wild(tag) ==
    /\ sys_wild
    /\ ksCurThread \in Receivers
    /\ epq.head # NULL
    /\ ReceiveSlots[canGrant] # {NoSlot}
    /\ trap(tag)
    /\ \E caps \in extra_caps(messageinfo_from_u64(rsi'[epq.head])) :
           caps # <<>> /\ currentExtraCaps' = caps
    /\ UNCHANGED <<ipcBuffer, msgInfo, sent>>

\* The other steps that end in panic() or on a wild pointer.
stop(tag) ==
    /\ sys_receive_none \/ sys_wild \/ sys_panic
    /\ trap(tag)
    /\ UNCHANGED <<ipcBuffer, msgInfo, currentExtraCaps, sent>>

\* Boot, the loop of main(), and nothing.
kernel_step ==
    /\ \/ \E t \in Plugin : ipc_test(t) \/ load_plugin(t)
       \/ enter_loop
       \/ schedule_idle
       \/ schedule_user
       \/ schedule_return
       \/ halted
    /\ UNCHANGED msgVars

IpcNext ==
    \/ \E words \in Buffer : user_store(words)
    \/ \E tag \in Tags : \/ other_call(tag)
                         \/ exit(tag)
                         \/ send(tag)
                         \/ receive(tag)
                         \/ transfer_wild(tag)
                         \/ stop(tag)
    \/ kernel_step

IpcSpec == IpcInit /\ [][IpcNext]_allVars

----------------------------------------------------------------------------
(* Properties *)

\* The tag a receiver gets never says more words than the buffer has.
IpcTypeOK ==
    /\ rsi \in [Plugin -> Tag]
    /\ ipcBuffer \in [Plugin -> Buffer]
    /\ msgInfo \in [Plugin -> [length : 0..Os_MsgMaxLength,
                               extraCaps : 0..Os_MsgMaxExtraCaps]]
    /\ Len(currentExtraCaps) <= Os_MsgMaxExtraCaps
    /\ canGrant \in BOOLEAN
    /\ \A t \in Plugin : sent[t].words \in UNION {[1..n -> Word] : n \in 0..Os_MsgMaxLength}

\* A receive delivers the words and the length of the sender's latest send,
\* although they are fetched only now, provided the sender itself has not changed
\* its buffer or made a system call with another tag since (it can, because send()
\* does not stop it): nothing that other plugins do in between, their sends and
\* receives included, alters a message.
MessageIntact ==
    [][\A t \in Plugin :
           sent[t].pending /\ ~sent'[t].pending
               => \/ sent[t].touched
                  \/ t = ksCurThread
                  \/ /\ msgInfo'[ksCurThread].length = Len(sent[t].words)
                     /\ SubSeq(ipcBuffer'[ksCurThread], 1, Len(sent[t].words))
                            = sent[t].words]_allVars

\* Each send is received at most once: the sender a receive finds in the endpoint
\* has sent since it was last received from.
ReceivedOnce ==
    epq.head # NULL => sent[epq.head].pending
=============================================================================
