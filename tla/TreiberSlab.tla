---- MODULE TreiberSlab ----
(***************************************************************************)
(* The lock-free slab of slots (rust/shm-primitives/src/treiber.rs) as the *)
(* data segment of a shared-memory pair uses it                            *)
(* (rust/rapace-core/src/transport/shm/layout.rs): senders allocate a      *)
(* slot, fill it, mark it in flight and enqueue its handle, or change      *)
(* their mind and free it; receivers dequeue a handle, read the slot and   *)
(* free it.  One step per access to shared memory.  The link of the free   *)
(* list lives in the first bytes of the slot itself, where the payload     *)
(* goes once the slot is allocated, so a slow allocator may load payload   *)
(* bytes as a link: both are the same numbers here.  The descriptor ring   *)
(* of a link is the bounded queue that SpscRing implements.                *)
(***************************************************************************)
EXTENDS Naturals, Sequences, FiniteSets

CONSTANTS SlotCount,     \* slots of the segment
          LinkCount,     \* pairs of a sender and a receiver
          Quota,         \* allocations of one sender
          RingCapacity   \* entries of the ring of a link

ASSUME SlabAssumption ==
    /\ SlotCount \in Nat \ {0}
    /\ LinkCount \in Nat \ {0}
    /\ Quota \in Nat
    /\ RingCapacity \in Nat \ {0}

FREE_LIST_END == SlotCount
Slots == 0 .. SlotCount - 1
Links == 1 .. LinkCount
Threads == {"sender", "receiver"} \X Links
Role(t) == t[1]
Link(t) == t[2]
NoHandle == [index |-> FREE_LIST_END, generation |-> 0]

VARIABLES
    free_head,   \* [index, tag], packed into one word
    state,       \* [Slots -> {"Free", "Allocated", "InFlight"}]
    generation,  \* [Slots -> Nat]
    memory,      \* [Slots -> what its first bytes hold: link or payload]
    ring,        \* [Links -> the handles on their way]
    pc,          \* [Threads -> where it is]
    old_head,    \* [Threads -> the head it loaded]
    next,        \* [Threads -> the link it loaded]
    handle,      \* [Threads -> the slot in its hands]
    begun,       \* [Links -> allocations its sender began]
    sent,        \* [Links -> the payloads it enqueued]
    read         \* [Links -> the payloads its receiver read]

locals == <<old_head, next>>
vars == <<free_head, state, generation, memory, ring, pc, old_head, next,
          handle, begun, sent, read>>

(* init_free_list *)
Init ==
    /\ free_head = [index |-> 0, tag |-> 0]
    /\ state = [s \in Slots |-> "Free"]
    /\ generation = [s \in Slots |-> 0]
    /\ memory = [s \in Slots |-> s + 1]
    /\ ring = [l \in Links |-> <<>>]
    /\ pc = [t \in Threads |-> "idle"]
    /\ old_head = [t \in Threads |-> free_head]
    /\ next = [t \in Threads |-> FREE_LIST_END]
    /\ handle = [t \in Threads |-> NoHandle]
    /\ begun = [l \in Links |-> 0]
    /\ sent = [l \in Links |-> <<>>]
    /\ read = [l \in Links |-> <<>>]

Goto(t, where) == pc' = [pc EXCEPT ![t] = where]

(* An operation returned an error, or an assertion of it failed.             *)
Fail(t) == Goto(t, "failed")

-----------------------------------------------------------------------------
(* try_alloc *)

AllocLoadHead(t) ==
    /\ \/ pc[t] = "idle" /\ Role(t) = "sender" /\ begun[Link(t)] < Quota
          /\ begun' = [begun EXCEPT ![Link(t)] = @ + 1]
       \/ pc[t] = "retry" /\ UNCHANGED begun
    /\ old_head' = [old_head EXCEPT ![t] = free_head]
    /\ Goto(t, IF free_head.index = FREE_LIST_END THEN "retry" ELSE "alloc_next")
    /\ UNCHANGED <<free_head, state, generation, memory, ring, next, handle,
                   sent, read>>

AllocLoadNext(t) ==
    /\ pc[t] = "alloc_next"
    /\ next' = [next EXCEPT ![t] = memory[old_head[t].index]]
    /\ Goto(t, "alloc_cas")
    /\ UNCHANGED <<free_head, state, generation, memory, ring, old_head, handle,
                   begun, sent, read>>

(* compare_exchange_weak may fail for no reason.                             *)
CasFails(t, where) ==
    /\ Goto(t, where)
    /\ UNCHANGED <<free_head, handle>>

AllocCas(t) ==
    /\ pc[t] = "alloc_cas"
    /\ \/ /\ free_head = old_head[t]
          /\ free_head' = [index |-> next[t], tag |-> old_head[t].tag + 1]
          /\ handle' = [handle EXCEPT ![t].index = old_head[t].index]
          /\ Goto(t, "alloc_state")
       \/ CasFails(t, "retry")
    /\ UNCHANGED <<state, generation, memory, ring, locals, begun, sent, read>>

AllocSetState(t) ==
    LET s == handle[t].index IN
    /\ pc[t] = "alloc_state"
    /\ IF state[s] = "Free"
       THEN /\ state' = [state EXCEPT ![s] = "Allocated"]
            /\ Goto(t, "alloc_generation")
       ELSE Fail(t) /\ UNCHANGED state
    /\ UNCHANGED <<free_head, generation, memory, ring, locals, handle, begun,
                   sent, read>>

(* Mutant: the handle takes the generation before the addition.              *)
AllocBumpGenerationOld(t) ==
    LET s == handle[t].index IN
    /\ pc[t] = "alloc_generation"
    /\ generation' = [generation EXCEPT ![s] = @ + 1]
    /\ handle' = [handle EXCEPT ![t].generation = generation[s]]
    /\ Goto(t, "copy")
    /\ UNCHANGED <<free_head, state, memory, ring, locals, begun, sent, read>>

AllocBumpGeneration(t) ==
    LET s == handle[t].index IN
    /\ pc[t] = "alloc_generation"
    /\ generation' = [generation EXCEPT ![s] = @ + 1]
    /\ handle' = [handle EXCEPT ![t].generation = generation[s] + 1]
    /\ Goto(t, "copy")
    /\ UNCHANGED <<free_head, state, memory, ring, locals, begun, sent, read>>

-----------------------------------------------------------------------------
(* The sender *)

(* The payload of an allocation, unlike every link and other payload.        *)
Payload(l) == FREE_LIST_END + begun[l] * LinkCount + l

(* Mutant: the error of a copy that does not fit is not looked at.           *)
CopyToSlotUnchecked(t) ==
    /\ pc[t] = "copy"
    /\ memory' \in {memory, [memory EXCEPT ![handle[t].index] = Payload(Link(t))]}
    /\ Goto(t, "mark_generation") \/ Goto(t, "free_generation")
    /\ UNCHANGED <<free_head, state, generation, ring, locals, handle, begun,
                   sent, read>>

(* copy_to_slot; then the sender goes on, or drops the slot.                 *)
CopyToSlot(t) ==
    /\ pc[t] = "copy"
    /\ memory' = [memory EXCEPT ![handle[t].index] = Payload(Link(t))]
    /\ Goto(t, "mark_generation") \/ Goto(t, "free_generation")
    /\ UNCHANGED <<free_head, state, generation, ring, locals, handle, begun,
                   sent, read>>

(* mark_in_flight *)
MarkCheckGeneration(t) ==
    /\ pc[t] = "mark_generation"
    /\ IF generation[handle[t].index] = handle[t].generation
       THEN Goto(t, "mark_state") ELSE Fail(t)
    /\ UNCHANGED <<free_head, state, generation, memory, ring, locals, handle,
                   begun, sent, read>>

MarkSetState(t) ==
    LET s == handle[t].index IN
    /\ pc[t] = "mark_state"
    /\ IF state[s] = "Allocated"
       THEN state' = [state EXCEPT ![s] = "InFlight"] /\ Goto(t, "enqueue")
       ELSE Fail(t) /\ UNCHANGED state
    /\ UNCHANGED <<free_head, generation, memory, ring, locals, handle, begun,
                   sent, read>>

(* The sender tries again while the ring is full.                            *)
Enqueue(t) ==
    LET l == Link(t) IN
    /\ pc[t] = "enqueue" /\ Len(ring[l]) < RingCapacity
    /\ ring' = [ring EXCEPT ![l] = Append(@, handle[t])]
    /\ sent' = [sent EXCEPT ![l] = Append(@, Payload(l))]
    /\ handle' = [handle EXCEPT ![t] = NoHandle]
    /\ Goto(t, "idle")
    /\ UNCHANGED <<free_head, state, generation, memory, locals, begun, read>>

-----------------------------------------------------------------------------
(* The receiver *)

Dequeue(t) ==
    LET l == Link(t) IN
    /\ pc[t] = "idle" /\ Role(t) = "receiver" /\ ring[l] # <<>>
    /\ handle' = [handle EXCEPT ![t] = Head(ring[l])]
    /\ ring' = [ring EXCEPT ![l] = Tail(@)]
    /\ Goto(t, "read_generation")
    /\ UNCHANGED <<free_head, state, generation, memory, locals, begun, sent, read>>

(* read_slot *)
ReadCheckGeneration(t) ==
    /\ pc[t] = "read_generation"
    /\ IF generation[handle[t].index] = handle[t].generation
       THEN Goto(t, "read_state") ELSE Fail(t)
    /\ UNCHANGED <<free_head, state, generation, memory, ring, locals, handle,
                   begun, sent, read>>

ReadCheckState(t) ==
    /\ pc[t] = "read_state"
    /\ IF state[handle[t].index] = "InFlight"
       THEN Goto(t, "read_payload") ELSE Fail(t)
    /\ UNCHANGED <<free_head, state, generation, memory, ring, locals, handle,
                   begun, sent, read>>

ReadPayload(t) ==
    /\ pc[t] = "read_payload"
    /\ read' = [read EXCEPT ![Link(t)] = Append(@, memory[handle[t].index])]
    /\ Goto(t, "free_generation")
    /\ UNCHANGED <<free_head, state, generation, memory, ring, locals, handle,
                   begun, sent>>

-----------------------------------------------------------------------------
(* free, of a slot in flight, and free_allocated, of one that was not sent   *)

FreeCheckGeneration(t) ==
    /\ pc[t] = "free_generation"
    /\ IF generation[handle[t].index] = handle[t].generation
       THEN Goto(t, "free_state") ELSE Fail(t)
    /\ UNCHANGED <<free_head, state, generation, memory, ring, locals, handle,
                   begun, sent, read>>

FreeSetState(t) ==
    LET s == handle[t].index
        expected == IF Role(t) = "sender" THEN "Allocated" ELSE "InFlight" IN
    /\ pc[t] = "free_state"
    /\ IF state[s] = expected
       THEN state' = [state EXCEPT ![s] = "Free"] /\ Goto(t, "push_load")
       ELSE Fail(t) /\ UNCHANGED state
    /\ UNCHANGED <<free_head, generation, memory, ring, locals, handle, begun,
                   sent, read>>

(* push_to_free_list *)
PushLoadHead(t) ==
    /\ pc[t] = "push_load"
    /\ old_head' = [old_head EXCEPT ![t] = free_head]
    /\ Goto(t, "push_link")
    /\ UNCHANGED <<free_head, state, generation, memory, ring, next, handle,
                   begun, sent, read>>

(* Mutant: the link is written when the head is loaded first, and not again. *)
PushLinkOnce(t) ==
    LET s == handle[t].index IN
    /\ pc[t] = "push_link"
    /\ memory' = IF memory[s] \in 0 .. FREE_LIST_END THEN memory
                 ELSE [memory EXCEPT ![s] = old_head[t].index]
    /\ Goto(t, "push_cas")
    /\ UNCHANGED <<free_head, state, generation, ring, locals, handle, begun,
                   sent, read>>

PushLink(t) ==
    /\ pc[t] = "push_link"
    /\ memory' = [memory EXCEPT ![handle[t].index] = old_head[t].index]
    /\ Goto(t, "push_cas")
    /\ UNCHANGED <<free_head, state, generation, ring, locals, handle, begun,
                   sent, read>>

PushCas(t) ==
    /\ pc[t] = "push_cas"
    /\ \/ /\ free_head = old_head[t]
          /\ free_head' = [index |-> handle[t].index, tag |-> old_head[t].tag + 1]
          /\ handle' = [handle EXCEPT ![t] = NoHandle]
          /\ Goto(t, "idle")
       \/ CasFails(t, "push_load")
    /\ UNCHANGED <<state, generation, memory, ring, locals, begun, sent, read>>

-----------------------------------------------------------------------------
TryAlloc(t) ==
    \/ AllocLoadHead(t) \/ AllocLoadNext(t) \/ AllocCas(t)
    \/ AllocSetState(t) \/ AllocBumpGeneration(t)
MarkInFlight(t) == MarkCheckGeneration(t) \/ MarkSetState(t)
ReadSlot(t) == ReadCheckGeneration(t) \/ ReadCheckState(t) \/ ReadPayload(t)
PushToFreeList(t) == PushLoadHead(t) \/ PushLink(t) \/ PushCas(t)
Free(t) == FreeCheckGeneration(t) \/ FreeSetState(t) \/ PushToFreeList(t)

Step(t) ==
    \/ TryAlloc(t) \/ CopyToSlot(t) \/ MarkInFlight(t) \/ Enqueue(t)
    \/ Dequeue(t) \/ ReadSlot(t) \/ Free(t)

Finished ==
    /\ \A t \in Threads : pc[t] = "idle"
    /\ \A l \in Links : begun[l] = Quota /\ ring[l] = <<>>
    /\ UNCHANGED vars

Next == (\E t \in Threads : Step(t)) \/ Finished

Spec == Init /\ [][Next]_vars

-----------------------------------------------------------------------------
TypeOK ==
    /\ free_head \in [index : 0 .. FREE_LIST_END, tag : Nat]
    /\ state \in [Slots -> {"Free", "Allocated", "InFlight"}]
    /\ generation \in [Slots -> Nat]
    /\ memory \in [Slots -> Nat]
    /\ ring \in [Links -> Seq([index : Slots, generation : Nat])]
    /\ \A l \in Links : Len(ring[l]) <= RingCapacity
    /\ pc \in [Threads -> {"idle", "retry", "alloc_next", "alloc_cas", "alloc_state",
                           "alloc_generation", "copy", "mark_generation", "mark_state",
                           "enqueue", "read_generation", "read_state", "read_payload",
                           "free_generation", "free_state", "push_load", "push_link",
                           "push_cas", "failed"}]
    /\ old_head \in [Threads -> [index : 0 .. FREE_LIST_END, tag : Nat]]
    /\ next \in [Threads -> Nat]
    /\ handle \in [Threads -> [index : 0 .. FREE_LIST_END, generation : Nat]]
    /\ begun \in [Links -> 0 .. Quota]
    /\ sent \in [Links -> Seq(Nat)] /\ read \in [Links -> Seq(Nat)]

(* The free list: what a walk from the head meets, before it ends.           *)
Walk == LET walk[n \in 0 .. SlotCount] ==
              IF n = 0 THEN free_head.index
              ELSE IF walk[n - 1] \in Slots THEN memory[walk[n - 1]] ELSE FREE_LIST_END
        IN walk
OnFreeList(s) == Cardinality({n \in 0 .. SlotCount : Walk[n] = s})

(* Every slot is in exactly one place: once on the free list, in the hands   *)
(* of one thread, or once on a ring; and its state agrees with that place.   *)
(* So no slot is allocated twice, none is lost, and the list has no cycle,   *)
(* whatever pops and pushes overlap (treiber_no_double_alloc and             *)
(* treiber_aba_stress of loom_tests.rs try two threads).                     *)
InHands(s) == {t \in Threads : handle[t].index = s}
OnRing(s) == {p \in Links \X (1 .. RingCapacity) :
                p[2] <= Len(ring[p[1]]) /\ ring[p[1]][p[2]].index = s}
SlotsAccounted ==
    \A s \in Slots :
        /\ OnFreeList(s) + Cardinality(InHands(s)) + Cardinality(OnRing(s)) = 1
        /\ OnFreeList(s) = 1 => state[s] = "Free"
        /\ OnRing(s) # {} => state[s] = "InFlight"

(* No operation of an owner is refused: the generation and the state it      *)
(* finds are the ones it left, as the .expect() of the tests in layout.rs    *)
(* (993, 1057, 1084) suppose.                                                *)
OwnersAreNotRefused == \A t \in Threads : pc[t] # "failed"

(* Whoever owns a slot owns it alone and stays its owner: no slot is in two  *)
(* places and none is taken from, or refused to, the one that holds it.      *)
OwnershipExact == SlotsAccounted /\ OwnersAreNotRefused

(* What a receiver reads are the payloads sent to it, whole and in order,    *)
(* although links of the free list are written to the same bytes.            *)
PayloadsArriveIntact ==
    \A l \in Links : Len(read[l]) <= Len(sent[l])
                     /\ read[l] = SubSeq(sent[l], 1, Len(read[l]))
====
