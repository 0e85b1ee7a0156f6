---- MODULE ShmPrimitivesProofs ----
(***************************************************************************)
(* Proofs about the two data structures of the shm-primitives crate: of    *)
(* the slab (TreiberSlab), its types, the ownership of its slots and the   *)
(* payloads in them; of the ring (SpscRing), its types, the absence of     *)
(* torn reads and the refinement of BoundedQueue.  For every number of     *)
(* slots, links and allocations, every capacity and every set of values.   *)
(***************************************************************************)
EXTENDS TreiberSlab, SpscRing, TLAPS, SequenceTheorems, FiniteSetTheorems

USE DEF locals

-----------------------------------------------------------------------------
(* The inductive invariant of the slab *)

\* The steps at which a thread has a slot in its hands.
FreeSteps == {"alloc_state", "push_load", "push_link", "push_cas"}
SendSteps == {"alloc_generation", "copy", "mark_generation", "mark_state"}
FlightSteps == {"enqueue", "read_generation", "read_state", "read_payload"}
DropSteps == {"free_generation", "free_state"}
HoldSteps == FreeSteps \cup SendSteps \cup FlightSteps \cup DropSteps
Holds(t) == pc[t] \in HoldSteps

\* The state of the slot it holds, and when it knows the generation of it.
StateAt(t) ==
    IF pc[t] \in FreeSteps THEN "Free"
    ELSE IF pc[t] \in FlightSteps \/ (pc[t] \in DropSteps /\ Role(t) = "receiver")
         THEN "InFlight" ELSE "Allocated"
KnowsGeneration(t) == Holds(t) /\ pc[t] \notin FreeSteps \cup {"alloc_generation"}

SenderSteps == {"idle", "retry", "alloc_next", "alloc_cas"} \cup SendSteps \cup {"enqueue"}
               \cup DropSteps \cup FreeSteps
ReceiverSteps == {"idle", "read_generation", "read_state", "read_payload"} \cup DropSteps
                 \cup {"push_load", "push_link", "push_cas"}

\* What a thread holds is as it left it; no step of it was refused.
HandOf(t) ==
    /\ pc[t] \in IF Role(t) = "sender" THEN SenderSteps ELSE ReceiverSteps
    /\ IF Holds(t)
       THEN /\ handle[t].index \in Slots
            /\ state[handle[t].index] = StateAt(t)
            /\ KnowsGeneration(t) => generation[handle[t].index] = handle[t].generation
       ELSE handle[t] = NoHandle
Hands == \A t \in Threads : HandOf(t)

\* The handle of a ring names a slot in flight, by its generation.
Rings == \A l \in Links : \A i \in DOMAIN ring[l] :
            /\ state[ring[l][i].index] = "InFlight"
            /\ generation[ring[l][i].index] = ring[l][i].generation

\* No slot is held twice, or on a ring twice, or both.
Exclusive ==
    /\ \A t, u \in Threads : Holds(t) /\ Holds(u) /\ handle[t].index = handle[u].index => t = u
    /\ \A t \in Threads, l \in Links : \A i \in DOMAIN ring[l] :
         Holds(t) => ring[l][i].index # handle[t].index
    /\ \A l, m \in Links : \A i \in DOMAIN ring[l], j \in DOMAIN ring[m] :
         ring[l][i].index = ring[m][j].index => l = m /\ i = j

\* A head that was loaded is older than the head, or it is the head and the link
\* that was loaded with it is the one that is there: the tag sees to that.
HeadOf(t) ==
    /\ old_head[t].tag <= free_head.tag
    /\ pc[t] \in {"alloc_next", "alloc_cas"} => old_head[t].index \in Slots
    /\ pc[t] = "alloc_cas" /\ old_head[t] = free_head => next[t] = memory[free_head.index]
    /\ pc[t] = "push_cas" => memory[handle[t].index] = old_head[t].index
Heads == \A t \in Threads : HeadOf(t)

\* From the head, the links spell out list, of free slots that nobody holds; and
\* a slot is listed, held or on a ring.
ItemOrEnd(list, i) == IF i \in DOMAIN list THEN list[i] ELSE FREE_LIST_END
Listed(list, s) == \E i \in DOMAIN list : list[i] = s
Held(s) == \E t \in Threads : Holds(t) /\ handle[t].index = s
OnItsWay(s) == \E l \in Links : \E i \in DOMAIN ring[l] : ring[l][i].index = s
Chained(list) ==
    /\ free_head.index = ItemOrEnd(list, 1)
    /\ \A i \in DOMAIN list : memory[list[i]] = ItemOrEnd(list, i + 1)
    /\ \A i, j \in DOMAIN list : list[i] = list[j] => i = j
    /\ \A i \in DOMAIN list : state[list[i]] = "Free" /\ ~Held(list[i])
    /\ \A s \in Slots : Listed(list, s) \/ Held(s) \/ OnItsWay(s)

SlabInv == TypeOK /\ Hands /\ Rings /\ Exclusive /\ Heads
           /\ \E list \in Seq(Slots) : Chained(list)

-----------------------------------------------------------------------------
(* Steps that move no slot *)

\* The step of t changes nothing of the others, and what it writes is in its hands.
Quiet(t) ==
    /\ \A u \in Threads \ {t} : /\ pc'[u] = pc[u] /\ handle'[u] = handle[u]
                                /\ old_head'[u] = old_head[u] /\ next'[u] = next[u]
    /\ free_head' = free_head /\ ring' = ring
    /\ Holds(t)' <=> Holds(t)
    /\ Holds(t) => handle'[t].index = handle[t].index
    /\ \A s \in Slots : ~(Holds(t) /\ handle[t].index = s)
                          => /\ state'[s] = state[s] /\ generation'[s] = generation[s]
                             /\ memory'[s] = memory[s]

\* The handles of a ring are handles of slots, at the positions up to its length.
LEMMA LinkTypes ==
  ASSUME TypeOK
  PROVE  /\ \A l \in Links : DOMAIN ring[l] = 1 .. Len(ring[l]) /\ Len(ring[l]) \in Nat
         /\ \A l \in Links : \A i \in DOMAIN ring[l] :
              /\ ring[l][i] \in [index : Slots, generation : Nat]
              /\ ring[l][i].index \in Slots
         /\ FREE_LIST_END \notin Slots /\ FREE_LIST_END \in Nat
<1>1. ASSUME NEW l \in Links
      PROVE  ring[l] \in Seq([index : Slots, generation : Nat])
  BY DEF TypeOK
<1>2. ASSUME NEW l \in Links
      PROVE  DOMAIN ring[l] = 1 .. Len(ring[l]) /\ Len(ring[l]) \in Nat
  BY <1>1, LenProperties
<1>3. ASSUME NEW l \in Links, NEW i \in DOMAIN ring[l]
      PROVE  ring[l][i] \in [index : Slots, generation : Nat]
  BY <1>1, <1>2, ElementOfSeq
<1> QED
  BY <1>2, <1>3, SlabAssumption DEF FREE_LIST_END, Slots

\* A quiet step leaves the rings, and who holds what, as they are.
LEMMA QuietRest ==
  ASSUME TypeOK, Hands, Rings, Exclusive, NEW t \in Threads, Quiet(t)
  PROVE  Rings' /\ Exclusive'
<1>1. \A u \in Threads : (Holds(u)' <=> Holds(u)) /\ (Holds(u) => handle'[u].index = handle[u].index)
  BY DEF Quiet, Holds
<1>2. Exclusive'
  BY <1>1 DEF Exclusive, Quiet
<1>3. \A l \in Links : \A i \in DOMAIN ring[l] : ~(Holds(t) /\ handle[t].index = ring[l][i].index)
  BY DEF Exclusive
<1>4. Rings'
  BY <1>3, LinkTypes DEF Rings, Quiet
<1> QED
  BY <1>2, <1>4

\* A quiet step leaves the chain of the free list as it is.
LEMMA QuietChain ==
  ASSUME TypeOK, NEW list \in Seq(Slots), Chained(list), NEW t \in Threads, Quiet(t)
  PROVE  Chained(list)'
<1>1. \A u \in Threads : (Holds(u)' <=> Holds(u)) /\ (Holds(u) => handle'[u].index = handle[u].index)
  BY DEF Quiet, Holds
<1>2. \A s : (Held(s)' <=> Held(s)) /\ (OnItsWay(s)' <=> OnItsWay(s))
  BY <1>1 DEF Held, OnItsWay, Quiet
<1>3. \A i \in DOMAIN list : list[i] \in Slots
  BY LenProperties, ElementOfSeq
<1>4. \A i \in DOMAIN list : state'[list[i]] = state[list[i]] /\ memory'[list[i]] = memory[list[i]]
  BY <1>3 DEF Quiet, Chained, Held
<1> QED
  BY <1>2, <1>4 DEF Chained, Quiet, Listed, ItemOrEnd

\* A quiet step of t spoils nothing that another thread relies on.
LEMMA QuietOthers ==
  ASSUME TypeOK, Hands, Heads, Exclusive, NEW list \in Seq(Slots), Chained(list),
         NEW t \in Threads, Quiet(t), NEW u \in Threads \ {t}
  PROVE  HandOf(u)' /\ HeadOf(u)'
<1>1. HandOf(u) /\ HeadOf(u)
  BY DEF Hands, Heads
<1>2. Holds(u) => ~(Holds(t) /\ handle[t].index = handle[u].index) /\ handle[u].index \in Slots
  BY <1>1 DEF Exclusive, HandOf
<1>3. pc'[u] = pc[u] /\ handle'[u] = handle[u] /\ old_head'[u] = old_head[u] /\ next'[u] = next[u]
  BY DEF Quiet
<1>4. Holds(u)' <=> Holds(u)
  BY <1>3 DEF Holds
<1>5. Holds(u) => /\ state'[handle[u].index] = state[handle[u].index]
                  /\ generation'[handle[u].index] = generation[handle[u].index]
                  /\ memory'[handle[u].index] = memory[handle[u].index]
  BY <1>2 DEF Quiet
<1>6. StateAt(u)' = StateAt(u) /\ (KnowsGeneration(u)' <=> KnowsGeneration(u))
  BY <1>3, <1>4 DEF StateAt, KnowsGeneration
<1>7. HandOf(u)'
  BY <1>1, <1>3, <1>4, <1>5, <1>6 DEF HandOf
<1>8. ASSUME pc[u] = "alloc_cas", old_head[u] = free_head
      PROVE  memory'[free_head.index] = memory[free_head.index]
  <2>1. free_head.index \in Slots
    BY <1>1, <1>8 DEF HeadOf
  <2>2. 1 \in DOMAIN list /\ free_head.index = list[1]
    BY <2>1, LinkTypes DEF Chained, ItemOrEnd
  <2>3. ~Held(free_head.index)
    BY <2>2 DEF Chained
  <2> QED
    BY <2>1, <2>3 DEF Held, Quiet
<1>9. pc[u] = "push_cas" => Holds(u)
  BY DEF Holds, HoldSteps, FreeSteps
<1>10. HeadOf(u)'
  <2>1. free_head' = free_head
    BY DEF Quiet
  <2> QED
    BY <1>1, <1>3, <1>5, <1>8, <1>9, <2>1 DEF HeadOf
<1> QED
  BY <1>7, <1>10

-----------------------------------------------------------------------------
(* The steps of a thread *)
QuietStep(t) ==
    \/ AllocLoadHead(t) \/ AllocLoadNext(t) \/ AllocSetState(t) \/ AllocBumpGeneration(t)
    \/ CopyToSlot(t) \/ MarkInFlight(t) \/ ReadSlot(t)
    \/ FreeCheckGeneration(t) \/ FreeSetState(t) \/ PushLoadHead(t) \/ PushLink(t)
    \/ AllocCas(t) /\ free_head' = free_head
    \/ PushCas(t) /\ free_head' = free_head
MoveStep(t) ==
    \/ AllocCas(t) /\ free_head' # free_head
    \/ PushCas(t) /\ free_head' # free_head
    \/ Enqueue(t) \/ Dequeue(t)

\* A step is a quiet one, or it moves a slot: a compare-and-swap that succeeds,
\* an enqueue or a dequeue.
LEMMA Steps == \A t \in Threads : Step(t) <=> QuietStep(t) \/ MoveStep(t)
BY DEF Step, TryAlloc, Free, PushToFreeList, QuietStep, MoveStep

\* A compare-and-swap that leaves the head alone has failed: the tag would differ.
LEMMA CasKeepsHead ==
  ASSUME TypeOK, NEW t \in Threads
  PROVE  /\ AllocCas(t) /\ free_head' = free_head => CasFails(t, "retry")
         /\ PushCas(t) /\ free_head' = free_head => CasFails(t, "push_load")
         /\ AllocCas(t) /\ free_head' # free_head => free_head = old_head[t]
         /\ PushCas(t) /\ free_head' # free_head => free_head = old_head[t]
<1>1. free_head.tag \in Nat
  BY DEF TypeOK
<1> QED
  BY <1>1 DEF AllocCas, PushCas, CasFails

\* A thread is a sender or a receiver of its link.
LEMMA Roles ==
  /\ \A t \in Threads : Role(t) \in {"sender", "receiver"} /\ Link(t) \in Links
                       /\ t = <<Role(t), Link(t)>>
  /\ \A l \in Links : /\ <<"sender", l>> \in Threads /\ <<"receiver", l>> \in Threads
                       /\ Role(<<"sender", l>>) = "sender" /\ Role(<<"receiver", l>>) = "receiver"
                       /\ Link(<<"sender", l>>) = l /\ Link(<<"receiver", l>>) = l
BY DEF Threads, Role, Link

\* Every quiet step is quiet: what it writes is in the hands of its thread.
LEMMA QuietSteps ==
  ASSUME TypeOK, Hands, NEW t \in Threads, QuietStep(t)
  PROVE  Quiet(t)
<1> USE DEF Quiet, Holds, HoldSteps, FreeSteps, SendSteps, FlightSteps, DropSteps, Goto, Fail, TypeOK
<1>1. HandOf(t)
  BY DEF Hands
<1> USE DEF HandOf, SenderSteps, ReceiverSteps
<1>2. CASE AllocLoadHead(t) \/ AllocLoadNext(t)
  BY <1>2 DEF AllocLoadHead, AllocLoadNext
<1>3. CASE AllocSetState(t)
  BY <1>1, <1>3 DEF AllocSetState, StateAt
<1>4. CASE AllocBumpGeneration(t)
  BY <1>1, <1>4 DEF AllocBumpGeneration
<1>5. CASE CopyToSlot(t)
  BY <1>5 DEF CopyToSlot
<1>6. CASE MarkInFlight(t)
  BY <1>1, <1>6 DEF MarkInFlight, MarkCheckGeneration, MarkSetState, KnowsGeneration, StateAt
<1>7. CASE ReadSlot(t)
  <2>1. CASE ReadCheckGeneration(t)
    BY <1>1, <2>1 DEF ReadCheckGeneration, KnowsGeneration
  <2>2. CASE ReadCheckState(t)
    BY <1>1, <2>2 DEF ReadCheckState, StateAt
  <2>3. CASE ReadPayload(t)
    BY <2>3 DEF ReadPayload
  <2> QED
    BY <1>7, <2>1, <2>2, <2>3 DEF ReadSlot
<1>8. CASE FreeCheckGeneration(t) \/ FreeSetState(t)
  <2>1. CASE FreeCheckGeneration(t)
    BY <1>1, <2>1 DEF FreeCheckGeneration, KnowsGeneration
  <2>2. CASE FreeSetState(t)
    BY <1>1, <2>2, Roles DEF FreeSetState, StateAt
  <2> QED
    BY <1>8, <2>1, <2>2
<1>9. CASE PushLoadHead(t) \/ PushLink(t)
  BY <1>9 DEF PushLoadHead, PushLink
<1>10. CASE AllocCas(t) /\ free_head' = free_head
  <2>1. CasFails(t, "retry")
    BY <1>10, CasKeepsHead
  <2> QED
    BY <1>10, <2>1 DEF AllocCas, CasFails
<1>11. CASE PushCas(t) /\ free_head' = free_head
  <2>1. CasFails(t, "push_load")
    BY <1>11, CasKeepsHead
  <2> QED
    BY <1>11, <2>1 DEF PushCas, CasFails
<1> QED
  BY <1>2, <1>3, <1>4, <1>5, <1>6, <1>7, <1>8, <1>9, <1>10, <1>11 DEF QuietStep

\* After a quiet step its thread still has in its hands what it should.
LEMMA QuietOwn ==
  ASSUME TypeOK, Hands, Heads, NEW t \in Threads, QuietStep(t)
  PROVE  HandOf(t)' /\ HeadOf(t)'
<1> USE DEF Holds, HoldSteps, FreeSteps, SendSteps, FlightSteps, DropSteps, Goto, Fail, TypeOK
<1>1. HandOf(t) /\ HeadOf(t)
  BY DEF Hands, Heads
<1> USE DEF HandOf, HeadOf, SenderSteps, ReceiverSteps, StateAt, KnowsGeneration
<1>2. CASE AllocLoadHead(t)
  <2>1. free_head.index # FREE_LIST_END => free_head.index \in Slots
    BY SlabAssumption DEF Slots, FREE_LIST_END
  <2> QED
    BY <1>1, <1>2, <2>1 DEF AllocLoadHead
<1>20. CASE AllocLoadNext(t)
  BY <1>1, <1>20 DEF AllocLoadNext
<1>3. CASE AllocSetState(t)
  BY <1>1, <1>3 DEF AllocSetState
<1>4. CASE AllocBumpGeneration(t)
  BY <1>1, <1>4 DEF AllocBumpGeneration
<1>5. CASE CopyToSlot(t)
  BY <1>1, <1>5 DEF CopyToSlot
<1>6. CASE MarkInFlight(t)
  <2>1. CASE MarkCheckGeneration(t)
    BY <1>1, <2>1 DEF MarkCheckGeneration
  <2>2. CASE MarkSetState(t)
    BY <1>1, <2>2 DEF MarkSetState
  <2> QED
    BY <1>6, <2>1, <2>2 DEF MarkInFlight
<1>7. CASE ReadSlot(t)
  <2>1. CASE ReadCheckGeneration(t)
    BY <1>1, <2>1 DEF ReadCheckGeneration
  <2>2. CASE ReadCheckState(t)
    BY <1>1, <2>2 DEF ReadCheckState
  <2>3. CASE ReadPayload(t)
    BY <1>1, <2>3, Roles DEF ReadPayload
  <2> QED
    BY <1>7, <2>1, <2>2, <2>3 DEF ReadSlot
<1>8. CASE FreeCheckGeneration(t) \/ FreeSetState(t)
  <2>1. CASE FreeCheckGeneration(t)
    BY <1>1, <2>1 DEF FreeCheckGeneration
  <2>2. CASE FreeSetState(t)
    BY <1>1, <2>2, Roles DEF FreeSetState
  <2> QED
    BY <1>8, <2>1, <2>2
<1>9. CASE PushLoadHead(t) \/ PushLink(t)
  BY <1>1, <1>9 DEF PushLoadHead, PushLink
<1>10. CASE AllocCas(t) /\ free_head' = free_head
  <2>1. CasFails(t, "retry")
    BY <1>10, CasKeepsHead
  <2> QED
    BY <1>1, <1>10, <2>1 DEF AllocCas, CasFails
<1>11. CASE PushCas(t) /\ free_head' = free_head
  <2>1. CasFails(t, "push_load")
    BY <1>11, CasKeepsHead
  <2> QED
    BY <1>1, <1>11, <2>1 DEF PushCas, CasFails
<1> QED
  BY <1>2, <1>20, <1>3, <1>4, <1>5, <1>6, <1>7, <1>8, <1>9, <1>10, <1>11 DEF QuietStep

-----------------------------------------------------------------------------
(* Types *)

\* A payload is a number.
LEMMA PayloadTypes == TypeOK => \A l \in Links : Payload(l) \in Nat
<1> SUFFICES ASSUME TypeOK, NEW l \in Links PROVE Payload(l) \in Nat
  OBVIOUS
<1>1. begun[l] \in Nat /\ LinkCount \in Nat /\ l \in Nat /\ FREE_LIST_END \in Nat
  BY SlabAssumption DEF TypeOK, Links, FREE_LIST_END
<1>2. begun[l] * LinkCount \in Nat
  BY <1>1
<1> QED
  BY <1>1, <1>2 DEF Payload

\* A quiet step keeps the types.
LEMMA QuietTypes ==
  ASSUME TypeOK, Hands, Heads, NEW t \in Threads, QuietStep(t)
  PROVE  TypeOK'
<1> USE DEF Holds, HoldSteps, FreeSteps, SendSteps, FlightSteps, DropSteps, Goto, Fail, TypeOK
<1>1. HandOf(t) /\ HeadOf(t) /\ Link(t) \in Links /\ FREE_LIST_END \in Nat
  BY Roles, LinkTypes DEF Hands, Heads
<1>2. CASE AllocLoadHead(t)
  <2>1. begun' \in [Links -> 0 .. Quota]
    <3>1. begun[Link(t)] \in 0 .. Quota /\ Quota \in Nat
      BY <1>1, SlabAssumption
    <3>2. begun[Link(t)] < Quota => begun[Link(t)] + 1 \in 0 .. Quota
      BY <3>1
    <3> QED
      BY <1>2, <3>2 DEF AllocLoadHead
  <2>2. old_head' \in [Threads -> [index : 0 .. FREE_LIST_END, tag : Nat]]
    BY <1>2 DEF AllocLoadHead
  <2> QED
    BY <1>2, <2>1, <2>2 DEF AllocLoadHead
<1>20. CASE AllocLoadNext(t)
  BY <1>1, <1>20 DEF AllocLoadNext, HeadOf
<1> USE DEF HandOf
<1>3. CASE AllocSetState(t)
  BY <1>1, <1>3 DEF AllocSetState
<1>4. CASE AllocBumpGeneration(t)
  <2>1. generation[handle[t].index] + 1 \in Nat
    BY <1>1, <1>4 DEF AllocBumpGeneration
  <2>2. handle' \in [Threads -> [index : 0 .. FREE_LIST_END, generation : Nat]]
    BY <1>4, <2>1 DEF AllocBumpGeneration
  <2>3. generation' \in [Slots -> Nat]
    BY <1>4, <2>1 DEF AllocBumpGeneration
  <2> QED
    BY <1>4, <2>2, <2>3 DEF AllocBumpGeneration
<1>5. CASE CopyToSlot(t)
  BY <1>1, <1>5, PayloadTypes DEF CopyToSlot
<1>6. CASE MarkInFlight(t)
  BY <1>1, <1>6 DEF MarkInFlight, MarkCheckGeneration, MarkSetState
<1>7. CASE ReadSlot(t)
  <2>1. CASE ReadCheckGeneration(t)
    BY <1>1, <2>1 DEF ReadCheckGeneration
  <2>2. CASE ReadCheckState(t)
    BY <1>1, <2>2 DEF ReadCheckState
  <2>3. CASE ReadPayload(t)
    <3>1. Append(read[Link(t)], memory[handle[t].index]) \in Seq(Nat)
      BY <1>1, <2>3, AppendProperties DEF ReadPayload
    <3> QED
      BY <1>1, <2>3, <3>1 DEF ReadPayload
  <2> QED
    BY <1>7, <2>1, <2>2, <2>3 DEF ReadSlot
<1>8. CASE FreeCheckGeneration(t) \/ FreeSetState(t)
  BY <1>1, <1>8 DEF FreeCheckGeneration, FreeSetState
<1>9. CASE PushLoadHead(t) \/ PushLink(t)
  <2>1. CASE PushLoadHead(t)
    BY <2>1 DEF PushLoadHead
  <2>2. CASE PushLink(t)
    <3>1. old_head[t].index \in Nat
      BY <1>1
    <3> QED
      BY <1>1, <2>2, <3>1 DEF PushLink
  <2> QED
    BY <1>9, <2>1, <2>2
<1>10. CASE AllocCas(t) /\ free_head' = free_head
  <2>1. CasFails(t, "retry")
    BY <1>10, CasKeepsHead
  <2> QED
    BY <1>1, <1>10, <2>1 DEF AllocCas, CasFails
<1>11. CASE PushCas(t) /\ free_head' = free_head
  <2>1. CasFails(t, "push_load")
    BY <1>11, CasKeepsHead
  <2> QED
    BY <1>1, <1>11, <2>1 DEF PushCas, CasFails
<1> QED
  BY <1>2, <1>20, <1>3, <1>4, <1>5, <1>6, <1>7, <1>8, <1>9, <1>10, <1>11 DEF QuietStep

\* A quiet step keeps the invariant.
LEMMA QuietInv ==
  ASSUME SlabInv, NEW t \in Threads, QuietStep(t)
  PROVE  SlabInv'
<1> USE DEF SlabInv
<1>1. Quiet(t)
  BY QuietSteps
<1>2. PICK list \in Seq(Slots) : Chained(list)
  OBVIOUS
<1>3. TypeOK' /\ Rings' /\ Exclusive' /\ Chained(list)'
  BY <1>1, <1>2, QuietTypes, QuietRest, QuietChain
<1>4. Hands' /\ Heads'
  BY <1>1, <1>2, QuietOwn, QuietOthers DEF Hands, Heads
<1> QED
  BY <1>3, <1>4

-----------------------------------------------------------------------------
(* The free list as a sequence *)

\* The items of a list of slots are slots, and no slot is the end of the list.
LEMMA ListFacts ==
  ASSUME NEW list \in Seq(Slots)
  PROVE  /\ DOMAIN list = 1 .. Len(list) /\ Len(list) \in Nat
         /\ \A i \in DOMAIN list : list[i] \in Slots
         /\ ItemOrEnd(list, 1) \in Slots => 1 \in DOMAIN list
         /\ \A i : ItemOrEnd(list, i) \in 0 .. FREE_LIST_END
<1>1. DOMAIN list = 1 .. Len(list) /\ Len(list) \in Nat
  BY LenProperties
<1>2. \A i \in DOMAIN list : list[i] \in Slots
  BY <1>1, ElementOfSeq
<1>3. FREE_LIST_END \notin Slots /\ FREE_LIST_END \in Nat /\ Slots \subseteq 0 .. FREE_LIST_END
  BY SlabAssumption DEF FREE_LIST_END, Slots
<1>4. ItemOrEnd(list, 1) \in Slots => 1 \in DOMAIN list
  BY <1>3 DEF ItemOrEnd
<1>5. \A i : ItemOrEnd(list, i) \in 0 .. FREE_LIST_END
  <2>1. \A i \in DOMAIN list : list[i] \in 0 .. FREE_LIST_END
    BY <1>2, <1>3
  <2>2. FREE_LIST_END \in 0 .. FREE_LIST_END
    BY <1>3
  <2> QED
    BY <2>1, <2>2, Zenon DEF ItemOrEnd
<1> QED
  BY <1>1, <1>2, <1>4, <1>5

\* A list without its first item.
LEMMA WithoutTop ==
  ASSUME NEW list \in Seq(Slots), 1 \in DOMAIN list
  PROVE  /\ Tail(list) \in Seq(Slots)
         /\ DOMAIN Tail(list) = {i \in Nat \ {0} : i + 1 \in DOMAIN list}
         /\ \A i \in DOMAIN Tail(list) : Tail(list)[i] = list[i + 1]
         /\ \A i \in Nat \ {0} : ItemOrEnd(Tail(list), i) = ItemOrEnd(list, i + 1)
<1>1. list # <<>> /\ DOMAIN list = 1 .. Len(list) /\ Len(list) \in Nat
  BY LenProperties, EmptySeq
<1>2. /\ Tail(list) \in Seq(Slots)
      /\ Len(Tail(list)) = Len(list) - 1
      /\ \A i \in 1 .. Len(Tail(list)) : Tail(list)[i] = list[i + 1]
  BY <1>1, HeadTailProperties
<1>3. DOMAIN Tail(list) = 1 .. Len(Tail(list))
  BY <1>2, LenProperties
<1> QED
  BY <1>1, <1>2, <1>3 DEF ItemOrEnd

\* more is list with s before its first item.
OnTop(s, list, more) ==
    /\ 1 \in DOMAIN more /\ more[1] = s
    /\ \A i \in DOMAIN more : i = 1 \/ (i \in Nat \ {0, 1} /\ i - 1 \in DOMAIN list)
    /\ \A i \in DOMAIN list : i + 1 \in DOMAIN more /\ more[i + 1] = list[i]
    /\ ItemOrEnd(more, 1) = s
    /\ \A i \in Nat \ {0} : ItemOrEnd(more, i + 1) = ItemOrEnd(list, i)

\* A list with one more slot before its first item.
LEMMA WithTop ==
  ASSUME NEW list \in Seq(Slots), NEW s \in Slots
  PROVE  \E more \in Seq(Slots) : OnTop(s, list, more)
<1>2. PICK more : more = <<s>> \o list
  OBVIOUS
<1>1. /\ <<s>> \in Seq(Slots) /\ Len(<<s>>) = 1 /\ <<s>>[1] = s
      /\ DOMAIN list = 1 .. Len(list) /\ Len(list) \in Nat
  BY LenProperties
<1>3. /\ more \in Seq(Slots)
      /\ Len(more) = 1 + Len(list)
      /\ \A i \in 1 .. 1 + Len(list) : more[i] = IF i <= 1 THEN <<s>>[i] ELSE list[i - 1]
  BY <1>1, <1>2, ConcatProperties
<1>4. DOMAIN more = 1 .. 1 + Len(list)
  BY <1>3, LenProperties
<1>5. /\ 1 \in DOMAIN more /\ more[1] = s
      /\ \A i \in DOMAIN more : i = 1 \/ (i \in Nat \ {0, 1} /\ i - 1 \in DOMAIN list)
      /\ \A i \in DOMAIN list : i + 1 \in DOMAIN more /\ more[i + 1] = list[i]
  BY <1>1, <1>3, <1>4
<1>6. ItemOrEnd(more, 1) = s
  BY <1>5 DEF ItemOrEnd
<1>7. \A i \in Nat \ {0} : ItemOrEnd(more, i + 1) = ItemOrEnd(list, i)
  BY <1>1, <1>4, <1>5 DEF ItemOrEnd
<1> QED
  BY <1>3, <1>5, <1>6, <1>7, Zenon DEF OnTop

\* r is q with e after its last item.
AtEnd(q, e, r) ==
    /\ Len(q) \in Nat /\ Len(r) = Len(q) + 1
    /\ DOMAIN q = 1 .. Len(q) /\ DOMAIN r = 1 .. Len(q) + 1
    /\ \A i \in DOMAIN q : i \in DOMAIN r /\ r[i] = q[i]
    /\ Len(q) + 1 \in DOMAIN r /\ r[Len(q) + 1] = e
    /\ \A i \in DOMAIN r : i \in DOMAIN q \/ i = Len(q) + 1

\* A queue with one more item at its end.
LEMMA Appended ==
  ASSUME NEW S, NEW q \in Seq(S), NEW e \in S
  PROVE  Append(q, e) \in Seq(S) /\ AtEnd(q, e, Append(q, e))
<1> DEFINE r == Append(q, e)
<1>1. r \in Seq(S) /\ Len(q) \in Nat /\ DOMAIN q = 1 .. Len(q)
  BY AppendProperties, LenProperties
<1>2. /\ Len(r) = Len(q) + 1 /\ \A i \in 1 .. Len(q) : r[i] = q[i]
      /\ r[Len(q) + 1] = e
  BY AppendProperties
<1>3. DOMAIN r = 1 .. Len(q) + 1
  BY <1>1, <1>2, LenProperties
<1> QED
  BY <1>1, <1>2, <1>3 DEF AtEnd

\* r is q without its first item.
AfterHead(q, r) ==
    /\ Len(q) \in Nat /\ Len(r) \in Nat /\ Len(q) = Len(r) + 1
    /\ DOMAIN q = 1 .. Len(q) /\ DOMAIN r = 1 .. Len(r)
    /\ 1 \in DOMAIN q /\ Head(q) = q[1]
    /\ \A i \in DOMAIN r : i + 1 \in DOMAIN q /\ r[i] = q[i + 1]
    /\ \A i \in DOMAIN q : i = 1 \/ (i - 1 \in DOMAIN r /\ r[i - 1] = q[i])

\* A queue without its first item.
LEMMA WithoutHead ==
  ASSUME NEW S, NEW q \in Seq(S), q # <<>>
  PROVE  Tail(q) \in Seq(S) /\ AfterHead(q, Tail(q))
<1> DEFINE r == Tail(q)
<1>1. DOMAIN q = 1 .. Len(q) /\ Len(q) \in Nat /\ Len(q) # 0
  BY LenProperties, EmptySeq
<1>2. r \in Seq(S) /\ Len(r) = Len(q) - 1 /\ \A i \in 1 .. Len(r) : r[i] = q[i + 1]
  BY HeadTailProperties
<1>3. DOMAIN r = 1 .. Len(r)
  BY <1>2, LenProperties
<1>4. Head(q) = q[1]
  BY <1>1
<1>5. \A i \in DOMAIN q : i = 1 \/ (i - 1 \in DOMAIN r /\ r[i - 1] = q[i])
  <2> SUFFICES ASSUME NEW i \in DOMAIN q, i # 1 PROVE i - 1 \in DOMAIN r /\ r[i - 1] = q[i]
    OBVIOUS
  <2>1. i - 1 \in 1 .. Len(r) /\ (i - 1) + 1 = i
    BY <1>1, <1>2
  <2>2. r[i - 1] = q[(i - 1) + 1]
    BY <1>2, <2>1
  <2> QED
    BY <1>3, <2>1, <2>2
<1> QED
  BY <1>1, <1>2, <1>3, <1>4, <1>5 DEF AfterHead

-----------------------------------------------------------------------------
(* Steps that move a slot from one place to another *)

\* A step that moves a slot of t spoils nothing that another thread relies on.
LEMMA MoveOthers ==
  ASSUME TypeOK, Hands, Heads, NEW t \in Threads, NEW u \in Threads \ {t},
         \A v \in Threads \ {t} : /\ pc'[v] = pc[v] /\ handle'[v] = handle[v]
                                  /\ old_head'[v] = old_head[v] /\ next'[v] = next[v],
         UNCHANGED <<state, generation, memory>>,
         free_head' = free_head \/ free_head'.tag = free_head.tag + 1
  PROVE  HandOf(u)' /\ HeadOf(u)'
<1>1. HandOf(u) /\ HeadOf(u)
  BY DEF Hands, Heads
<1>2. pc'[u] = pc[u] /\ handle'[u] = handle[u] /\ old_head'[u] = old_head[u] /\ next'[u] = next[u]
  OBVIOUS
<1>3. Holds(u)' <=> Holds(u)
  BY <1>2 DEF Holds
<1>4. StateAt(u)' = StateAt(u) /\ (KnowsGeneration(u)' <=> KnowsGeneration(u))
  BY <1>2, <1>3 DEF StateAt, KnowsGeneration
<1>5. HandOf(u)'
  BY <1>1, <1>2, <1>3, <1>4 DEF HandOf
<1>6. old_head[u].tag \in Nat /\ free_head.tag \in Nat
  BY DEF TypeOK
<1>7. CASE free_head' = free_head
  BY <1>1, <1>2, <1>5, <1>7 DEF HeadOf
<1>8. CASE free_head'.tag = free_head.tag + 1
  <2>1. old_head[u].tag <= free_head'.tag /\ old_head[u] # free_head'
    BY <1>1, <1>6, <1>8 DEF HeadOf
  <2> QED
    BY <1>1, <1>2, <1>5, <2>1 DEF HeadOf
<1> QED
  BY <1>7, <1>8

\* The pop of try_alloc takes the top of the free list into its hands: the tag has
\* not changed, so the link that was loaded is the link of the top.
LEMMA PopInv ==
  ASSUME SlabInv, NEW t \in Threads, AllocCas(t), free_head' # free_head
  PROVE  SlabInv'
<1> USE DEF SlabInv
<1>1. PICK list \in Seq(Slots) : Chained(list)
  OBVIOUS
<1>2. HandOf(t) /\ HeadOf(t) /\ pc[t] = "alloc_cas" /\ free_head = old_head[t]
  BY CasKeepsHead DEF Hands, Heads, AllocCas
<1>3. /\ ~Holds(t) /\ handle[t] = NoHandle
      /\ free_head.index \in Slots
      /\ next[t] = memory[free_head.index]
  BY <1>2 DEF HandOf, HeadOf, Holds, HoldSteps, FreeSteps, SendSteps, FlightSteps, DropSteps
<1>4. /\ 1 \in DOMAIN list /\ free_head.index = list[1] /\ next[t] = ItemOrEnd(list, 2)
      /\ state[free_head.index] = "Free" /\ ~Held(free_head.index)
      /\ next[t] \in 0 .. FREE_LIST_END
  BY <1>1, <1>3, ListFacts DEF Chained, ItemOrEnd
<1>5. /\ free_head' = [index |-> next[t], tag |-> free_head.tag + 1]
      /\ handle' = [handle EXCEPT ![t].index = free_head.index]
      /\ pc' = [pc EXCEPT ![t] = "alloc_state"]
      /\ UNCHANGED <<state, generation, memory, ring, old_head, next, begun, sent, read>>
  BY <1>2, CasKeepsHead DEF AllocCas, CasFails, Goto
<1>6. TypeOK'
  <2>1. handle' \in [Threads -> [index : 0 .. FREE_LIST_END, generation : Nat]]
    BY <1>5 DEF TypeOK
  <2>2. free_head' \in [index : 0 .. FREE_LIST_END, tag : Nat]
    BY <1>4, <1>5 DEF TypeOK
  <2> QED
    BY <1>5, <2>1, <2>2 DEF TypeOK
<1>7. /\ handle'[t].index = free_head.index /\ pc'[t] = "alloc_state"
      /\ \A v \in Threads \ {t} : pc'[v] = pc[v] /\ handle'[v] = handle[v]
  BY <1>5 DEF TypeOK
<1>8. /\ Holds(t)' /\ \A v \in Threads \ {t} : Holds(v)' <=> Holds(v)
  BY <1>7 DEF Holds, HoldSteps, FreeSteps
<1>9. HandOf(t)'
  BY <1>2, <1>3, <1>4, <1>5, <1>7, <1>8
  DEF HandOf, StateAt, KnowsGeneration, SenderSteps, ReceiverSteps, FreeSteps, SendSteps, DropSteps
<1>10. HeadOf(t)'
  <2>1. old_head[t].tag \in Nat
    BY DEF TypeOK
  <2> QED
    BY <1>2, <1>5, <1>7, <2>1 DEF HeadOf
<1>11. Hands' /\ Heads'
  <2>1. ASSUME NEW u \in Threads \ {t} PROVE HandOf(u)' /\ HeadOf(u)'
    BY <1>5, <1>7, MoveOthers
  <2> QED
    BY <1>9, <1>10, <2>1 DEF Hands, Heads
<1>12. Rings'
  BY <1>5 DEF Rings
<1>13. \A l \in Links : \A i \in DOMAIN ring[l] : ring[l][i].index # free_head.index
  BY <1>4 DEF Rings
<1>14. Exclusive'
  BY <1>4, <1>5, <1>7, <1>8, <1>13 DEF Exclusive, Held
<1>15. Chained(Tail(list))'
  <2> DEFINE rest == Tail(list)
  <2>1. /\ rest \in Seq(Slots)
        /\ DOMAIN rest = {i \in Nat \ {0} : i + 1 \in DOMAIN list}
        /\ \A i \in DOMAIN rest : rest[i] = list[i + 1]
        /\ \A i \in Nat \ {0} : ItemOrEnd(rest, i) = ItemOrEnd(list, i + 1)
    BY <1>4, WithoutTop
  <2> HIDE DEF rest
  <2>2. free_head'.index = ItemOrEnd(rest, 1)
    <3>1. ItemOrEnd(rest, 1) = ItemOrEnd(list, 1 + 1)
      BY <2>1
    <3> QED
      BY <1>4, <1>5, <3>1
  <2>3. ASSUME NEW i \in DOMAIN rest PROVE memory[rest[i]] = ItemOrEnd(rest, i + 1)
    <3>1. i \in Nat \ {0} /\ i + 1 \in DOMAIN list /\ rest[i] = list[i + 1]
      BY <2>1
    <3>2. ItemOrEnd(rest, i + 1) = ItemOrEnd(list, (i + 1) + 1)
      BY <2>1, <3>1
    <3> QED
      BY <1>1, <3>1, <3>2 DEF Chained
  <2>4. \A i, j \in DOMAIN rest : rest[i] = rest[j] => i = j
    BY <1>1, <2>1 DEF Chained
  <2>5. \A s : Held(s)' <=> Held(s) \/ s = free_head.index
    BY <1>3, <1>7, <1>8 DEF Held
  <2>6. ASSUME NEW i \in DOMAIN rest PROVE state[rest[i]] = "Free" /\ ~Held(rest[i])'
    <3>1. i + 1 \in DOMAIN list /\ rest[i] = list[i + 1] /\ i + 1 # 1
      BY <2>1
    <3>2. rest[i] # list[1] /\ state[rest[i]] = "Free" /\ ~Held(rest[i])
      BY <1>1, <1>4, <3>1 DEF Chained
    <3> QED
      BY <1>4, <2>5, <3>2
  <2>7. ASSUME NEW s \in Slots PROVE Listed(rest, s) \/ Held(s)' \/ OnItsWay(s)
    <3>1. Listed(list, s) => s = free_head.index \/ Listed(rest, s)
      <4> SUFFICES ASSUME NEW i \in DOMAIN list, list[i] = s, i # 1 PROVE Listed(rest, s)
        BY <1>4 DEF Listed
      <4>1. i \in Nat \ {0, 1}
        BY ListFacts
      <4>2. i - 1 \in DOMAIN rest
        <5>1. i - 1 \in Nat \ {0} /\ (i - 1) + 1 = i
          BY <4>1
        <5> QED
          BY <2>1, <5>1
      <4>3. rest[i - 1] = s
        BY <2>1, <4>1, <4>2
      <4> QED
        BY <4>2, <4>3 DEF Listed
    <3> QED
      BY <1>1, <2>5, <3>1 DEF Chained
  <2>8. \A s : OnItsWay(s)' <=> OnItsWay(s)
    BY <1>5 DEF OnItsWay
  <2>9. Chained(rest)'
    BY <1>5, <2>2, <2>3, <2>4, <2>6, <2>7, <2>8 DEF Chained, Listed, ItemOrEnd
  <2> QED
    BY <2>9 DEF rest
<1>16. Tail(list) \in Seq(Slots)
  BY <1>4, WithoutTop
<1> QED
  BY <1>6, <1>11, <1>12, <1>14, <1>15, <1>16

\* The push of push_to_free_list puts the slot it holds on top of the free list.
LEMMA PushInv ==
  ASSUME SlabInv, NEW t \in Threads, PushCas(t), free_head' # free_head
  PROVE  SlabInv'
<1> USE DEF SlabInv
<1> DEFINE s == handle[t].index
<1>1. PICK list \in Seq(Slots) : Chained(list)
  OBVIOUS
<1>2. HandOf(t) /\ HeadOf(t) /\ pc[t] = "push_cas" /\ free_head = old_head[t]
  BY CasKeepsHead DEF Hands, Heads, PushCas
<1>3. /\ Holds(t) /\ s \in Slots /\ state[s] = "Free" /\ memory[s] = free_head.index
  BY <1>2 DEF HandOf, HeadOf, Holds, HoldSteps, FreeSteps, StateAt
<1>4. /\ free_head' = [index |-> s, tag |-> free_head.tag + 1]
      /\ handle' = [handle EXCEPT ![t] = NoHandle]
      /\ pc' = [pc EXCEPT ![t] = "idle"]
      /\ UNCHANGED <<state, generation, memory, ring, old_head, next, begun, sent, read>>
  BY <1>2, CasKeepsHead DEF PushCas, CasFails, Goto
<1>5. FREE_LIST_END \in Nat /\ \A x \in Slots : x \in 0 .. FREE_LIST_END
  BY SlabAssumption DEF Slots, FREE_LIST_END
<1>6. TypeOK'
  <2>1. NoHandle \in [index : 0 .. FREE_LIST_END, generation : Nat]
    BY <1>5 DEF NoHandle
  <2>2. handle' \in [Threads -> [index : 0 .. FREE_LIST_END, generation : Nat]]
    BY <1>4, <2>1 DEF TypeOK
  <2>3. free_head' \in [index : 0 .. FREE_LIST_END, tag : Nat]
    BY <1>3, <1>4, <1>5 DEF TypeOK
  <2> QED
    BY <1>4, <2>2, <2>3 DEF TypeOK
<1>7. /\ handle'[t] = NoHandle /\ pc'[t] = "idle"
      /\ \A v \in Threads \ {t} : pc'[v] = pc[v] /\ handle'[v] = handle[v]
  BY <1>4 DEF TypeOK
<1>8. ~Holds(t)' /\ \A v \in Threads \ {t} : Holds(v)' <=> Holds(v)
  BY <1>7 DEF Holds, HoldSteps, FreeSteps, SendSteps, FlightSteps, DropSteps
<1>9. HandOf(t)'
  BY <1>7, <1>8 DEF HandOf, SenderSteps, ReceiverSteps
<1>10. HeadOf(t)'
  <2>1. old_head[t].tag \in Nat
    BY DEF TypeOK
  <2> QED
    BY <1>2, <1>4, <1>7, <2>1 DEF HeadOf
<1>11. Hands' /\ Heads'
  <2>1. ASSUME NEW u \in Threads \ {t} PROVE HandOf(u)' /\ HeadOf(u)'
    BY <1>4, <1>7, MoveOthers
  <2> QED
    BY <1>9, <1>10, <2>1 DEF Hands, Heads
<1>12. Rings'
  BY <1>4 DEF Rings
<1>13. Exclusive'
  BY <1>4, <1>7, <1>8 DEF Exclusive
<1> HIDE DEF s
<1>17. PICK more \in Seq(Slots) : OnTop(s, list, more)
  BY <1>3, WithTop
<1>14. /\ 1 \in DOMAIN more /\ more[1] = s
       /\ \A i \in DOMAIN more : i = 1 \/ (i \in Nat \ {0, 1} /\ i - 1 \in DOMAIN list)
       /\ \A i \in DOMAIN list : i + 1 \in DOMAIN more /\ more[i + 1] = list[i]
       /\ ItemOrEnd(more, 1) = s
       /\ \A i \in Nat \ {0} : ItemOrEnd(more, i + 1) = ItemOrEnd(list, i)
  BY <1>17 DEF OnTop
<1>15. ASSUME NEW i \in DOMAIN more
       PROVE  \/ i = 1 /\ more[i] = s
              \/ /\ i \in Nat \ {0, 1} /\ i - 1 \in DOMAIN list /\ more[i] = list[i - 1]
                 /\ ItemOrEnd(more, i + 1) = ItemOrEnd(list, i)
  <2>1. CASE i = 1
    BY <1>14, <2>1
  <2>2. CASE i # 1
    <3>1. i \in Nat \ {0, 1} /\ i - 1 \in DOMAIN list
      BY <1>14, <2>2
    <3>2. more[(i - 1) + 1] = list[i - 1]
      BY <1>14, <3>1
    <3>3. (i - 1) + 1 = i /\ i \in Nat \ {0}
      BY <3>1
    <3> QED
      BY <1>14, <3>1, <3>2, <3>3
  <2> QED
    BY <2>1, <2>2
<1>16. Chained(more)'
  <2>1. free_head'.index = ItemOrEnd(more, 1)
    BY <1>4, <1>14
  <2>2. \A v : Held(v)' => Held(v) /\ v # s
    BY <1>3, <1>7, <1>8 DEF Held, Exclusive, s
  <2>3. \A v : Held(v) => Held(v)' \/ v = s
    BY <1>7, <1>8 DEF Held, s
  <2>4. \A i \in DOMAIN list : list[i] # s
    BY <1>1, <1>3 DEF Chained, Held, s
  <2>5. \A i \in DOMAIN more : state[more[i]] = "Free" /\ ~Held(more[i])'
    BY <1>1, <1>3, <1>15, <2>2 DEF Chained
  <2>6. ASSUME NEW i \in DOMAIN more PROVE memory[more[i]] = ItemOrEnd(more, i + 1)
    <3>1. CASE i = 1
      <4>1. ItemOrEnd(more, 1 + 1) = ItemOrEnd(list, 1)
        BY <1>14
      <4> QED
        BY <1>1, <1>3, <1>15, <3>1, <4>1 DEF Chained
    <3>2. CASE i # 1
      <4>1. /\ i \in Nat /\ i - 1 \in DOMAIN list /\ more[i] = list[i - 1]
            /\ ItemOrEnd(more, i + 1) = ItemOrEnd(list, i)
        BY <1>15, <3>2
      <4>2. memory[list[i - 1]] = ItemOrEnd(list, (i - 1) + 1) /\ (i - 1) + 1 = i
        BY <1>1, <4>1 DEF Chained
      <4> QED
        BY <4>1, <4>2
    <3> QED
      BY <3>1, <3>2
  <2>7. ASSUME NEW i \in DOMAIN more, NEW j \in DOMAIN more, more[i] = more[j] PROVE i = j
    <3>1. CASE i = 1 \/ j = 1
      BY <1>15, <2>4, <2>7, <3>1
    <3>2. CASE i # 1 /\ j # 1
      <4>1. /\ i \in Nat /\ j \in Nat /\ i - 1 \in DOMAIN list /\ j - 1 \in DOMAIN list
            /\ list[i - 1] = list[j - 1]
        BY <1>15, <2>7, <3>2
      <4>2. i - 1 = j - 1
        BY <1>1, <4>1 DEF Chained
      <4> QED
        BY <4>1, <4>2
    <3> QED
      BY <3>1, <3>2
  <2>8. ASSUME NEW v \in Slots PROVE Listed(more, v) \/ Held(v)' \/ OnItsWay(v)
    <3>1. Listed(list, v) => Listed(more, v)
      BY <1>14 DEF Listed
    <3>2. Listed(more, s)
      BY <1>14 DEF Listed
    <3> QED
      BY <1>1, <2>3, <3>1, <3>2 DEF Chained
  <2>9. \A v : OnItsWay(v)' <=> OnItsWay(v)
    BY <1>4 DEF OnItsWay
  <2> QED
    BY <1>4, <2>1, <2>5, <2>6, <2>7, <2>8, <2>9 DEF Chained, Listed, ItemOrEnd
<1> QED
  BY <1>6, <1>11, <1>12, <1>13, <1>17, <1>16

\* A chain stays one when no slot becomes, or ceases to be, held or on its way.
LEMMA SamePlaces ==
  ASSUME NEW list \in Seq(Slots), Chained(list), UNCHANGED <<free_head, state, memory>>,
         \A s : Held(s)' \/ OnItsWay(s)' <=> Held(s) \/ OnItsWay(s),
         \A s : Held(s)' => Held(s) \/ state[s] # "Free"
  PROVE  Chained(list)'
BY DEF Chained, Listed, ItemOrEnd

\* An enqueue moves the slot of the sender to the end of the ring.
LEMMA EnqueueInv ==
  ASSUME SlabInv, NEW t \in Threads, Enqueue(t)
  PROVE  SlabInv'
<1> USE DEF SlabInv
<1> DEFINE l == Link(t)
<1>1. PICK list \in Seq(Slots) : Chained(list)
  OBVIOUS
<1>2. HandOf(t) /\ HeadOf(t) /\ pc[t] = "enqueue" /\ l \in Links /\ Len(ring[l]) < RingCapacity
  BY Roles DEF Hands, Heads, Enqueue
<1>3. /\ Holds(t) /\ handle[t].index \in Slots /\ state[handle[t].index] = "InFlight"
      /\ generation[handle[t].index] = handle[t].generation
  BY <1>2 DEF HandOf, Holds, HoldSteps, FreeSteps, FlightSteps, DropSteps, StateAt, KnowsGeneration
<1>4. /\ ring' = [ring EXCEPT ![l] = Append(ring[l], handle[t])]
      /\ sent' = [sent EXCEPT ![l] = Append(sent[l], Payload(l))]
      /\ handle' = [handle EXCEPT ![t] = NoHandle]
      /\ pc' = [pc EXCEPT ![t] = "idle"]
      /\ UNCHANGED <<free_head, state, generation, memory, old_head, next, begun, read>>
  BY DEF Enqueue, Goto
<1>5. /\ handle'[t] = NoHandle /\ pc'[t] = "idle"
      /\ \A v \in Threads \ {t} : pc'[v] = pc[v] /\ handle'[v] = handle[v]
  BY <1>4 DEF TypeOK
<1>6. ~Holds(t)' /\ \A v \in Threads \ {t} : Holds(v)' <=> Holds(v)
  BY <1>5 DEF Holds, HoldSteps, FreeSteps, SendSteps, FlightSteps, DropSteps
<1>7. handle[t] \in [index : Slots, generation : Nat]
  BY <1>3 DEF TypeOK
<1>8. PICK r : r = Append(ring[l], handle[t])
  OBVIOUS
<1>9. /\ ring'[l] = r
      /\ \A m \in Links \ {l} : ring'[m] = ring[m]
      /\ ring[l] \in Seq([index : Slots, generation : Nat])
  BY <1>2, <1>4, <1>8 DEF TypeOK
<1> HIDE DEF l
<1>10. /\ r \in Seq([index : Slots, generation : Nat]) /\ Len(r) = Len(ring[l]) + 1
       /\ Len(ring[l]) \in Nat
       /\ \A i \in DOMAIN ring[l] : i \in DOMAIN r /\ r[i] = ring[l][i]
       /\ Len(ring[l]) + 1 \in DOMAIN r /\ r[Len(ring[l]) + 1] = handle[t]
       /\ \A i \in DOMAIN r : i \in DOMAIN ring[l] \/ i = Len(ring[l]) + 1
  <2>1. r \in Seq([index : Slots, generation : Nat]) /\ AtEnd(ring[l], handle[t], r)
    BY <1>7, <1>8, <1>9, Appended, ZenonT(60)
  <2> QED
    BY <2>1 DEF AtEnd
<1>11. /\ \A m \in Links : \A i \in DOMAIN ring'[m] :
            \/ i \in DOMAIN ring[m] /\ ring'[m][i] = ring[m][i]
            \/ m = l /\ i = Len(ring[l]) + 1 /\ ring'[m][i] = handle[t]
       /\ \A m \in Links : \A i \in DOMAIN ring[m] : i \in DOMAIN ring'[m] /\ ring'[m][i] = ring[m][i]
  BY <1>9, <1>10
<1>12. TypeOK'
  <2>1. NoHandle \in [index : 0 .. FREE_LIST_END, generation : Nat]
    BY SlabAssumption DEF NoHandle, FREE_LIST_END
  <2>2. handle' \in [Threads -> [index : 0 .. FREE_LIST_END, generation : Nat]]
    BY <1>4, <2>1 DEF TypeOK
  <2>3. Append(sent[l], Payload(l)) \in Seq(Nat)
    BY <1>2, PayloadTypes, AppendProperties DEF TypeOK
  <2>4. sent' \in [Links -> Seq(Nat)]
    BY <1>4, <2>3 DEF TypeOK
  <2>6. ring' = [ring EXCEPT ![l] = r]
    BY <1>4, <1>8
  <2>7. ring' \in [Links -> Seq([index : Slots, generation : Nat])]
    BY <1>10, <2>6 DEF TypeOK
  <2>5. ASSUME NEW m \in Links PROVE Len(ring'[m]) <= RingCapacity
    <3>1. CASE m = l
      BY <1>2, <1>9, <1>10, <3>1, SlabAssumption
    <3>2. CASE m # l
      BY <1>9, <3>2 DEF TypeOK
    <3> QED
      BY <3>1, <3>2
  <2> QED
    BY <1>4, <2>2, <2>4, <2>5, <2>7 DEF TypeOK
<1>13. HandOf(t)' /\ HeadOf(t)'
  BY <1>2, <1>4, <1>5, <1>6 DEF HandOf, HeadOf, SenderSteps, ReceiverSteps
<1>14. Hands' /\ Heads'
  <2>1. ASSUME NEW u \in Threads \ {t} PROVE HandOf(u)' /\ HeadOf(u)'
    BY <1>4, <1>5, MoveOthers
  <2> QED
    BY <1>13, <2>1 DEF Hands, Heads
<1>15. Rings'
  BY <1>3, <1>4, <1>11 DEF Rings
<1>16. Exclusive'
  <2>1. \A u, v \in Threads : Holds(u)' /\ Holds(v)' /\ handle'[u].index = handle'[v].index => u = v
    BY <1>5, <1>6 DEF Exclusive
  <2>2. ASSUME NEW u \in Threads, NEW m \in Links, NEW i \in DOMAIN ring'[m], Holds(u)'
        PROVE  ring'[m][i].index # handle'[u].index
    <3>1. u # t /\ Holds(u) /\ handle'[u] = handle[u] /\ handle[u].index # handle[t].index
      BY <1>3, <1>5, <1>6, <2>2 DEF Exclusive
    <3> QED
      BY <1>11, <3>1 DEF Exclusive
  <2>3. ASSUME NEW m \in Links, NEW n \in Links, NEW i \in DOMAIN ring'[m], NEW j \in DOMAIN ring'[n],
               ring'[m][i].index = ring'[n][j].index
        PROVE  m = n /\ i = j
    BY <1>3, <1>11, <2>3 DEF Exclusive
  <2> QED
    BY <2>1, <2>2, <2>3 DEF Exclusive
<1>17. Chained(list)'
  <2>0. PICK x : x = handle[t].index
    OBVIOUS
  <2>1. \A s : Held(s)' => Held(s)
    BY <1>5, <1>6 DEF Held
  <2>2. \A s : Held(s) => Held(s)' \/ s = x
    BY <1>5, <1>6, <2>0 DEF Held
  <2>3. \A s : OnItsWay(s)' => OnItsWay(s) \/ s = x
    BY <1>11, <2>0 DEF OnItsWay
  <2>4. \A s : OnItsWay(s) => OnItsWay(s)'
    BY <1>11 DEF OnItsWay
  <2>5. OnItsWay(x)'
    <3>1. /\ Len(ring[l]) + 1 \in DOMAIN ring'[l]
          /\ ring'[l][Len(ring[l]) + 1].index = x
      BY <1>9, <1>10, <2>0
    <3> QED
      BY <1>2, <3>1, Zenon DEF OnItsWay
  <2>6. Held(x)
    BY <1>3, <2>0 DEF Held
  <2>7. \A s : Held(s)' \/ OnItsWay(s)' <=> Held(s) \/ OnItsWay(s)
    BY <2>1, <2>2, <2>3, <2>4, <2>5, <2>6
  <2> QED
    BY <1>1, <1>4, <2>1, <2>7, SamePlaces
<1> QED
  BY <1>12, <1>14, <1>15, <1>16, <1>17

\* A dequeue moves the slot at the head of the ring into the hands of the receiver.
LEMMA DequeueInv ==
  ASSUME SlabInv, NEW t \in Threads, Dequeue(t)
  PROVE  SlabInv'
<1> USE DEF SlabInv
<1> DEFINE l == Link(t)
<1>1. PICK list \in Seq(Slots) : Chained(list)
  OBVIOUS
<1>2. /\ HandOf(t) /\ HeadOf(t) /\ pc[t] = "idle" /\ Role(t) = "receiver"
      /\ l \in Links /\ ring[l] # <<>>
  BY Roles DEF Hands, Heads, Dequeue
<1>3. ~Holds(t)
  BY <1>2 DEF Holds, HoldSteps, FreeSteps, SendSteps, FlightSteps, DropSteps
<1>4. /\ ring' = [ring EXCEPT ![l] = Tail(ring[l])]
      /\ handle' = [handle EXCEPT ![t] = Head(ring[l])]
      /\ pc' = [pc EXCEPT ![t] = "read_generation"]
      /\ UNCHANGED <<free_head, state, generation, memory, old_head, next, begun, sent, read>>
  BY DEF Dequeue, Goto
<1>5. PICK r : r = Tail(ring[l])
  OBVIOUS
<1>6. PICK h : h = ring[l][1]
  OBVIOUS
<1>7. /\ ring'[l] = r
      /\ \A m \in Links \ {l} : ring'[m] = ring[m]
      /\ ring[l] \in Seq([index : Slots, generation : Nat])
  BY <1>2, <1>4, <1>5 DEF TypeOK
<1> HIDE DEF l
<1>8. /\ r \in Seq([index : Slots, generation : Nat]) /\ Len(ring[l]) \in Nat /\ Len(r) \in Nat
      /\ Len(ring[l]) = Len(r) + 1
      /\ DOMAIN ring[l] = 1 .. Len(ring[l]) /\ DOMAIN r = 1 .. Len(r)
      /\ 1 \in DOMAIN ring[l] /\ Head(ring[l]) = h
      /\ \A i \in DOMAIN r : i + 1 \in DOMAIN ring[l] /\ r[i] = ring[l][i + 1]
      /\ \A i \in DOMAIN ring[l] : i = 1 \/ (i - 1 \in DOMAIN r /\ r[i - 1] = ring[l][i])
  <2>1. PICK q : q = ring[l]
    OBVIOUS
  <2>2. q \in Seq([index : Slots, generation : Nat]) /\ q # <<>> /\ r = Tail(q)
    BY <1>2, <1>5, <1>7, <2>1
  <2>3. r \in Seq([index : Slots, generation : Nat]) /\ AfterHead(q, r)
    BY <2>2, WithoutHead
  <2> QED
    BY <1>6, <2>1, <2>3 DEF AfterHead
<1>9. /\ h \in [index : Slots, generation : Nat] /\ h.index \in Slots
      /\ state[h.index] = "InFlight" /\ generation[h.index] = h.generation
  BY <1>2, <1>6, <1>8, LinkTypes DEF Rings
<1>10. handle' = [handle EXCEPT ![t] = h] /\ ring' = [ring EXCEPT ![l] = r]
  BY <1>4, <1>5, <1>8
<1>11. /\ handle'[t] = h /\ pc'[t] = "read_generation"
       /\ \A v \in Threads \ {t} : pc'[v] = pc[v] /\ handle'[v] = handle[v]
  BY <1>4, <1>10 DEF TypeOK
<1>12. Holds(t)' /\ \A v \in Threads \ {t} : Holds(v)' <=> Holds(v)
  BY <1>11 DEF Holds, HoldSteps, FlightSteps
<1>13. /\ \A m \in Links : \A i \in DOMAIN ring'[m] :
            \/ m # l /\ i \in DOMAIN ring[m] /\ ring'[m][i] = ring[m][i]
            \/ m = l /\ i \in Nat \ {0} /\ i + 1 \in DOMAIN ring[m] /\ ring'[m][i] = ring[m][i + 1]
       /\ \A m \in Links \ {l} : \A i \in DOMAIN ring[m] :
            i \in DOMAIN ring'[m] /\ ring'[m][i] = ring[m][i]
       /\ \A i \in DOMAIN ring[l] :
            \/ ring[l][i] = h
            \/ i - 1 \in DOMAIN ring'[l] /\ ring'[l][i - 1] = ring[l][i]
  <2>1. ASSUME NEW m \in Links, NEW i \in DOMAIN ring'[m]
        PROVE  \/ m # l /\ i \in DOMAIN ring[m] /\ ring'[m][i] = ring[m][i]
               \/ /\ m = l /\ i \in Nat \ {0} /\ i + 1 \in DOMAIN ring[m]
                  /\ ring'[m][i] = ring[m][i + 1]
    <3>1. CASE m = l
      <4>1. i \in Nat \ {0} /\ i \in DOMAIN r
        BY <1>7, <1>8, <3>1
      <4> QED
        BY <1>7, <1>8, <3>1, <4>1
    <3>2. CASE m # l
      BY <1>7, <3>2
    <3> QED
      BY <3>1, <3>2
  <2>2. \A m \in Links \ {l} : \A i \in DOMAIN ring[m] :
            i \in DOMAIN ring'[m] /\ ring'[m][i] = ring[m][i]
    BY <1>7
  <2>3. \A i \in DOMAIN ring[l] :
            \/ ring[l][i] = h
            \/ i - 1 \in DOMAIN ring'[l] /\ ring'[l][i - 1] = ring[l][i]
    BY <1>6, <1>7, <1>8
  <2> QED
    BY <2>1, <2>2, <2>3
<1>14. TypeOK'
  <2>1. h \in [index : 0 .. FREE_LIST_END, generation : Nat]
    BY <1>9, SlabAssumption DEF Slots, FREE_LIST_END
  <2>2. handle' \in [Threads -> [index : 0 .. FREE_LIST_END, generation : Nat]]
    BY <1>10, <2>1 DEF TypeOK
  <2>3. ring' \in [Links -> Seq([index : Slots, generation : Nat])]
    BY <1>8, <1>10 DEF TypeOK
  <2>4. ASSUME NEW m \in Links PROVE Len(ring'[m]) <= RingCapacity
    <3>1. CASE m = l
      <4>1. Len(ring[l]) <= RingCapacity
        BY <1>2 DEF TypeOK
      <4> QED
        BY <1>7, <1>8, <3>1, <4>1, SlabAssumption
    <3>2. CASE m # l
      BY <1>7, <3>2 DEF TypeOK
    <3> QED
      BY <3>1, <3>2
  <2> QED
    BY <1>4, <2>2, <2>3, <2>4 DEF TypeOK
<1>15. HandOf(t)' /\ HeadOf(t)'
  <2>1. HandOf(t)'
    BY <1>2, <1>4, <1>9, <1>11, <1>12
    DEF HandOf, StateAt, KnowsGeneration, ReceiverSteps, FreeSteps, FlightSteps
  <2>2. HeadOf(t)'
    BY <1>2, <1>4, <1>11 DEF HeadOf
  <2> QED
    BY <2>1, <2>2
<1>16. Hands' /\ Heads'
  <2>1. ASSUME NEW u \in Threads \ {t} PROVE HandOf(u)' /\ HeadOf(u)'
    BY <1>4, <1>11, MoveOthers
  <2> QED
    BY <1>15, <2>1 DEF Hands, Heads
<1>17. Rings'
  BY <1>4, <1>13 DEF Rings
<1>18. Exclusive'
  <2>1. ASSUME NEW u \in Threads, NEW v \in Threads, Holds(u)', Holds(v)',
               handle'[u].index = handle'[v].index
        PROVE  u = v
    <3>1. ASSUME NEW w \in Threads \ {t}, Holds(w)' PROVE handle'[w].index # h.index
      BY <1>2, <1>6, <1>8, <1>11, <1>12, <3>1 DEF Exclusive
    <3> QED
      BY <1>11, <1>12, <2>1, <3>1 DEF Exclusive
  <2>2. ASSUME NEW u \in Threads, NEW m \in Links, NEW i \in DOMAIN ring'[m], Holds(u)'
        PROVE  ring'[m][i].index # handle'[u].index
    <3>1. PICK j \in DOMAIN ring[m] : ring'[m][i] = ring[m][j] /\ (m = l => j # 1)
      BY <1>13
    <3>2. CASE u = t
      BY <1>2, <1>6, <1>8, <1>11, <3>1, <3>2 DEF Exclusive
    <3>3. CASE u # t
      BY <1>11, <1>12, <2>2, <3>1, <3>3 DEF Exclusive
    <3> QED
      BY <3>2, <3>3
  <2>3. ASSUME NEW m \in Links, NEW n \in Links, NEW i \in DOMAIN ring'[m], NEW j \in DOMAIN ring'[n],
               ring'[m][i].index = ring'[n][j].index
        PROVE  m = n /\ i = j
    <3>1. m = n
      BY <1>13, <2>3 DEF Exclusive
    <3>2. CASE m # l
      BY <1>13, <2>3, <3>1, <3>2 DEF Exclusive
    <3>3. CASE m = l
      <4>1. /\ i \in Nat /\ j \in Nat /\ i + 1 \in DOMAIN ring[l] /\ j + 1 \in DOMAIN ring[l]
            /\ ring[l][i + 1].index = ring[l][j + 1].index
        BY <1>13, <2>3, <3>1, <3>3
      <4>2. i + 1 = j + 1
        BY <1>2, <4>1 DEF Exclusive
      <4> QED
        BY <3>1, <4>1, <4>2
    <3> QED
      BY <3>1, <3>2, <3>3
  <2> QED
    BY <2>1, <2>2, <2>3 DEF Exclusive
<1>19. Chained(list)'
  <2>0. PICK x : x = h.index
    OBVIOUS
  <2>1. \A s : Held(s)' => Held(s) \/ s = x
    BY <1>11, <1>12, <2>0 DEF Held
  <2>2. \A s : Held(s) => Held(s)'
    BY <1>3, <1>11, <1>12 DEF Held
  <2>3. \A s : OnItsWay(s)' => OnItsWay(s)
    BY <1>13 DEF OnItsWay
  <2>4. ASSUME NEW s, OnItsWay(s) PROVE OnItsWay(s)' \/ s = x
    <3>1. PICK m \in Links : \E i \in DOMAIN ring[m] : ring[m][i].index = s
      BY <2>4 DEF OnItsWay
    <3>2. PICK i \in DOMAIN ring[m] : ring[m][i].index = s
      BY <3>1
    <3>3. CASE m # l
      BY <1>13, <3>2, <3>3 DEF OnItsWay
    <3>4. CASE m = l
      <4>1. CASE ring[l][i] = h
        BY <2>0, <3>2, <3>4, <4>1
      <4>2. CASE ring[l][i] # h
        <5>1. PICK j \in DOMAIN ring'[l] : ring'[l][j] = ring[l][i]
          BY <1>13, <3>4, <4>2
        <5> QED
          BY <1>2, <3>2, <3>4, <5>1 DEF OnItsWay
      <4> QED
        BY <4>1, <4>2
    <3> QED
      BY <3>3, <3>4
  <2>5. Held(x)' /\ OnItsWay(x)
    BY <1>2, <1>6, <1>8, <1>11, <1>12, <2>0 DEF Held, OnItsWay
  <2>6. \A s : Held(s)' \/ OnItsWay(s)' <=> Held(s) \/ OnItsWay(s)
    BY <2>1, <2>2, <2>3, <2>4, <2>5
  <2>7. \A s : Held(s)' => Held(s) \/ state[s] # "Free"
    BY <1>9, <2>0, <2>1
  <2> QED
    BY <1>1, <1>4, <2>6, <2>7, SamePlaces
<1> QED
  BY <1>14, <1>16, <1>17, <1>18, <1>19

\* init_free_list chains all the slots, in their order.
LEMMA SlabInit == Init => SlabInv
<1> SUFFICES ASSUME Init PROVE SlabInv
  OBVIOUS
<1> USE DEF Init
<1>1. /\ SlotCount \in Nat /\ 0 \in Slots /\ FREE_LIST_END = SlotCount
      /\ \A s \in Slots : s \in Nat /\ s + 1 \in Nat /\ s \in 0 .. FREE_LIST_END
      /\ 0 \in 0 .. FREE_LIST_END /\ FREE_LIST_END \in 0 .. FREE_LIST_END
  BY SlabAssumption DEF Slots, FREE_LIST_END
<1>2. TypeOK
  <2>1. \A S : <<>> \in Seq(S) /\ Len(<<>>) = 0
    BY EmptySeq
  <2>2. NoHandle \in [index : 0 .. FREE_LIST_END, generation : Nat]
    BY <1>1 DEF NoHandle
  <2>3. 0 \in 0 .. Quota /\ 0 <= RingCapacity
    BY SlabAssumption
  <2> QED
    BY <1>1, <2>1, <2>2, <2>3 DEF TypeOK
<1>3. \A t \in Threads : pc[t] = "idle" /\ ~Holds(t)
  BY DEF Holds, HoldSteps, FreeSteps, SendSteps, FlightSteps, DropSteps
<1>4. \A l \in Links : DOMAIN ring[l] = {}
  <2>1. DOMAIN << >> = {}
    OBVIOUS
  <2> QED
    BY <2>1
<1>5. Hands
  BY <1>3 DEF Hands, HandOf, SenderSteps, ReceiverSteps
<1>6. Rings /\ Exclusive
  BY <1>3, <1>4 DEF Rings, Exclusive
<1>7. Heads
  BY <1>3 DEF Heads, HeadOf
<1>8. \E list \in Seq(Slots) : Chained(list)
  <2> DEFINE list == [i \in 1 .. SlotCount |-> i - 1]
  <2>1. \A i \in 1 .. SlotCount : i - 1 \in Slots /\ i - 1 \in Nat /\ (i - 1) + 1 = i
    BY <1>1 DEF Slots
  <2>2. list \in Seq(Slots)
    BY <1>1, <2>1, IsASeq
  <2>3. DOMAIN list = 1 .. SlotCount /\ \A i \in 1 .. SlotCount : list[i] = i - 1
    OBVIOUS
  <2> HIDE DEF list
  <2>4. free_head.index = ItemOrEnd(list, 1)
    BY <1>1, <2>3, SlabAssumption DEF ItemOrEnd
  <2>5. ASSUME NEW i \in DOMAIN list PROVE memory[list[i]] = ItemOrEnd(list, i + 1)
    <3>1. memory[list[i]] = i
      BY <2>1, <2>3
    <3>2. ItemOrEnd(list, i + 1) = i
      BY <1>1, <2>3 DEF ItemOrEnd
    <3> QED
      BY <3>1, <3>2
  <2>6. \A i, j \in DOMAIN list : list[i] = list[j] => i = j
    BY <1>1, <2>3
  <2>7. \A i \in DOMAIN list : state[list[i]] = "Free" /\ ~Held(list[i])
    BY <1>3, <2>1, <2>3 DEF Held
  <2>8. ASSUME NEW s \in Slots PROVE Listed(list, s)
    <3>1. s + 1 \in 1 .. SlotCount /\ (s + 1) - 1 = s
      BY <1>1 DEF Slots
    <3> QED
      BY <2>3, <3>1 DEF Listed
  <2> QED
    BY <2>2, <2>4, <2>5, <2>6, <2>7, <2>8 DEF Chained
<1> QED
  BY <1>2, <1>5, <1>6, <1>7, <1>8 DEF SlabInv

\* Every step of every thread keeps the invariant.
LEMMA SlabStep == SlabInv /\ [Next]_vars => SlabInv'
<1> SUFFICES ASSUME SlabInv, [Next]_vars PROVE SlabInv'
  OBVIOUS
<1>1. CASE UNCHANGED vars
  <2>1. PICK list \in Seq(Slots) : Chained(list)
    BY DEF SlabInv
  <2>3. \A s : (Held(s)' <=> Held(s)) /\ (OnItsWay(s)' <=> OnItsWay(s))
    BY <1>1 DEF vars, Held, Holds, OnItsWay
  <2>4. Chained(list)'
    <3>1. free_head' = free_head /\ state' = state /\ memory' = memory
      BY <1>1 DEF vars
    <3>2. \A s : Held(s)' \/ OnItsWay(s)' <=> Held(s) \/ OnItsWay(s)
      BY <2>3
    <3>3. \A s : Held(s)' => Held(s) \/ state[s] # "Free"
      BY <2>3
    <3> QED
      BY <2>1, <3>1, <3>2, <3>3, SamePlaces
  <2>2. TypeOK' /\ Rings' /\ Heads'
    <3>1. TypeOK'
      BY <1>1 DEF SlabInv, vars, TypeOK
    <3>2. Rings'
      BY <1>1 DEF SlabInv, vars, Rings
    <3>3. Heads'
      BY <1>1 DEF SlabInv, vars, Heads, HeadOf
    <3> QED
      BY <3>1, <3>2, <3>3
  <2>5. Hands' /\ Exclusive'
    <3>1. ASSUME NEW t \in Threads
          PROVE  (Holds(t)' <=> Holds(t)) /\ (KnowsGeneration(t)' <=> KnowsGeneration(t))
                 /\ StateAt(t)' = StateAt(t)
      BY <1>1 DEF vars, Holds, KnowsGeneration, StateAt
    <3>2. Exclusive'
      BY <1>1, <3>1 DEF SlabInv, vars, Exclusive
    <3>3. ASSUME NEW t \in Threads PROVE HandOf(t)'
      BY <1>1, <3>1 DEF SlabInv, Hands, vars, HandOf
    <3> QED
      BY <3>2, <3>3 DEF Hands
  <2> QED
    BY <2>2, <2>4, <2>5 DEF SlabInv
<1>2. ASSUME NEW t \in Threads, Step(t) PROVE SlabInv'
  <2>1. CASE QuietStep(t)
    BY <2>1, QuietInv
  <2>2. CASE MoveStep(t)
    BY <2>2, PopInv, PushInv, EnqueueInv, DequeueInv DEF MoveStep
  <2> QED
    BY <1>2, <2>1, <2>2, Steps
<1> QED
  BY <1>1, <1>2 DEF Next, Finished

-----------------------------------------------------------------------------
(* From the chain to the places of the slots *)

\* What holds of 0, and of i + 1 when it holds of i, holds of every n.
LEMMA IntervalInduction ==
  ASSUME NEW n \in Nat, NEW A, 0 \in A, \A i \in 0 .. n - 1 : i \in A => i + 1 \in A
  PROVE  n \in A
<1> SUFFICES ASSUME n \notin A PROVE FALSE
  OBVIOUS
<1> DEFINE B == A \cap 0 .. n
           f == [i \in B |-> i + 1]
<1>1. IsFiniteSet(B) /\ B \subseteq Nat /\ 0 \in B
  <2>1. IsFiniteSet(0 .. n)
    BY FS_Interval
  <2> QED
    BY <2>1, FS_Subset
<1>2. /\ IsFiniteSet(B \ {0})
      /\ Cardinality(B \ {0}) = Cardinality(B) - 1
      /\ Cardinality(B) \in Nat
  BY <1>1, FS_RemoveElement, FS_CardinalityType
<1>3. f \in Injection(B, B \ {0})
  <2>1. \A i \in B : i + 1 \in B \ {0}
    OBVIOUS
  <2>2. f \in [B -> B \ {0}]
    BY <2>1
  <2>3. \A i, j \in B : f[i] = f[j] => i = j
    BY <1>1
  <2> QED
    BY <2>2, <2>3 DEF Injection, IsInjective
<1>4. Cardinality(B) <= Cardinality(B \ {0})
  BY <1>2, <1>3, FS_Injection
<1> QED
  BY <1>2, <1>4

\* A set no two elements of which differ has one element, or none.
LEMMA AtMostOne ==
  ASSUME NEW S, \A x, y \in S : x = y
  PROVE  Cardinality(S) = IF S = {} THEN 0 ELSE 1
<1>1. CASE S = {}
  BY <1>1, FS_EmptySet
<1>2. CASE S # {}
  <2>1. PICK x : S = {x}
    BY <1>2
  <2> QED
    BY <1>2, <2>1, FS_Singleton
<1> QED
  BY <1>1, <1>2

\* A list of different slots is not longer than there are slots.
LEMMA ListFits ==
  ASSUME NEW list \in Seq(Slots), \A i, j \in DOMAIN list : list[i] = list[j] => i = j
  PROVE  Len(list) <= SlotCount
<1>1. DOMAIN list = 1 .. Len(list) /\ Len(list) \in Nat /\ \A i \in DOMAIN list : list[i] \in Slots
  BY ListFacts
<1>2. SlotCount \in Nat /\ IsFiniteSet(Slots) /\ Cardinality(Slots) = SlotCount
  <2>1. SlotCount \in Nat /\ 0 \in Int /\ SlotCount - 1 \in Int /\ (SlotCount - 1) - 0 + 1 = SlotCount
        /\ ~(0 > SlotCount - 1)
    BY SlabAssumption
  <2>2. /\ IsFiniteSet(0 .. SlotCount - 1)
        /\ Cardinality(0 .. SlotCount - 1) = (SlotCount - 1) - 0 + 1
    BY <2>1, FS_Interval
  <2> QED
    BY <2>1, <2>2 DEF Slots
<1>3. Cardinality(1 .. Len(list)) = Len(list) /\ IsFiniteSet(1 .. Len(list))
  <2>1. PICK n \in Nat : n = Len(list)
    BY <1>1
  <2>2. 1 \in Int /\ n \in Int /\ (IF 1 > n THEN 0 ELSE n - 1 + 1) = n
    OBVIOUS
  <2>3. Cardinality(1 .. n) = (IF 1 > n THEN 0 ELSE n - 1 + 1) /\ IsFiniteSet(1 .. n)
    BY <2>2, FS_Interval
  <2> QED
    BY <2>1, <2>2, <2>3
<1> DEFINE f == [i \in 1 .. Len(list) |-> list[i]]
<1>4. f \in Injection(1 .. Len(list), Slots)
  <2>1. f \in [1 .. Len(list) -> Slots]
    BY <1>1
  <2>2. \A i, j \in 1 .. Len(list) : f[i] = f[j] => i = j
    BY <1>1
  <2> QED
    BY <2>1, <2>2 DEF Injection, IsInjective
<1> HIDE DEF f
<1>5. Cardinality(1 .. Len(list)) <= Cardinality(Slots)
  BY <1>2, <1>4, FS_Injection
<1> QED
  BY <1>2, <1>3, <1>5

\* The walk from the head meets the items of the chain, in their order.
LEMMA WalkIs ==
  ASSUME NEW list \in Seq(Slots), Chained(list)
  PROVE  \A n \in 0 .. SlotCount : Walk[n] = ItemOrEnd(list, n + 1)
<1> DEFINE body(w, n) == IF n = 0 THEN free_head.index
                         ELSE IF w[n - 1] \in Slots THEN memory[w[n - 1]] ELSE FREE_LIST_END
           w == [n \in 0 .. SlotCount |-> ItemOrEnd(list, n + 1)]
<1>1. /\ SlotCount \in Nat /\ FREE_LIST_END \notin Slots
      /\ DOMAIN list = 1 .. Len(list) /\ Len(list) \in Nat
      /\ \A i \in DOMAIN list : list[i] \in Slots
  BY SlabAssumption, ListFacts DEF Slots, FREE_LIST_END
<1>2. ASSUME NEW n \in 0 .. SlotCount, n # 0
      PROVE  ItemOrEnd(list, n + 1) = IF ItemOrEnd(list, n) \in Slots
                                      THEN memory[ItemOrEnd(list, n)] ELSE FREE_LIST_END
  <2>1. CASE n \in DOMAIN list
    BY <1>1, <2>1 DEF Chained, ItemOrEnd
  <2>2. CASE n \notin DOMAIN list
    <3>1. n + 1 \notin DOMAIN list
      BY <1>1, <1>2, <2>2
    <3> QED
      BY <1>1, <2>2, <3>1 DEF ItemOrEnd
  <2> QED
    BY <2>1, <2>2
<1>3. ASSUME NEW n \in 0 .. SlotCount PROVE ItemOrEnd(list, n + 1) = body(w, n)
  <2>1. CASE n = 0
    <3>1. n + 1 = 1
      BY <2>1
    <3> QED
      BY <2>1, <3>1 DEF Chained
  <2>2. CASE n # 0
    <3>1. n - 1 \in 0 .. SlotCount /\ (n - 1) + 1 = n
      BY <1>1, <2>2
    <3>2. w[n - 1] = ItemOrEnd(list, n)
      BY <3>1
    <3> QED
      BY <1>2, <2>2, <3>2
  <2> QED
    BY <2>1, <2>2
<1>4. w = [n \in 0 .. SlotCount |-> body(w, n)]
  BY <1>3
<1>5. Walk = [n \in 0 .. SlotCount |-> body(Walk, n)]
  <2> HIDE DEF w
  <2> QED
    BY <1>4 DEF Walk
<1> DEFINE A == {n \in 0 .. SlotCount : Walk[n] = ItemOrEnd(list, n + 1)}
<1>6. 0 \in A
  <2>1. 0 \in 0 .. SlotCount /\ 0 + 1 = 1
    BY <1>1
  <2>2. Walk[0] = free_head.index
    BY <1>5, <2>1
  <2> QED
    BY <2>1, <2>2 DEF Chained
<1>7. ASSUME NEW n \in 0 .. SlotCount - 1, n \in A PROVE n + 1 \in A
  <2>1. n + 1 \in 0 .. SlotCount /\ n + 1 # 0 /\ (n + 1) - 1 = n
    BY <1>1
  <2>2. Walk[n + 1] = IF Walk[n] \in Slots THEN memory[Walk[n]] ELSE FREE_LIST_END
    BY <1>5, <2>1
  <2>3. Walk[n] = ItemOrEnd(list, n + 1)
    BY <1>7
  <2>4. Walk[n + 1] = ItemOrEnd(list, (n + 1) + 1)
    BY <1>2, <2>1, <2>2, <2>3
  <2> QED
    BY <2>1, <2>4
<1>8. ASSUME NEW n \in 0 .. SlotCount PROVE n \in A
  <2> HIDE DEF A
  <2>1. \A i \in 0 .. n - 1 : i \in A => i + 1 \in A
    BY <1>1, <1>7
  <2>2. n \in Nat
    BY <1>1
  <2> QED
    BY <1>6, <2>1, <2>2, IntervalInduction
<1> QED
  BY <1>8

\* The invariant puts every slot in exactly one place.
LEMMA PlacesExact == SlabInv => OwnershipExact
<1> SUFFICES ASSUME SlabInv PROVE OwnershipExact
  OBVIOUS
<1>1. PICK list \in Seq(Slots) : Chained(list)
  BY DEF SlabInv
<1>2. TypeOK /\ Hands /\ Rings /\ Exclusive
  BY DEF SlabInv
<1>3. OwnersAreNotRefused
  <2>1. "failed" \notin SenderSteps /\ "failed" \notin ReceiverSteps
    BY DEF SenderSteps, ReceiverSteps, SendSteps, DropSteps, FreeSteps
  <2> QED
    BY <1>2, <2>1 DEF Hands, HandOf, OwnersAreNotRefused
<1>4. ASSUME NEW s \in Slots
      PROVE  /\ OnFreeList(s) = IF Listed(list, s) THEN 1 ELSE 0
             /\ Cardinality(InHands(s)) = IF Held(s) THEN 1 ELSE 0
             /\ Cardinality(OnRing(s)) = IF OnItsWay(s) THEN 1 ELSE 0
             /\ OnRing(s) # {} <=> OnItsWay(s)
  <2>1. OnFreeList(s) = IF Listed(list, s) THEN 1 ELSE 0
    <3> DEFINE P == {n \in 0 .. SlotCount : Walk[n] = s}
    <3>1. /\ DOMAIN list = 1 .. Len(list) /\ Len(list) \in Nat /\ SlotCount \in Nat
          /\ Len(list) <= SlotCount /\ FREE_LIST_END \notin Slots
      BY <1>1, <1>2, ListFacts, ListFits, LinkTypes, SlabAssumption DEF Chained
    <3>2. ASSUME NEW n \in P PROVE n \in Nat /\ n + 1 \in DOMAIN list /\ list[n + 1] = s
      <4>1. n \in 0 .. SlotCount /\ ItemOrEnd(list, n + 1) = s
        BY <1>1, WalkIs
      <4> QED
        BY <3>1, <4>1 DEF ItemOrEnd
    <3>3. ASSUME NEW i \in DOMAIN list, list[i] = s PROVE i - 1 \in P
      <4>1. i - 1 \in 0 .. SlotCount /\ (i - 1) + 1 = i
        BY <3>1
      <4>2. Walk[i - 1] = ItemOrEnd(list, i)
        BY <1>1, <4>1, WalkIs
      <4> QED
        BY <3>3, <4>1, <4>2 DEF ItemOrEnd
    <3> HIDE DEF P
    <3>4. ASSUME NEW n \in P, NEW m \in P PROVE n = m
      <4>1. n + 1 = m + 1
        BY <1>1, <3>2 DEF Chained
      <4> QED
        BY <3>2, <4>1
    <3>5. P # {} <=> Listed(list, s)
      BY <3>2, <3>3 DEF Listed
    <3>6. Cardinality(P) = IF P = {} THEN 0 ELSE 1
      BY <3>4, AtMostOne
    <3>7. OnFreeList(s) = Cardinality(P)
      BY DEF OnFreeList, P
    <3> QED
      BY <3>5, <3>6, <3>7
  <2>2. Cardinality(InHands(s)) = IF Held(s) THEN 1 ELSE 0
    <3>1. \A t \in Threads : handle[t].index = s => Holds(t)
      BY <1>2, LinkTypes DEF Hands, HandOf, NoHandle
    <3>2. \A t, u \in InHands(s) : t = u
      BY <1>2, <3>1 DEF Exclusive, InHands
    <3>3. InHands(s) # {} <=> Held(s)
      BY <3>1 DEF InHands, Held
    <3>4. Cardinality(InHands(s)) = IF InHands(s) = {} THEN 0 ELSE 1
      BY <3>2, AtMostOne
    <3> QED
      BY <3>3, <3>4
  <2>3. OnRing(s) # {} <=> OnItsWay(s)
    <3>1. ASSUME NEW l \in Links, NEW i \in DOMAIN ring[l], ring[l][i].index = s
          PROVE  <<l, i>> \in OnRing(s)
      <4>1. i \in 1 .. Len(ring[l]) /\ Len(ring[l]) \in Nat
        BY <1>2, LinkTypes
      <4>2. Len(ring[l]) <= RingCapacity /\ RingCapacity \in Nat
        BY <1>2, SlabAssumption DEF TypeOK
      <4> QED
        BY <3>1, <4>1, <4>2 DEF OnRing
    <3>2. ASSUME NEW p \in OnRing(s)
          PROVE  p[1] \in Links /\ p[2] \in DOMAIN ring[p[1]] /\ ring[p[1]][p[2]].index = s
      BY <1>2, LinkTypes, SlabAssumption DEF OnRing
    <3> QED
      BY <3>1, <3>2 DEF OnItsWay
  <2>4. \A p, q \in OnRing(s) : p = q
    <3> SUFFICES ASSUME NEW p \in OnRing(s), NEW q \in OnRing(s) PROVE p = q
      OBVIOUS
    <3>1. /\ p \in Links \X (1 .. RingCapacity) /\ q \in Links \X (1 .. RingCapacity)
          /\ p[2] \in DOMAIN ring[p[1]] /\ ring[p[1]][p[2]].index = s
          /\ q[2] \in DOMAIN ring[q[1]] /\ ring[q[1]][q[2]].index = s
      BY <1>2, LinkTypes, SlabAssumption DEF OnRing
    <3>2. p[1] \in Links /\ q[1] \in Links /\ p = <<p[1], p[2]>> /\ q = <<q[1], q[2]>>
      BY <3>1
    <3>3. p[1] = q[1] /\ p[2] = q[2]
      BY <1>2, <3>1, <3>2 DEF Exclusive
    <3> QED
      BY <3>2, <3>3
  <2>5. Cardinality(OnRing(s)) = IF OnRing(s) = {} THEN 0 ELSE 1
    BY <2>4, AtMostOne
  <2> QED
    BY <2>1, <2>2, <2>3, <2>5
<1>5. ASSUME NEW s \in Slots
      PROVE  /\ Listed(list, s) => state[s] = "Free" /\ ~Held(s)
             /\ OnItsWay(s) => state[s] = "InFlight" /\ ~Held(s)
             /\ Listed(list, s) \/ Held(s) \/ OnItsWay(s)
  <2>1. Listed(list, s) => state[s] = "Free" /\ ~Held(s)
    BY <1>1 DEF Chained, Listed
  <2>2. OnItsWay(s) => state[s] = "InFlight" /\ ~Held(s)
    BY <1>2 DEF OnItsWay, Held, Rings, Exclusive
  <2> QED
    BY <1>1, <2>1, <2>2 DEF Chained
<1>6. SlotsAccounted
  <2> SUFFICES ASSUME NEW s \in Slots
               PROVE  /\ OnFreeList(s) + Cardinality(InHands(s)) + Cardinality(OnRing(s)) = 1
                      /\ OnFreeList(s) = 1 => state[s] = "Free"
                      /\ OnRing(s) # {} => state[s] = "InFlight"
    BY DEF SlotsAccounted
  <2> QED
    BY <1>4, <1>5
<1> QED
  BY <1>3, <1>6 DEF OwnershipExact

\* Whatever the threads do and however they interleave, every variable of
\* treiber.rs and of the rings keeps its type.
THEOREM SlabTypes == Spec => []TypeOK
<1>1. SlabInv => TypeOK
  BY DEF SlabInv
<1> QED
  BY <1>1, SlabInit, SlabStep, PTL DEF Spec

\* No two owners ever share a slot and none is lost, whatever pops and pushes
\* overlap: the tag of free_head rules out a link that is out of date. And no
\* try_alloc, mark_in_flight, read_slot or free of an owner is refused.
THEOREM SlabOwnership == Spec => []OwnershipExact
BY PlacesExact, SlabInit, SlabStep, PTL DEF Spec

-----------------------------------------------------------------------------
(* What the slots hold *)

\* The steps at which a sender has written its payload, and a receiver not yet
\* read the one it dequeued.
Marked == {"mark_generation", "mark_state", "enqueue"}
Reading == {"read_generation", "read_state", "read_payload"}
Taken(l) == IF pc[<<"receiver", l>>] \in Reading THEN 1 ELSE 0

\* A payload that was sent is one that was read, or it is in the slot that the
\* receiver holds, or in one on the ring: in that order.
FilledOf(l) ==
    /\ pc[<<"sender", l>>] \in Marked
         => memory[handle[<<"sender", l>>].index] = Payload(l)
    /\ Len(sent[l]) = Len(read[l]) + Taken(l) + Len(ring[l])
    /\ \A i \in 1 .. Len(read[l]) : read[l][i] = sent[l][i]
    /\ Taken(l) = 1 => memory[handle[<<"receiver", l>>].index] = sent[l][Len(read[l]) + 1]
    /\ \A i \in 1 .. Len(ring[l]) :
         memory[ring[l][i].index] = sent[l][Len(read[l]) + Taken(l) + i]
Filled == \A l \in Links : FilledOf(l)

\* The step of t sends and reads no payload, and overwrites none that was written.
Plain(t) ==
    /\ UNCHANGED <<sent, read, ring>>
    /\ \A u \in Threads \ {t} : pc'[u] = pc[u] /\ handle'[u] = handle[u]
    /\ \A l \in Links : Role(t) = "receiver" \/ l # Link(t) => begun'[l] = begun[l]
    /\ \A s \in Slots : ~(Holds(t) /\ handle[t].index = s) => memory'[s] = memory[s]
    /\ pc'[t] \in Reading <=> pc[t] \in Reading
    /\ pc[t] \in Reading => memory'[handle'[t].index] = memory[handle[t].index]
    /\ pc'[t] \in Marked => memory'[handle'[t].index] = Payload(Link(t))'

\* No step of t writes to a slot on a ring, or to one in other hands.
LEMMA OthersKeep ==
  ASSUME SlabInv, NEW t \in Threads,
         \A s \in Slots : ~(Holds(t) /\ handle[t].index = s) => memory'[s] = memory[s]
  PROVE  /\ \A l \in Links : \A i \in DOMAIN ring[l] :
              memory'[ring[l][i].index] = memory[ring[l][i].index]
         /\ \A u \in Threads \ {t} : Holds(u) => memory'[handle[u].index] = memory[handle[u].index]
<1>1. TypeOK /\ Hands /\ Exclusive
  BY DEF SlabInv
<1>2. \A l \in Links : \A i \in DOMAIN ring[l] : ring[l][i].index \in Slots
  BY <1>1, LinkTypes
<1>3. \A u \in Threads : Holds(u) => handle[u].index \in Slots
  BY <1>1 DEF Hands, HandOf
<1>4. ASSUME NEW l \in Links, NEW i \in DOMAIN ring[l]
      PROVE  memory'[ring[l][i].index] = memory[ring[l][i].index]
  BY <1>1, <1>2 DEF Exclusive
<1>5. ASSUME NEW u \in Threads \ {t}, Holds(u)
      PROVE  memory'[handle[u].index] = memory[handle[u].index]
  BY <1>1, <1>3, <1>5 DEF Exclusive
<1> QED
  BY <1>4, <1>5

\* A thread that writes, sends or reads a payload has a slot in its hands.
LEMMA MarkedHolds ==
  \A t \in Threads : pc[t] \in Marked \cup Reading => Holds(t)
BY DEF Marked, Reading, Holds, HoldSteps, SendSteps, FlightSteps

\* A step that sends and reads nothing leaves the payloads where they are.
LEMMA PlainFilled ==
  ASSUME SlabInv, Filled, NEW t \in Threads, Plain(t)
  PROVE  Filled'
<1> SUFFICES ASSUME NEW l \in Links PROVE FilledOf(l)'
  BY DEF Filled
<1> DEFINE s == <<"sender", l>>
           r == <<"receiver", l>>
<1>1. FilledOf(l) /\ TypeOK
  BY DEF Filled, SlabInv
<1>2. /\ s \in Threads /\ r \in Threads /\ s # r /\ Link(s) = l
      /\ Role(s) = "sender" /\ Role(r) = "receiver" /\ t = <<Role(t), Link(t)>>
      /\ Role(t) \in {"sender", "receiver"}
  BY Roles
<1>3. /\ \A i \in DOMAIN ring[l] : memory'[ring[l][i].index] = memory[ring[l][i].index]
      /\ \A u \in Threads \ {t} : Holds(u) => memory'[handle[u].index] = memory[handle[u].index]
  BY OthersKeep DEF Plain
<1>4. sent'[l] = sent[l] /\ read'[l] = read[l] /\ ring'[l] = ring[l]
  BY DEF Plain
<1>5. DOMAIN ring[l] = 1 .. Len(ring[l])
  BY <1>1, LinkTypes
<1> HIDE DEF s, r
<1>6. Taken(l)' = Taken(l)
  <2>1. pc'[r] \in Reading <=> pc[r] \in Reading
    BY <1>2 DEF Plain
  <2> QED
    BY <2>1 DEF Taken, r
<1>7. pc'[s] \in Marked => memory'[handle'[s].index] = Payload(l)'
  <2>1. CASE s = t
    BY <1>2, <2>1 DEF Plain
  <2>2. CASE s # t
    <3>1. pc'[s] = pc[s] /\ handle'[s] = handle[s]
      BY <1>2, <2>2 DEF Plain
    <3>2. begun'[l] = begun[l]
      BY <1>2, <2>2 DEF Plain, s
    <3>3. pc[s] \in Marked => memory[handle[s].index] = Payload(l)
      BY <1>1 DEF FilledOf, s
    <3>4. pc[s] \in Marked => memory'[handle[s].index] = memory[handle[s].index]
      BY <1>2, <1>3, <2>2, MarkedHolds
    <3> QED
      BY <3>1, <3>2, <3>3, <3>4 DEF Payload
  <2> QED
    BY <2>1, <2>2
<1>8. Taken(l) = 1 => memory'[handle'[r].index] = memory[handle[r].index]
  <2> SUFFICES ASSUME Taken(l) = 1 PROVE memory'[handle'[r].index] = memory[handle[r].index]
    OBVIOUS
  <2>0. pc[r] \in Reading
    BY DEF Taken, r
  <2>1. CASE r = t
    BY <2>0, <2>1 DEF Plain
  <2>2. CASE r # t
    BY <1>2, <1>3, <2>0, <2>2, MarkedHolds DEF Plain
  <2> QED
    BY <2>1, <2>2
<1>9. Taken(l) = 1 => memory[handle[r].index] = sent[l][Len(read[l]) + 1]
  BY <1>1 DEF FilledOf, r
<1>10. (pc[s] \in Marked)' => (memory[handle[s].index] = Payload(l))'
  BY <1>7 DEF s
<1>11. (Taken(l) = 1 => memory[handle[r].index] = sent[l][Len(read[l]) + 1])'
  BY <1>4, <1>6, <1>8, <1>9 DEF r
<1>12. /\ Len(sent[l])' = Len(read[l])' + Taken(l)' + Len(ring[l])'
       /\ \A i \in 1 .. Len(read'[l]) : read'[l][i] = sent'[l][i]
  BY <1>1, <1>4, <1>6 DEF FilledOf
<1>13. ASSUME NEW i \in 1 .. Len(ring'[l])
       PROVE  memory'[ring'[l][i].index] = sent'[l][Len(read'[l]) + Taken(l)' + i]
  <2>1. i \in 1 .. Len(ring[l]) /\ memory[ring[l][i].index] = sent[l][Len(read[l]) + Taken(l) + i]
    BY <1>1, <1>4 DEF FilledOf
  <2> QED
    BY <1>3, <1>4, <1>5, <1>6, <2>1
<1> QED
  BY <1>10, <1>11, <1>12, <1>13 DEF FilledOf, s, r

\* Every step but enqueue, dequeue and the read of a payload is a plain one.
LEMMA PlainSteps ==
  ASSUME SlabInv, Filled, NEW t \in Threads, Step(t),
         ~Enqueue(t), ~Dequeue(t), ~ReadPayload(t)
  PROVE  Plain(t)
<1> USE DEF Goto, Fail, Marked, Reading
<1>1. /\ TypeOK /\ HandOf(t) /\ Link(t) \in Links
      /\ Role(t) \in {"sender", "receiver"} /\ t = <<Role(t), Link(t)>>
  BY Roles DEF SlabInv, Hands
<1>2. pc[t] \in Marked => memory[handle[t].index] = Payload(Link(t))
  <2>1. pc[t] \in Marked => Role(t) = "sender"
    BY <1>1 DEF HandOf, ReceiverSteps, DropSteps
  <2>2. pc[<<"sender", Link(t)>>] \in Marked
          => memory[handle[<<"sender", Link(t)>>].index] = Payload(Link(t))
    BY <1>1 DEF Filled, FilledOf
  <2> QED
    BY <1>1, <2>1, <2>2
<1>3. CASE /\ \A u \in Threads \ {t} : pc'[u] = pc[u] /\ handle'[u] = handle[u]
           /\ UNCHANGED <<sent, read, ring, begun, memory>>
           /\ pc'[t] \in Reading <=> pc[t] \in Reading
           /\ pc[t] \in Reading => handle'[t].index = handle[t].index
           /\ pc'[t] \in Marked => pc[t] \in Marked /\ handle'[t].index = handle[t].index
  BY <1>2, <1>3 DEF Plain, Payload
<1>4. CASE AllocLoadHead(t)
  <2>1. pc[t] \in {"idle", "retry"} /\ (Role(t) = "receiver" => pc[t] # "idle")
    BY <1>4 DEF AllocLoadHead
  <2>2. \A l \in Links \ {Link(t)} : begun'[l] = begun[l]
    BY <1>1, <1>4 DEF AllocLoadHead, TypeOK
  <2>3. Role(t) = "receiver" => begun' = begun
    BY <1>4, <2>1 DEF AllocLoadHead
  <2> QED
    BY <1>1, <1>4, <2>1, <2>2, <2>3 DEF AllocLoadHead, Plain, TypeOK
<1>5. CASE AllocLoadNext(t) \/ AllocCas(t) \/ AllocSetState(t) \/ AllocBumpGeneration(t)
  <2>1. CASE AllocLoadNext(t)
    BY <1>1, <1>3, <2>1 DEF AllocLoadNext, TypeOK
  <2>2. CASE AllocCas(t)
    BY <1>1, <1>3, <2>2 DEF AllocCas, CasFails, TypeOK
  <2>3. CASE AllocSetState(t)
    BY <1>1, <1>3, <2>3 DEF AllocSetState, TypeOK
  <2>4. CASE AllocBumpGeneration(t)
    BY <1>1, <1>3, <2>4 DEF AllocBumpGeneration, TypeOK
  <2> QED
    BY <1>5, <2>1, <2>2, <2>3, <2>4
<1>6. CASE CopyToSlot(t)
  <2>1. pc[t] = "copy" /\ handle[t].index \in Slots /\ Holds(t)
    BY <1>1, <1>6 DEF CopyToSlot, HandOf, Holds, HoldSteps, SendSteps
  <2>2. memory'[handle[t].index] = Payload(Link(t)) /\ Payload(Link(t))' = Payload(Link(t))
    BY <1>1, <1>6, <2>1 DEF CopyToSlot, TypeOK, Payload
  <2>3. \A s \in Slots : ~(Holds(t) /\ handle[t].index = s) => memory'[s] = memory[s]
    BY <1>1, <1>6, <2>1 DEF CopyToSlot, TypeOK
  <2> QED
    BY <1>1, <1>6, <2>1, <2>2, <2>3 DEF CopyToSlot, Plain, TypeOK
<1>7. CASE MarkInFlight(t)
  BY <1>1, <1>3, <1>7 DEF MarkInFlight, MarkCheckGeneration, MarkSetState, TypeOK
<1>8. CASE ReadCheckGeneration(t) \/ ReadCheckState(t)
  <2>1. CASE ReadCheckGeneration(t)
    <3>1. generation[handle[t].index] = handle[t].generation
      BY <1>1, <2>1 DEF ReadCheckGeneration, HandOf, KnowsGeneration, Holds, HoldSteps, FreeSteps,
                        FlightSteps
    <3> QED
      BY <1>1, <1>3, <2>1, <3>1 DEF ReadCheckGeneration, TypeOK
  <2>2. CASE ReadCheckState(t)
    <3>1. state[handle[t].index] = "InFlight"
      BY <1>1, <2>2 DEF ReadCheckState, HandOf, StateAt, Holds, HoldSteps, FreeSteps, FlightSteps
    <3> QED
      BY <1>1, <1>3, <2>2, <3>1 DEF ReadCheckState, TypeOK
  <2> QED
    BY <1>8, <2>1, <2>2
<1>9. CASE FreeCheckGeneration(t) \/ FreeSetState(t) \/ PushLoadHead(t) \/ PushCas(t)
  <2>1. CASE FreeCheckGeneration(t)
    BY <1>1, <1>3, <2>1 DEF FreeCheckGeneration, TypeOK
  <2>2. CASE FreeSetState(t)
    BY <1>1, <1>3, <2>2 DEF FreeSetState, TypeOK
  <2>3. CASE PushLoadHead(t)
    BY <1>1, <1>3, <2>3 DEF PushLoadHead, TypeOK
  <2>4. CASE PushCas(t)
    BY <1>1, <1>3, <2>4 DEF PushCas, CasFails, TypeOK
  <2> QED
    BY <1>9, <2>1, <2>2, <2>3, <2>4
<1>10. CASE PushLink(t)
  <2>1. pc[t] = "push_link" /\ Holds(t)
    BY <1>10 DEF PushLink, Holds, HoldSteps, FreeSteps
  <2>2. \A s \in Slots : ~(Holds(t) /\ handle[t].index = s) => memory'[s] = memory[s]
    BY <1>1, <1>10, <2>1 DEF PushLink, TypeOK
  <2> QED
    BY <1>1, <1>10, <2>1, <2>2 DEF PushLink, Plain, TypeOK
<1> QED
  BY <1>4, <1>5, <1>6, <1>7, <1>8, <1>9, <1>10
  DEF Step, TryAlloc, ReadSlot, Free, PushToFreeList

\* The links that a step does not touch stay as they are.
LEMMA OtherLinks ==
  ASSUME NEW t \in Threads, NEW l \in Links \ {Link(t)}, FilledOf(l),
         UNCHANGED <<memory, begun>>,
         \A u \in Threads \ {t} : pc'[u] = pc[u] /\ handle'[u] = handle[u],
         sent'[l] = sent[l], read'[l] = read[l], ring'[l] = ring[l]
  PROVE  FilledOf(l)'
<1>1. /\ <<"sender", l>> \in Threads \ {t} /\ <<"receiver", l>> \in Threads \ {t}
  BY Roles
<1>2. /\ pc'[<<"sender", l>>] = pc[<<"sender", l>>] /\ handle'[<<"sender", l>>] = handle[<<"sender", l>>]
      /\ pc'[<<"receiver", l>>] = pc[<<"receiver", l>>]
      /\ handle'[<<"receiver", l>>] = handle[<<"receiver", l>>]
  BY <1>1
<1>3. Taken(l)' = Taken(l) /\ Payload(l)' = Payload(l)
  BY <1>2 DEF Taken, Payload
<1> QED
  BY <1>2, <1>3 DEF FilledOf

\* The receiver reads the next payload that was sent.
LEMMA ReadFilled ==
  ASSUME SlabInv, Filled, NEW t \in Threads, ReadPayload(t)
  PROVE  Filled'
<1> DEFINE l == Link(t)
           s == <<"sender", l>>
<1>1. /\ TypeOK /\ HandOf(t) /\ l \in Links /\ FilledOf(l) /\ s \in Threads
      /\ Role(t) \in {"sender", "receiver"} /\ t = <<Role(t), l>>
  BY Roles DEF SlabInv, Hands, Filled
<1>2. pc[t] = "read_payload" /\ Role(t) = "receiver" /\ t = <<"receiver", l>> /\ s # t
  BY <1>1 DEF ReadPayload, HandOf, SenderSteps, SendSteps, DropSteps, FreeSteps
<1>3. /\ pc' = [pc EXCEPT ![t] = "free_generation"]
      /\ read' = [read EXCEPT ![l] = Append(read[l], memory[handle[t].index])]
      /\ UNCHANGED <<memory, ring, handle, begun, sent>>
  BY DEF ReadPayload, Goto
<1>4. \A u \in Threads \ {t} : pc'[u] = pc[u] /\ handle'[u] = handle[u]
  BY <1>3 DEF TypeOK
<1>5. Taken(l) = 1 /\ Taken(l)' = 0
  BY <1>1, <1>2, <1>3 DEF Taken, Reading, TypeOK
<1>6. PICK e : e = memory[handle[t].index]
  OBVIOUS
<1>7. e \in Nat /\ read[l] \in Seq(Nat) /\ read'[l] = Append(read[l], e)
      /\ e = sent[l][Len(read[l]) + 1]
  <2>1. e \in Nat
    BY <1>1, <1>2, <1>6 DEF HandOf, Holds, HoldSteps, FlightSteps, TypeOK
  <2>2. read[l] \in Seq(Nat) /\ read'[l] = Append(read[l], e)
    BY <1>1, <1>3, <1>6 DEF TypeOK
  <2>3. e = sent[l][Len(read[l]) + 1]
    BY <1>1, <1>2, <1>5, <1>6 DEF FilledOf
  <2> QED
    BY <2>1, <2>2, <2>3
<1> HIDE DEF l
<1>8. PICK q : q = read[l]
  OBVIOUS
<1>9. PICK r : r = read'[l]
  OBVIOUS
<1>10. /\ Len(q) \in Nat /\ Len(r) = Len(q) + 1 /\ DOMAIN q = 1 .. Len(q)
       /\ \A i \in DOMAIN q : r[i] = q[i]
       /\ r[Len(q) + 1] = e
  <2>1. q \in Seq(Nat) /\ r = Append(q, e)
    BY <1>7, <1>8, <1>9
  <2>2. AtEnd(q, e, r)
    BY <1>7, <2>1, Appended
  <2> QED
    BY <2>2 DEF AtEnd
<1>11. /\ Len(sent[l]) = Len(q) + 1 + Len(ring[l]) /\ Len(ring[l]) \in Nat
       /\ \A i \in 1 .. Len(q) : q[i] = sent[l][i]
       /\ \A i \in 1 .. Len(ring[l]) : memory[ring[l][i].index] = sent[l][Len(q) + 1 + i]
       /\ pc[s] \in Marked => memory[handle[s].index] = Payload(l)
  BY <1>1, <1>5, <1>8, LinkTypes DEF FilledOf
<1>12. FilledOf(l)'
  <2>1. Len(sent'[l]) = Len(read'[l]) + Taken(l)' + Len(ring'[l])
    <3>1. Len(read'[l]) = Len(q) + 1 /\ Taken(l)' = 0 /\ sent'[l] = sent[l] /\ ring'[l] = ring[l]
      BY <1>3, <1>5, <1>9, <1>10
    <3>2. Len(q) + 1 + 0 + Len(ring[l]) = Len(q) + 1 + Len(ring[l])
      BY <1>10, <1>11
    <3> QED
      BY <1>11, <3>1, <3>2
  <2>2. ASSUME NEW i \in 1 .. Len(r) PROVE r[i] = sent'[l][i]
    <3>1. i \in 1 .. Len(q) \/ i = Len(q) + 1
      BY <1>10
    <3> QED
      BY <1>3, <1>7, <1>8, <1>10, <1>11, <3>1
  <2>3. ASSUME NEW i \in 1 .. Len(ring'[l])
        PROVE  memory'[ring'[l][i].index] = sent'[l][Len(r) + Taken(l)' + i]
    <3>1. i \in 1 .. Len(ring[l]) /\ Len(r) + Taken(l)' + i = Len(q) + 1 + i
      BY <1>3, <1>5, <1>10, <1>11
    <3> QED
      BY <1>3, <1>11, <3>1
  <2>4. (pc[<<"sender", l>>] \in Marked => memory[handle[<<"sender", l>>].index] = Payload(l))'
    BY <1>1, <1>2, <1>3, <1>4, <1>11 DEF Payload
  <2> QED
    BY <1>5, <1>9, <2>1, <2>2, <2>3, <2>4 DEF FilledOf
<1>13. ASSUME NEW m \in Links \ {l} PROVE FilledOf(m)'
  <2>1. read'[m] = read[m] /\ FilledOf(m)
    BY <1>1, <1>3 DEF TypeOK, Filled
  <2> QED
    BY <1>3, <1>4, <2>1, OtherLinks DEF l
<1> QED
  BY <1>12, <1>13 DEF Filled

\* The payload in the slot of the sender is the last one that was sent.
LEMMA EnqueueFilled ==
  ASSUME SlabInv, Filled, NEW t \in Threads, Enqueue(t)
  PROVE  Filled'
<1> DEFINE l == Link(t)
           r == <<"receiver", l>>
<1>1. /\ TypeOK /\ HandOf(t) /\ l \in Links /\ FilledOf(l) /\ r \in Threads
      /\ Role(t) \in {"sender", "receiver"} /\ t = <<Role(t), l>>
  BY Roles DEF SlabInv, Hands, Filled
<1>2. pc[t] = "enqueue" /\ Role(t) = "sender" /\ t = <<"sender", l>> /\ r # t
  BY <1>1 DEF Enqueue, HandOf, ReceiverSteps, DropSteps
<1>3. /\ ring' = [ring EXCEPT ![l] = Append(ring[l], handle[t])]
      /\ sent' = [sent EXCEPT ![l] = Append(sent[l], Payload(l))]
      /\ handle' = [handle EXCEPT ![t] = NoHandle]
      /\ pc' = [pc EXCEPT ![t] = "idle"]
      /\ UNCHANGED <<memory, begun, read>>
  BY DEF Enqueue, Goto
<1>4. /\ \A u \in Threads \ {t} : pc'[u] = pc[u] /\ handle'[u] = handle[u]
      /\ pc'[t] = "idle"
  BY <1>1, <1>3 DEF TypeOK
<1>5. Taken(l)' = Taken(l) /\ Taken(l) \in {0, 1}
  BY <1>1, <1>2, <1>4 DEF Taken
<1>6. /\ handle[t].index \in Slots /\ memory[handle[t].index] = Payload(l) /\ Payload(l) \in Nat
      /\ handle[t] \in [index : Slots, generation : Nat]
  <2>1. handle[t].index \in Slots
    BY <1>1, <1>2 DEF HandOf, Holds, HoldSteps, FlightSteps
  <2>2. memory[handle[t].index] = Payload(l)
    BY <1>1, <1>2 DEF FilledOf, Marked
  <2> QED
    BY <1>1, <2>1, <2>2, PayloadTypes DEF TypeOK
<1>7. PICK h : h = handle[t]
  OBVIOUS
<1>8. PICK p : p = Payload(l)
  OBVIOUS
<1> HIDE DEF l, r
<1>9. PICK q : q = ring[l]
  OBVIOUS
<1>10. PICK q2 : q2 = ring'[l]
  OBVIOUS
<1>11. PICK z : z = sent[l]
  OBVIOUS
<1>12. PICK z2 : z2 = sent'[l]
  OBVIOUS
<1>13. /\ Len(q) \in Nat /\ Len(q2) = Len(q) + 1 /\ DOMAIN q = 1 .. Len(q)
       /\ \A i \in DOMAIN q : q2[i] = q[i]
       /\ q2[Len(q) + 1] = h
  <2>1. /\ q \in Seq([index : Slots, generation : Nat]) /\ q2 = Append(q, h)
        /\ h \in [index : Slots, generation : Nat]
    BY <1>1, <1>3, <1>6, <1>7, <1>9, <1>10 DEF TypeOK
  <2>2. AtEnd(q, h, q2)
    BY <2>1, Appended
  <2> QED
    BY <2>2 DEF AtEnd
<1>14. /\ Len(z) \in Nat /\ Len(z2) = Len(z) + 1 /\ DOMAIN z = 1 .. Len(z)
       /\ \A i \in DOMAIN z : z2[i] = z[i]
       /\ z2[Len(z) + 1] = p
  <2>1. z \in Seq(Nat) /\ z2 = Append(z, p) /\ p \in Nat
    BY <1>1, <1>3, <1>6, <1>8, <1>11, <1>12 DEF TypeOK
  <2>2. AtEnd(z, p, z2)
    BY <2>1, Appended
  <2> QED
    BY <2>2 DEF AtEnd
<1>15. PICK d : d = read[l]
  OBVIOUS
<1>16. PICK k \in {0, 1} : k = Taken(l)
  BY <1>5
<1>17. Len(d) \in Nat
  BY <1>1, <1>15, LenProperties DEF TypeOK
<1>18. /\ Len(z) = Len(d) + k + Len(q)
       /\ \A i \in 1 .. Len(d) : d[i] = z[i]
       /\ \A i \in 1 .. Len(q) : memory[q[i].index] = z[Len(d) + k + i]
       /\ k = 1 => memory[handle[r].index] = z[Len(d) + 1]
  BY <1>1, <1>9, <1>11, <1>15, <1>16 DEF FilledOf, r
<1>19. FilledOf(l)'
  <2>1. Len(z2) = Len(d) + k + Len(q2)
    BY <1>13, <1>14, <1>17, <1>18
  <2>2. ASSUME NEW i \in 1 .. Len(d) PROVE d[i] = z2[i]
    <3>1. i \in 1 .. Len(z)
      BY <1>13, <1>14, <1>17, <1>18
    <3> QED
      BY <1>14, <1>18, <3>1
  <2>3. ASSUME NEW i \in 1 .. Len(q2) PROVE memory[q2[i].index] = z2[Len(d) + k + i]
    <3>1. CASE i \in 1 .. Len(q)
      <4>1. Len(d) + k + i \in 1 .. Len(z)
        BY <1>13, <1>17, <1>18, <3>1
      <4> QED
        BY <1>13, <1>14, <1>18, <3>1, <4>1
    <3>2. CASE i = Len(q) + 1
      <4>1. Len(d) + k + i = Len(z) + 1
        BY <1>13, <1>17, <1>18, <3>2
      <4> QED
        BY <1>6, <1>7, <1>8, <1>13, <1>14, <3>2, <4>1
    <3> QED
      BY <1>13, <3>1, <3>2
  <2>4. k = 1 => memory[handle'[r].index] = z2[Len(d) + 1]
    <3>1. k = 1 => Len(d) + 1 \in 1 .. Len(z)
      BY <1>13, <1>17, <1>18
    <3> QED
      BY <1>1, <1>2, <1>4, <1>14, <1>18, <3>1
  <2>5. (pc[<<"sender", l>>] \notin Marked)'
    BY <1>2, <1>4 DEF Marked, l
  <2>6. memory' = memory /\ read'[l] = d /\ Taken(l)' = k /\ ring'[l] = q2 /\ sent'[l] = z2
    BY <1>3, <1>5, <1>10, <1>12, <1>15, <1>16
  <2> QED
    BY <2>1, <2>2, <2>3, <2>4, <2>5, <2>6 DEF FilledOf, l, r
<1>20. ASSUME NEW m \in Links \ {l} PROVE FilledOf(m)'
  <2>1. ring'[m] = ring[m] /\ sent'[m] = sent[m] /\ FilledOf(m)
    BY <1>1, <1>3 DEF TypeOK, Filled
  <2> QED
    BY <1>3, <1>4, <2>1, OtherLinks DEF l
<1> QED
  BY <1>19, <1>20 DEF Filled

\* The slot at the head of the ring holds the next payload to be read.
LEMMA DequeueFilled ==
  ASSUME SlabInv, Filled, NEW t \in Threads, Dequeue(t)
  PROVE  Filled'
<1> DEFINE l == Link(t)
           s == <<"sender", l>>
<1>1. /\ TypeOK /\ HandOf(t) /\ l \in Links /\ FilledOf(l) /\ s \in Threads /\ s # t
      /\ t = <<"receiver", l>> /\ pc[t] = "idle" /\ ring[l] # <<>>
  BY Roles DEF SlabInv, Hands, Filled, Dequeue
<1>2. /\ ring' = [ring EXCEPT ![l] = Tail(ring[l])]
      /\ handle' = [handle EXCEPT ![t] = Head(ring[l])]
      /\ pc' = [pc EXCEPT ![t] = "read_generation"]
      /\ UNCHANGED <<memory, begun, sent, read>>
  BY DEF Dequeue, Goto
<1>3. /\ \A u \in Threads \ {t} : pc'[u] = pc[u] /\ handle'[u] = handle[u]
      /\ pc'[t] = "read_generation" /\ handle'[t] = Head(ring[l])
  BY <1>1, <1>2 DEF TypeOK
<1>4. Taken(l) = 0 /\ Taken(l)' = 1
  BY <1>1, <1>3 DEF Taken, Reading
<1> HIDE DEF l, s
<1>5. PICK q : q = ring[l]
  OBVIOUS
<1>6. PICK r : r = ring'[l]
  OBVIOUS
<1>7. /\ Len(q) \in Nat /\ Len(r) \in Nat /\ Len(q) = Len(r) + 1
      /\ Head(q) = q[1]
      /\ \A i \in 1 .. Len(r) : r[i] = q[i + 1]
  <2>1. q \in Seq([index : Slots, generation : Nat]) /\ q # <<>> /\ r = Tail(q)
    BY <1>1, <1>2, <1>5, <1>6 DEF TypeOK
  <2>2. AfterHead(q, r)
    BY <2>1, WithoutHead
  <2> QED
    BY <2>2 DEF AfterHead
<1>8. PICK d : d = read[l]
  OBVIOUS
<1>9. PICK z : z = sent[l]
  OBVIOUS
<1>10. Len(d) \in Nat
  BY <1>1, <1>8, LenProperties DEF TypeOK
<1>11. /\ Len(z) = Len(d) + 0 + Len(q)
       /\ \A i \in 1 .. Len(d) : d[i] = z[i]
       /\ \A i \in 1 .. Len(q) : memory[q[i].index] = z[Len(d) + 0 + i]
       /\ pc[s] \in Marked => memory[handle[s].index] = Payload(l)
  BY <1>1, <1>4, <1>5, <1>8, <1>9 DEF FilledOf, s
<1>12. FilledOf(l)'
  <2>1. Len(z) = Len(d) + 1 + Len(r)
    BY <1>7, <1>10, <1>11
  <2>2. ASSUME NEW i \in 1 .. Len(r) PROVE memory[r[i].index] = z[Len(d) + 1 + i]
    <3>1. i + 1 \in 1 .. Len(q) /\ Len(d) + 0 + (i + 1) = Len(d) + 1 + i
      BY <1>7, <1>10
    <3> QED
      BY <1>7, <1>11, <3>1
  <2>3. memory[handle'[t].index] = z[Len(d) + 1]
    <3>1. 1 \in 1 .. Len(q) /\ Len(d) + 0 + 1 = Len(d) + 1
      BY <1>7, <1>10
    <3> QED
      BY <1>3, <1>5, <1>7, <1>11, <3>1
  <2>4. pc'[s] \in Marked => memory'[handle'[s].index] = Payload(l)'
    BY <1>1, <1>2, <1>3, <1>11 DEF Payload
  <2>5. /\ memory' = memory /\ read'[l] = d /\ Taken(l)' = 1 /\ ring'[l] = r /\ sent'[l] = z
    BY <1>2, <1>4, <1>6, <1>8, <1>9
  <2> QED
    BY <1>1, <1>11, <2>1, <2>2, <2>3, <2>4, <2>5 DEF FilledOf, l, s
<1>13. ASSUME NEW m \in Links \ {l} PROVE FilledOf(m)'
  <2>1. ring'[m] = ring[m] /\ FilledOf(m)
    BY <1>1, <1>2 DEF TypeOK, Filled
  <2> QED
    BY <1>2, <1>3, <2>1, OtherLinks DEF l
<1> QED
  BY <1>12, <1>13 DEF Filled

\* At first nothing was sent.
LEMMA FilledInit == Init => Filled
<1> SUFFICES ASSUME Init, NEW l \in Links PROVE FilledOf(l)
  BY DEF Filled
<1>1. /\ pc[<<"sender", l>>] = "idle" /\ pc[<<"receiver", l>>] = "idle"
      /\ sent[l] = <<>> /\ read[l] = <<>> /\ ring[l] = <<>>
  BY Roles DEF Init
<1>2. Taken(l) = 0
  BY <1>1 DEF Taken, Reading
<1>3. Len(<<>>) = 0
  BY EmptySeq
<1> QED
  BY <1>1, <1>2, <1>3 DEF FilledOf, Marked

\* Every step of every thread keeps each payload in its slot until it is read.
LEMMA FilledStep == SlabInv /\ Filled /\ [Next]_vars => Filled'
<1> SUFFICES ASSUME SlabInv, Filled, [Next]_vars PROVE Filled'
  OBVIOUS
<1>1. CASE UNCHANGED vars
  <2>1. ASSUME NEW l \in Links PROVE Taken(l)' = Taken(l) /\ Payload(l)' = Payload(l) /\ FilledOf(l)
    BY <1>1 DEF vars, Taken, Payload, Filled
  <2> QED
    BY <1>1, <2>1 DEF vars, Filled, FilledOf
<1>2. ASSUME NEW t \in Threads, Step(t) PROVE Filled'
  BY <1>2, PlainSteps, PlainFilled, ReadFilled, EnqueueFilled, DequeueFilled
<1> QED
  BY <1>1, <1>2 DEF Next, Finished

\* So what was read is the beginning of what was sent.
LEMMA FilledSuffices == SlabInv /\ Filled => PayloadsArriveIntact
<1> SUFFICES ASSUME SlabInv, Filled, NEW l \in Links
             PROVE  Len(read[l]) <= Len(sent[l]) /\ read[l] = SubSeq(sent[l], 1, Len(read[l]))
  BY DEF PayloadsArriveIntact
<1>1. FilledOf(l) /\ TypeOK
  BY DEF Filled, SlabInv
<1>2. PICK q : q = read[l]
  OBVIOUS
<1>3. PICK z : z = sent[l]
  OBVIOUS
<1>4. q \in Seq(Nat) /\ z \in Seq(Nat)
  BY <1>1, <1>2, <1>3 DEF TypeOK
<1>5. Len(q) \in Nat /\ Len(z) \in Nat /\ Len(q) <= Len(z) /\ \A i \in 1 .. Len(q) : q[i] = z[i]
  <2>1. Len(ring[l]) \in Nat /\ Taken(l) \in Nat
    BY <1>1, LinkTypes DEF Taken
  <2>2. Len(q) \in Nat /\ Len(z) \in Nat
    BY <1>4, LenProperties
  <2>3. Len(z) = Len(q) + Taken(l) + Len(ring[l]) /\ \A i \in 1 .. Len(q) : q[i] = z[i]
    BY <1>1, <1>2, <1>3 DEF FilledOf
  <2> QED
    BY <2>1, <2>2, <2>3
<1>6. q = SubSeq(z, 1, Len(q))
  BY <1>4, <1>5, SubSeqProperties, SeqEqual, LenProperties
<1> QED
  BY <1>2, <1>3, <1>5, <1>6

\* What a receiver reads are the payloads its sender sent, whole and in order,
\* although the links of the free list share the bytes of the slots.
THEOREM SlabPayloads == Spec => []PayloadsArriveIntact
<1>1. Init => SlabInv /\ Filled
  BY SlabInit, FilledInit
<1>2. SlabInv /\ Filled /\ [Next]_vars => (SlabInv /\ Filled)'
  BY SlabStep, FilledStep
<1> QED
  BY <1>1, <1>2, FilledSuffices, PTL DEF Spec

-----------------------------------------------------------------------------
(* The ring: positions *)

USE RingAssumption DEF Positions

(* The masked position is a slot of the ring (enqueue and dequeue).          *)
LEMMA SlotInRange == \A i \in Nat : Slot(i) \in Positions
  BY DEF Slot

(* Positions less than Capacity apart never share a slot.                    *)
LEMMA SlotsDistinct ==
  ASSUME NEW i \in Nat, NEW j \in Nat, i < j, j - i < Capacity
  PROVE  Slot(i) # Slot(j)
<1> DEFINE q(k) == k \div Capacity
<1>1. \A k \in Nat : q(k) \in Nat /\ k = Capacity * q(k) + Slot(k) /\ Slot(k) \in Nat
  BY DEF Slot
<1>2. SUFFICES ASSUME Slot(i) = Slot(j) PROVE FALSE
  OBVIOUS
<1> HIDE DEF q
<1>3. j - i = Capacity * (q(j) - q(i))
  BY <1>1, <1>2
<1>4. q(j) - q(i) \in Int
  BY <1>1
<1>5. \A d \in Int, c \in Nat \ {0} : c * d < c /\ c * d > 0 => FALSE
  OBVIOUS
<1>6. QED
  BY <1>3, <1>4, <1>5
-----------------------------------------------------------------------------
(* The inductive invariant *)

\* The private head runs ahead of the published one only while the entry is
\* written and not yet published, in a slot outside the published range.
ProducerInv ==
    /\ p_pc = "publish" => /\ local_head = visible_head + 1
                           /\ local_head - tail <= Capacity
                           /\ entries[Slot(visible_head)] = p_entry
    /\ p_pc # "publish" => local_head = visible_head
    /\ p_pc = "write" => local_head - tail < Capacity
    /\ p_pc # "idle" => p_entry \in Values

\* A consumer inside dequeue has a published entry in front of it, and has
\* read it when it is about to move tail.
ConsumerInv ==
    /\ c_pc # "idle" => tail < visible_head
    /\ c_pc = "advance" => c_entry = entries[Slot(tail)]

\* The published range is never longer than the ring, and every entry in it
\* is a descriptor somebody pushed.
PublishedInv ==
    /\ tail <= visible_head
    /\ visible_head - tail <= Capacity
    /\ \A i \in Nat : tail <= i /\ i < visible_head => entries[Slot(i)] \in Values

RingInv == RingTypeOK /\ ProducerInv /\ ConsumerInv /\ PublishedInv

\* A ring fresh from SpscRingHeader::init satisfies the invariant.
LEMMA InitRingInv == RingInit => RingInv
  BY DEF RingInit, RingInv, RingTypeOK, ProducerInv, ConsumerInv, PublishedInv

\* Every step of enqueue, of dequeue and of split keeps the invariant.
LEMMA NextRingInv == RingInv /\ [RingNext]_ringVars => RingInv'
<1> SUFFICES ASSUME RingInv, [RingNext]_ringVars PROVE RingInv'
  OBVIOUS
<1> USE DEF RingInv, RingTypeOK, shared, producer, consumer
<1>1. ASSUME NEW v \in Values, EnqueueCheck(v) PROVE RingInv'
  BY <1>1 DEF EnqueueCheck, RingFull, ProducerInv, ConsumerInv, PublishedInv
<1>2. ASSUME EnqueueWrite PROVE RingInv'
  <2> USE <1>2 DEF EnqueueWrite
  <2>1. local_head = visible_head /\ local_head - tail < Capacity /\ p_entry \in Values
    BY DEF ProducerInv
  <2>2. RingTypeOK'
    BY <2>1, SlotInRange
  <2>3. \A i \in Nat : tail <= i /\ i < visible_head
                        => entries'[Slot(i)] = entries[Slot(i)]
    BY <2>1, SlotsDistinct
  <2>4. entries'[Slot(local_head)] = p_entry
    BY <2>1, SlotInRange
  <2>5. ProducerInv'
    BY <2>1, <2>4 DEF ProducerInv
  <2>6. ConsumerInv'
    BY <2>3 DEF ConsumerInv
  <2>7. PublishedInv'
    BY <2>3 DEF PublishedInv
  <2> QED
    BY <2>2, <2>5, <2>6, <2>7
<1>3. ASSUME EnqueuePublish PROVE RingInv'
  <2> USE <1>3 DEF EnqueuePublish
  <2>1. /\ local_head = visible_head + 1 /\ local_head - tail <= Capacity
        /\ entries[Slot(visible_head)] \in Values
    BY DEF ProducerInv
  <2>2. \A i \in Nat : i < visible_head + 1 => i < visible_head \/ i = visible_head
    OBVIOUS
  <2> QED
    BY <2>1, <2>2 DEF ProducerInv, ConsumerInv, PublishedInv
<1>4. CASE SplitProducer
  BY <1>4 DEF SplitProducer, ProducerInv, ConsumerInv, PublishedInv
<1>5. CASE DequeueCheck
  BY <1>5 DEF DequeueCheck, ProducerInv, ConsumerInv, PublishedInv
<1>6. CASE DequeueRead
  <2>1. entries[Slot(tail)] \in Values
    BY <1>6 DEF DequeueRead, ConsumerInv, PublishedInv
  <2> QED
    BY <1>6, <2>1 DEF DequeueRead, ProducerInv, ConsumerInv, PublishedInv
<1>7. CASE DequeueAdvance
  <2>1. c_entry \in Values /\ tail < visible_head
    BY <1>7 DEF DequeueAdvance, ConsumerInv, PublishedInv
  <2>2. received' \in Seq(Values)
    BY <1>7, <2>1 DEF DequeueAdvance
  <2> QED
    BY <1>7, <2>1, <2>2 DEF DequeueAdvance, ProducerInv, ConsumerInv, PublishedInv
<1>8. CASE SplitConsumer
  BY <1>8 DEF SplitConsumer, ProducerInv, ConsumerInv, PublishedInv
<1>9. CASE UNCHANGED ringVars
  BY <1>9 DEF ringVars, ProducerInv, ConsumerInv, PublishedInv
<1> QED
  BY <1>1, <1>2, <1>3, <1>4, <1>5, <1>6, <1>7, <1>8, <1>9 DEF RingNext

\* Whatever the two processes do, and whoever takes over from them, the heads
\* and the tail of the ring stay within Capacity of each other, and what is
\* published stays whole.
THEOREM RingInvariant == RingSpec => []RingInv
  BY InitRingInv, NextRingInv, PTL DEF RingSpec

\* The state of the ring, the producer and the consumer stays well typed.
THEOREM RingTypes == RingSpec => []RingTypeOK
<1>1. RingInv => RingTypeOK
  BY DEF RingInv
<1> QED
  BY <1>1, RingInvariant, PTL

\* The producer and the consumer never copy the same slot at the same time,
\* whatever the capacity and the interleaving.
THEOREM NoTornReads == RingSpec => []NoTornRead
<1>1. RingInv => NoTornRead
  BY SlotsDistinct DEF RingInv, RingTypeOK, ProducerInv, ConsumerInv, NoTornRead
<1> QED
  BY <1>1, RingInvariant, PTL

-----------------------------------------------------------------------------
(* Refinement *)

(* Sequences are equal when their elements are. *)
LEMMA AppendByElements ==
  ASSUME NEW S, NEW s \in Seq(S), NEW t \in Seq(S), NEW e \in S,
         Len(t) = Len(s) + 1, t[Len(t)] = e, \A i \in 1 .. Len(s) : t[i] = s[i]
  PROVE  t = Append(s, e)
<1>1. Append(s, e) \in Seq(S) /\ Len(Append(s, e)) = Len(t)
  BY AppendProperties
<1>2. \A i \in 1 .. Len(t) : t[i] = Append(s, e)[i]
  BY AppendProperties, LenProperties
<1> QED
  BY <1>1, <1>2, SeqEqual

(* Likewise for what is left of a sequence without its head.                 *)
LEMMA TailByElements ==
  ASSUME NEW S, NEW s \in Seq(S), NEW t \in Seq(S),
         Len(s) = Len(t) + 1, \A i \in 1 .. Len(t) : t[i] = s[i + 1]
  PROVE  s # <<>> /\ Head(s) = s[1] /\ t = Tail(s)
<1>1. s # <<>>
  BY LenProperties, EmptySeq
<1>2. Tail(s) \in Seq(S) /\ Len(Tail(s)) = Len(t)
      /\ \A i \in 1 .. Len(Tail(s)) : Tail(s)[i] = s[i + 1]
  BY <1>1, HeadTailProperties, LenProperties
<1>3. t = Tail(s)
  BY <1>2, SeqEqual
<1> QED
  BY <1>1, <1>3

\* An empty ring is an empty queue.
LEMMA InitRefines == RingInit => Queue!Init
  BY DEF RingInit, Queue!Init, Published

\* Publishing is the abstract Put: the range grows by the entry just written.
LEMMA PublishRefines ==
  ASSUME RingInv, EnqueuePublish
  PROVE  Queue!Put(p_entry)
<1> USE DEF RingInv, RingTypeOK, consumer
<1> USE EnqueuePublish DEF EnqueuePublish
<1>1. /\ local_head = visible_head + 1 /\ local_head - tail <= Capacity
      /\ entries[Slot(visible_head)] = p_entry /\ p_entry \in Values
  BY DEF ProducerInv
<1>2. PICK n \in Nat : n = visible_head - tail
  BY DEF PublishedInv
<1>3. visible_head' - tail' = n + 1 /\ visible_head = tail + n
  BY <1>1, <1>2
<1>4. Published \in Seq(Values) /\ Len(Published) = n
  BY <1>2 DEF Published, PublishedInv
<1>5. Published' = [i \in 1 .. (n + 1) |-> entries[Slot(tail + i - 1)]]
  BY <1>3 DEF Published
<1>6. \A i \in 1 .. n : Published'[i] = Published[i]
  BY <1>2, <1>5 DEF Published
<1>7. Published'[n + 1] = p_entry
  BY <1>1, <1>3, <1>5
<1>8. Published' = Append(Published, p_entry)
  <2>1. Published' \in Seq(Values) /\ Len(Published') = n + 1
    <3>1. \A i \in 1 .. n + 1 : i \in 1 .. n \/ i = n + 1
      OBVIOUS
    <3>2. \A i \in 1 .. n : Published[i] \in Values
      BY <1>4, ElementOfSeq
    <3>3. \A i \in 1 .. n + 1 : Published'[i] \in Values
      BY <1>1, <1>6, <1>7, <3>1, <3>2
    <3>4. Published' \in [1 .. n + 1 -> Values]
      BY <1>5, <3>3
    <3> QED
      BY <3>4, LenProperties, SeqDef
  <2> QED
    BY <1>1, <1>4, <1>6, <1>7, <2>1, AppendByElements
<1>9. Len(Published) < Capacity
  BY <1>1, <1>2, <1>4
<1> QED
  BY <1>8, <1>9 DEF Queue!Put

\* Advancing tail is the abstract Get: the entry returned is the oldest one.
LEMMA AdvanceRefines ==
  ASSUME RingInv, DequeueAdvance
  PROVE  Queue!Get
<1> USE DEF RingInv, RingTypeOK, producer
<1> USE DequeueAdvance DEF DequeueAdvance
<1>1. tail < visible_head /\ c_entry = entries[Slot(tail)]
  BY DEF ConsumerInv
<1>2. PICK n \in Nat : n = visible_head - (tail + 1)
  BY <1>1
<1>3. Published = [i \in 1 .. (n + 1) |-> entries[Slot(tail + i - 1)]]
  BY <1>2 DEF Published
<1>4. Published' = [i \in 1 .. n |-> entries[Slot(tail + i)]]
  BY <1>2 DEF Published
<1>5. Published \in Seq(Values) /\ Len(Published) = n + 1
  BY <1>2, <1>3 DEF PublishedInv
<1>6. Published' \in Seq(Values) /\ Len(Published') = n
  BY <1>2, <1>4 DEF PublishedInv
<1>7. Published[1] = c_entry /\ \A i \in 1 .. n : Published'[i] = Published[i + 1]
  BY <1>1, <1>2, <1>3, <1>4
<1>8. Published # <<>> /\ Head(Published) = c_entry /\ Published' = Tail(Published)
  BY <1>5, <1>6, <1>7, TailByElements
<1> QED
  BY <1>8 DEF Queue!Get

\* The ring implements the bounded FIFO queue for every capacity: no entry is
\* lost, duplicated, reordered or torn, even when either side is replaced in
\* the middle of an operation.
THEOREM RingRefinesQueue == RingSpec => RefinesQueue
<1>1. RingInv /\ [RingNext]_ringVars => [Queue!Next]_(Queue!vars)
  <2> SUFFICES ASSUME RingInv, [RingNext]_ringVars
               PROVE  Queue!Next \/ UNCHANGED Queue!vars
    BY DEF Queue!vars
  <2>1. CASE EnqueuePublish
    <3>1. p_entry \in Values
      BY <2>1 DEF RingInv, ProducerInv, EnqueuePublish
    <3> QED
      BY <2>1, <3>1, PublishRefines DEF Queue!Next
  <2>2. CASE DequeueAdvance
    BY <2>2, AdvanceRefines DEF Queue!Next
  <2>3. CASE EnqueueWrite
    <3> USE DEF RingInv, RingTypeOK, consumer
    <3>1. /\ \A i \in Nat : tail <= i /\ i < visible_head
                             => entries'[Slot(i)] = entries[Slot(i)]
          /\ UNCHANGED <<visible_head, tail, received>>
      BY <2>3, SlotsDistinct DEF EnqueueWrite, ProducerInv
    <3>2. Published' = Published
      BY <3>1 DEF Published
    <3> QED
      BY <3>1, <3>2 DEF Queue!vars
  <2>4. CASE \E v \in Values : EnqueueCheck(v)
    BY <2>4 DEF EnqueueCheck, shared, consumer, Queue!vars, Published
  <2>5. CASE SplitProducer \/ DequeueCheck \/ DequeueRead \/ SplitConsumer
    BY <2>5 DEF SplitProducer, DequeueCheck, DequeueRead, SplitConsumer,
                shared, producer, consumer, Queue!vars, Published
  <2>6. CASE UNCHANGED ringVars
    BY <2>6 DEF ringVars, Queue!vars, Published
  <2> QED
    BY <2>1, <2>2, <2>3, <2>4, <2>5, <2>6 DEF RingNext
<1> QED
  BY <1>1, InitRefines, RingInvariant, PTL DEF RingSpec, RefinesQueue, Queue!Spec
====
