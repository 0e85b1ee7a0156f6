---- MODULE SpscRing ----
(***************************************************************************)
(* The single-producer single-consumer ring of shm-primitives              *)
(* (rust/shm-primitives/src/spsc.rs): one step per shared-memory access, so *)
(* that every interleaving of the two processes is a behaviour.  Copying a *)
(* descriptor in or out is not atomic: "write" and "read" are the states   *)
(* in which the copy is under way.                                         *)
(*                                                                         *)
(* The indices are u64 and never wrap in the model; MaxPushes bounds them  *)
(* for TLC.  The mask of the code is a remainder, the capacity being a     *)
(* power of two there.                                                     *)
(***************************************************************************)
EXTENDS Naturals, Sequences

CONSTANTS Values,     \* the descriptors that can be pushed
          NoEntry,    \* the contents of a slot never written
          Capacity,   \* the number of slots
          MaxPushes   \* bound on the number of pushes

ASSUME RingAssumption ==
    /\ Capacity \in Nat \ {0}
    /\ MaxPushes \in Nat
    /\ NoEntry \notin Values

VARIABLES
    visible_head,  \* header: published by the producer
    tail,          \* header: advanced by the consumer
    entries,       \* the slots
    local_head,    \* the producer's private head
    p_pc, p_entry, \* where the producer is in enqueue, and its argument
    c_pc, c_entry, \* where the consumer is in dequeue, and what it has read
    received       \* history: what dequeue has returned, in order

shared == <<visible_head, tail, entries>>
producer == <<local_head, p_pc, p_entry>>
consumer == <<c_pc, c_entry, received>>
ringVars == <<visible_head, tail, entries, local_head, p_pc, p_entry,
          c_pc, c_entry, received>>

Positions == 0 .. Capacity - 1
Slot(i) == i % Capacity

RingInit ==
    /\ visible_head = 0
    /\ tail = 0
    /\ entries = [s \in Positions |-> NoEntry]
    /\ local_head = 0
    /\ p_pc = "idle"
    /\ p_entry = NoEntry
    /\ c_pc = "idle"
    /\ c_entry = NoEntry
    /\ received = <<>>

-----------------------------------------------------------------------------
(* The producer: SpscRingRaw::enqueue, one step per access *)

\* Mutant of RingFull: the comparison off by one.
RingFullOffByOne == local_head - tail > Capacity

RingFull == local_head - tail >= Capacity

\* Load tail; a full ring is reported to the caller and nothing changes.
EnqueueCheck(v) ==
    /\ p_pc = "idle"
    /\ local_head < MaxPushes
    /\ ~RingFull
    /\ p_pc' = "write"
    /\ p_entry' = v
    /\ UNCHANGED <<shared, local_head, consumer>>

\* Copy the entry into its slot and advance the private head.
EnqueueWrite ==
    /\ p_pc = "write"
    /\ entries' = [entries EXCEPT ![Slot(local_head)] = p_entry]
    /\ local_head' = local_head + 1
    /\ p_pc' = "publish"
    /\ UNCHANGED <<visible_head, tail, p_entry, consumer>>

EnqueuePublish ==
    /\ p_pc = "publish"
    /\ visible_head' = local_head
    /\ p_pc' = "idle"
    /\ UNCHANGED <<tail, entries, local_head, p_entry, consumer>>

\* Mutant of SplitProducer: the new handle starts at zero, as the transports'
\* own local_send_head does.
SplitProducerAtZero ==
    /\ p_pc' = "idle"
    /\ local_head' = 0
    /\ UNCHANGED <<shared, p_entry, consumer>>

\* A new producer handle on the same memory (SpscRing::split), after the old
\* one was dropped or its process died at any point of enqueue.
SplitProducer ==
    /\ p_pc' = "idle"
    /\ local_head' = visible_head
    /\ UNCHANGED <<shared, p_entry, consumer>>

-----------------------------------------------------------------------------
(* The consumer: SpscRingRaw::dequeue, one step per access *)

\* Mutant of DequeueCheck: no test for an empty ring.
DequeueCheckUntested ==
    /\ c_pc = "idle"
    /\ c_pc' = "read"
    /\ UNCHANGED <<shared, producer, c_entry, received>>

\* Mutant of DequeueCheck: the last entry is taken for an empty ring.
DequeueCheckKeepsLast ==
    /\ c_pc = "idle"
    /\ tail + 1 < visible_head
    /\ c_pc' = "read"
    /\ UNCHANGED <<shared, producer, c_entry, received>>

\* Load tail and visible_head; an empty ring yields None and nothing changes.
DequeueCheck ==
    /\ c_pc = "idle"
    /\ tail < visible_head
    /\ c_pc' = "read"
    /\ UNCHANGED <<shared, producer, c_entry, received>>

DequeueRead ==
    /\ c_pc = "read"
    /\ c_entry' = entries[Slot(tail)]
    /\ c_pc' = "advance"
    /\ UNCHANGED <<shared, producer, received>>

DequeueAdvance ==
    /\ c_pc = "advance"
    /\ tail' = tail + 1
    /\ received' = Append(received, c_entry)
    /\ c_pc' = "idle"
    /\ UNCHANGED <<visible_head, entries, producer, c_entry>>

\* A new consumer handle; dequeue keeps no state on the caller's side.
SplitConsumer ==
    /\ c_pc' = "idle"
    /\ UNCHANGED <<shared, producer, c_entry, received>>

-----------------------------------------------------------------------------
RingNext ==
    \/ \E v \in Values : EnqueueCheck(v)
    \/ EnqueueWrite
    \/ EnqueuePublish
    \/ SplitProducer
    \/ DequeueCheck
    \/ DequeueRead
    \/ DequeueAdvance
    \/ SplitConsumer

RingSpec == RingInit /\ [][RingNext]_ringVars

\* A process inside enqueue or dequeue goes on, and a consumer that polls and
\* finds an entry takes it.  Nothing is assumed of the callers that push.
\* Handles may be re-split, but not for ever in the middle of a dequeue.
FairRingSpec ==
    /\ RingSpec
    /\ WF_ringVars(EnqueueWrite) /\ WF_ringVars(EnqueuePublish)
    /\ WF_ringVars(DequeueCheck)
    /\ SF_ringVars(DequeueRead) /\ SF_ringVars(DequeueAdvance)

-----------------------------------------------------------------------------
(* Properties *)

\* Every variable stays within its type.
RingTypeOK ==
    /\ visible_head \in Nat /\ tail \in Nat /\ local_head \in Nat
    /\ entries \in [Positions -> Values \cup {NoEntry}]
    /\ p_pc \in {"idle", "write", "publish"}
    /\ p_entry \in Values \cup {NoEntry}
    /\ c_pc \in {"idle", "read", "advance"}
    /\ c_entry \in Values \cup {NoEntry}
    /\ received \in Seq(Values)

\* The producer never copies into the slot the consumer is copying out of.
NoTornRead ==
    p_pc = "write" /\ c_pc = "read" => Slot(local_head) # Slot(tail)

\* The published part of the memory, read from tail to visible_head, is a
\* bounded FIFO queue whatever the interleaving, and stays one when either
\* side dies in the middle of an operation and a new handle takes over.
Published ==
    [i \in 1 .. (visible_head - tail) |-> entries[Slot(tail + i - 1)]]

Queue == INSTANCE BoundedQueue
         WITH queue <- Published, delivered <- received

RefinesQueue == Queue!Spec

\* Every published entry is eventually dequeued.
EveryEntryDequeued ==
    \A n \in 1 .. MaxPushes : (visible_head >= n) ~> (tail >= n)
====
