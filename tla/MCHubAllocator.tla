---- MODULE MCHubAllocator ----
EXTENDS HubAllocator, SegmentLayout, TLC

\* Two slots in class 0, one in class 1.
MCFirstSlot == [c \in 0 .. 2 |-> <<0, 2, 3>>[c + 1]]

\* The five classes with fewer slots, one of them no power of two; peers and rings up to
\* the largest the code takes, and what it refuses.
MCHubSizeClasses == <<[slot_size |-> 1024, slot_count |-> 4], [slot_size |-> 16384, slot_count |-> 3],
                      [slot_size |-> 262144, slot_count |-> 2], [slot_size |-> 4194304, slot_count |-> 1],
                      [slot_size |-> 16777216, slot_count |-> 1]>>
MCHubConfigs == [max_peers : {0, 1, 2, 3, 32, 33}, ring_capacity : {0, 1, 3, 4, 256}]
MCSegmentConfigs == [ring_capacity : {0, 1, 3, 256}, slot_size : {0, 1, 4, 6, 100, 4096},
                     slot_count : {0, 1, 5, 64}]

Symmetry == Permutations(Cells)

\* What a thread can no longer read is not told apart: its locals between two
\* operations and after its death, head, next and gen outside their use.
Keep(local, steps, default) ==
    [t \in Threads |-> IF pc[t] \in steps THEN local[t] ELSE default]
Busy == Steps \ {"idle"}
View ==
    <<free_head, state, generation, next_free, owner_peer, data, wire, pc,
      Keep(cls, Busy, 0), Keep(slot, Busy, 0),
      Keep(gen, SendSteps \cup {"copy_out", "free_gen"}, 0),
      Keep(head, {"load_next", "cas_pop", "link_next", "cas_push"}, 0),
      Keep(next, {"cas_pop"}, 0),
      Keep(payload, AllocSteps \cup SendSteps \cup {"copy_out"}, 0),
      Keep(link, Busy, 0), scan, dead, removed, allocs, free_list>>

\* Every struct has a place of its own in the file, and the slot a descriptor on a ring
\* names is one its receiver finds there.
SlotsLieApart ==
    /\ LayoutSound
    /\ \A d \in wire : LET c == ClassOf(d.slot)
                       IN  IsFoundAgain(c + 1, d.slot - FirstSlot[c], 0)
====
