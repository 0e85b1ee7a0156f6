---- MODULE HubAllocator ----
(***************************************************************************)
(* The slot allocator of the shared-memory hub                             *)
(* (rust/rapace-core/src/transport/shm/hub_alloc.rs) and the two users of  *)
(* it: send_frame (alloc, copy in, mark_in_flight, hand the descriptor     *)
(* over) and recv_frame (copy out, free), run by threads of the host and   *)
(* by single-threaded cells, any of which may die between two steps; and   *)
(* remove_peer, with which the host takes back the slots of a dead cell.   *)
(*                                                                         *)
(* One step per access to shared memory.  pc[t] names the access thread t  *)
(* is about to make.  Slots are numbered class after class; FirstSlot      *)
(* gives the first slot of every class, and its last value the number of   *)
(* slots.  A compare_exchange_weak that fails although the head is the     *)
(* expected one only loads it again, and is left out.  What a frame        *)
(* carries is a number of its own.                                         *)
(***************************************************************************)
EXTENDS Integers, Sequences, FiniteSets

CONSTANTS NumClasses,     \* NUM_SIZE_CLASSES
          FirstSlot,      \* [0 .. NumClasses -> Nat], see above
          HostThreads,    \* threads of the host
          Cells,          \* cell processes, one thread each; also the owner ids
          Mortals,        \* the cells that may die
          NO_OWNER,
          FREE_LIST_END,
          QuiesceFirst,   \* does the host drop a dead cell's transport, and the
                          \* tasks that use it, before it calls remove_peer?
          MaxAllocs       \* bound on the number of allocations

Threads == HostThreads \cup Cells
Classes == 0 .. NumClasses - 1
Slots == 0 .. FirstSlot[NumClasses] - 1
SlotsOf(c) == FirstSlot[c] .. FirstSlot[c + 1] - 1

ASSUME AllocatorAssumption ==
    /\ NumClasses \in Nat \ {0}
    /\ FirstSlot \in [0 .. NumClasses -> Nat]
    /\ FirstSlot[0] = 0
    /\ \A c \in Classes : FirstSlot[c] < FirstSlot[c + 1]
    /\ HostThreads \cap Cells = {}
    /\ Mortals \subseteq Cells
    /\ NO_OWNER \notin Cells
    /\ FREE_LIST_END \notin Slots
    /\ QuiesceFirst \in BOOLEAN
    /\ MaxAllocs \in Nat

ClassOf(s) == CHOOSE c \in Classes : s \in SlotsOf(c)

VARIABLES
    free_head,   \* [Classes -> [index, tag]]: the packed word of each class
    state,       \* [Slots -> "Free" | "Allocated" | "InFlight"]
    generation,  \* [Slots -> Nat]
    next_free,   \* [Slots -> Slots \cup {FREE_LIST_END}]
    owner_peer,  \* [Slots -> Cells \cup {NO_OWNER}]
    data,        \* [Slots -> Nat]: the frame whose bytes each slot holds
    wire,        \* descriptors enqueued on the rings and not yet dequeued
    pc, cls, slot, gen, head, next, payload, link, \* the locals of each thread
    scan,        \* the next slot remove_peer looks at, by thread
    dead,        \* the cells that have died
    removed,     \* the cells remove_peer was called for
    allocs,      \* how many allocations were begun
    free_list    \* history: the slots on each free list, from the top

memory == <<state, generation, next_free, owner_peer, data>>
locals == <<cls, slot, gen, head, next, payload, link>>
peers == <<dead, removed>>
vars == <<free_head, state, generation, next_free, owner_peer, data, wire,
          pc, cls, slot, gen, head, next, payload, link, scan,
          dead, removed, allocs, free_list>>

States == {"Free", "Allocated", "InFlight"}
Descriptors == [slot : Slots, gen : Nat, payload : Nat, link : Cells, to_host : BOOLEAN]

AllocSteps == {"load_head", "load_next", "cas_pop"}
SendSteps == {"set_allocated", "set_owner", "load_gen", "copy_in",
              "mark_gen", "mark_state", "mark_store", "enqueue"}
FreeSteps == {"free_gen", "free_state", "clear_owner", "bump_gen", "set_free",
              "load_top", "link_next", "cas_push"}
ScanSteps == {"scan_owner", "scan_state", "scan_force", "scan_gen"}
Steps == {"idle", "copy_out"} \cup AllocSteps \cup SendSteps \cup FreeSteps \cup ScanSteps

Goto(t, step) == pc' = [pc EXCEPT ![t] = step]
At(t, step) == t \notin dead /\ pc[t] = step

\* The transport of link p is no longer used once the host has dropped it.
Dropped(p) == QuiesceFirst /\ p \in removed

\* init_extent_free_list for the one extent create() gives every class.
Init ==
    /\ free_head = [c \in Classes |-> [index |-> FirstSlot[c], tag |-> 1]]
    /\ state = [s \in Slots |-> "Free"]
    /\ generation = [s \in Slots |-> 0]
    /\ next_free = [s \in Slots |->
                       IF s + 1 \in SlotsOf(ClassOf(s)) THEN s + 1 ELSE FREE_LIST_END]
    /\ owner_peer = [s \in Slots |-> NO_OWNER]
    /\ data = [s \in Slots |-> 0]
    /\ wire = {}
    /\ pc = [t \in Threads |-> "idle"]
    /\ cls = [t \in Threads |-> 0]
    /\ slot = [t \in Threads |-> 0]
    /\ gen = [t \in Threads |-> 0]
    /\ head = [t \in Threads |-> free_head[0]]
    /\ next = [t \in Threads |-> FREE_LIST_END]
    /\ payload = [t \in Threads |-> 0]
    /\ link = [t \in Threads |-> NO_OWNER]
    /\ scan = [t \in Threads |-> -1]
    /\ dead = {}
    /\ removed = {}
    /\ allocs = 0
    /\ free_list = [c \in Classes |->
                       [i \in 1 .. (FirstSlot[c + 1] - FirstSlot[c]) |-> FirstSlot[c] + i - 1]]

-----------------------------------------------------------------------------
(* alloc and alloc_from_class *)

\* send_frame on link p with a payload that needs a slot of class c at least.
AllocBegin(t, p, c) ==
    /\ At(t, "idle")
    /\ allocs < MaxAllocs
    /\ t \in Cells => p = t
    /\ ~Dropped(p)
    /\ allocs' = allocs + 1
    /\ cls' = [cls EXCEPT ![t] = c]
    /\ link' = [link EXCEPT ![t] = p]
    /\ payload' = [payload EXCEPT ![t] = allocs + 1]
    /\ Goto(t, "load_head")
    /\ UNCHANGED <<free_head, memory, wire, slot, gen, head, next, scan, peers, free_list>>

\* An empty class sends the search on to the next larger one; after the last
\* one alloc reports NoFreeSlots.
AllocLoadHead(t) ==
    /\ At(t, "load_head")
    /\ head' = [head EXCEPT ![t] = free_head[cls[t]]]
    /\ \/ /\ free_head[cls[t]].index # FREE_LIST_END
          /\ slot' = [slot EXCEPT ![t] = free_head[cls[t]].index]
          /\ Goto(t, "load_next")
          /\ UNCHANGED cls
       \/ /\ free_head[cls[t]].index = FREE_LIST_END
          /\ cls[t] + 1 \in Classes
          /\ cls' = [cls EXCEPT ![t] = @ + 1]
          /\ UNCHANGED <<pc, slot>>
       \/ /\ free_head[cls[t]].index = FREE_LIST_END
          /\ cls[t] + 1 \notin Classes
          /\ Goto(t, "idle")
          /\ UNCHANGED <<cls, slot>>
    /\ UNCHANGED <<free_head, memory, wire, gen, next, payload, link, scan, peers,
                   allocs, free_list>>

AllocLoadNext(t) ==
    /\ At(t, "load_next")
    /\ next' = [next EXCEPT ![t] = next_free[slot[t]]]
    /\ Goto(t, "cas_pop")
    /\ UNCHANGED <<free_head, memory, wire, cls, slot, gen, head, payload, link, scan,
                   peers, allocs, free_list>>

\* Mutant of AllocCas: the tag is not compared (the ABA problem).
AllocCasUntagged(t) ==
    /\ At(t, "cas_pop")
    /\ \/ /\ free_head[cls[t]].index = head[t].index
          /\ free_head' = [free_head EXCEPT ![cls[t]] =
                              [index |-> next[t], tag |-> head[t].tag + 1]]
          /\ free_list' = [free_list EXCEPT ![cls[t]] = Tail(@)]
          /\ Goto(t, "set_allocated")
       \/ /\ free_head[cls[t]].index # head[t].index
          /\ Goto(t, "load_head")
          /\ UNCHANGED <<free_head, free_list>>
    /\ UNCHANGED <<memory, wire, locals, scan, peers, allocs>>

\* Mutant of AllocCas: the head is stored, not compared.
AllocCasBlind(t) ==
    /\ At(t, "cas_pop")
    /\ free_head' = [free_head EXCEPT ![cls[t]] = [index |-> next[t], tag |-> head[t].tag + 1]]
    /\ free_list' = [free_list EXCEPT ![cls[t]] = Tail(@)]
    /\ Goto(t, "set_allocated")
    /\ UNCHANGED <<memory, wire, locals, scan, peers, allocs>>

AllocCas(t) ==
    /\ At(t, "cas_pop")
    /\ \/ /\ free_head[cls[t]] = head[t]
          /\ free_head' = [free_head EXCEPT ![cls[t]] =
                              [index |-> next[t], tag |-> head[t].tag + 1]]
          /\ free_list' = [free_list EXCEPT ![cls[t]] = Tail(@)]
          /\ Goto(t, "set_allocated")
       \/ /\ free_head[cls[t]] # head[t]
          /\ Goto(t, "load_head")
          /\ UNCHANGED <<free_head, free_list>>
    /\ UNCHANGED <<memory, wire, locals, scan, peers, allocs>>

AllocSetState(t) ==
    /\ At(t, "set_allocated")
    /\ state' = [state EXCEPT ![slot[t]] = "Allocated"]
    /\ Goto(t, "set_owner")
    /\ UNCHANGED <<free_head, generation, next_free, owner_peer, data, wire, locals,
                   scan, peers, allocs, free_list>>

AllocSetOwner(t) ==
    /\ At(t, "set_owner")
    /\ owner_peer' = [owner_peer EXCEPT ![slot[t]] = link[t]]
    /\ Goto(t, "load_gen")
    /\ UNCHANGED <<free_head, state, generation, next_free, data, wire, locals,
                   scan, peers, allocs, free_list>>

AllocLoadGen(t) ==
    /\ At(t, "load_gen")
    /\ gen' = [gen EXCEPT ![t] = generation[slot[t]]]
    /\ Goto(t, "copy_in")
    /\ UNCHANGED <<free_head, memory, wire, cls, slot, head, next, payload, link, scan,
                   peers, allocs, free_list>>

-----------------------------------------------------------------------------
(* The rest of send_frame: copy the payload, mark_in_flight, enqueue *)

SendCopy(t) ==
    /\ At(t, "copy_in")
    /\ data' = [data EXCEPT ![slot[t]] = payload[t]]
    /\ Goto(t, "mark_gen")
    /\ UNCHANGED <<free_head, state, generation, next_free, owner_peer, wire, locals,
                   scan, peers, allocs, free_list>>

\* StaleGeneration makes send_frame fail; the slot is not given back.
MarkCheckGeneration(t) ==
    /\ At(t, "mark_gen")
    /\ Goto(t, IF generation[slot[t]] = gen[t] THEN "mark_state" ELSE "idle")
    /\ UNCHANGED <<free_head, memory, wire, locals, scan, peers, allocs, free_list>>

\* InvalidState likewise.
MarkCheckState(t) ==
    /\ At(t, "mark_state")
    /\ Goto(t, IF state[slot[t]] = "Allocated" THEN "mark_store" ELSE "idle")
    /\ UNCHANGED <<free_head, memory, wire, locals, scan, peers, allocs, free_list>>

MarkStore(t) ==
    /\ At(t, "mark_store")
    /\ state' = [state EXCEPT ![slot[t]] = "InFlight"]
    /\ Goto(t, "enqueue")
    /\ UNCHANGED <<free_head, generation, next_free, owner_peer, data, wire, locals,
                   scan, peers, allocs, free_list>>

\* The ring is modelled in SpscRing; here it is a set of descriptors.
SendEnqueue(t) ==
    /\ At(t, "enqueue")
    /\ wire' = wire \cup {[slot |-> slot[t], gen |-> gen[t], payload |-> payload[t],
                           link |-> link[t], to_host |-> t \in Cells]}
    /\ Goto(t, "idle")
    /\ UNCHANGED <<free_head, memory, locals, scan, peers, allocs, free_list>>

-----------------------------------------------------------------------------
(* recv_frame: dequeue, copy the payload out, free *)

Receive(t, d) ==
    /\ At(t, "idle")
    /\ d.to_host = (t \in HostThreads)
    /\ t \in Cells => d.link = t
    /\ ~Dropped(d.link)
    /\ wire' = wire \ {d}
    /\ slot' = [slot EXCEPT ![t] = d.slot]
    /\ gen' = [gen EXCEPT ![t] = d.gen]
    /\ payload' = [payload EXCEPT ![t] = d.payload]
    /\ link' = [link EXCEPT ![t] = d.link]
    /\ cls' = [cls EXCEPT ![t] = ClassOf(d.slot)]
    /\ Goto(t, "copy_out")
    /\ UNCHANGED <<free_head, memory, head, next, scan, peers, allocs, free_list>>

\* The bytes copied here are the frame recv_frame returns, whatever free says.
ReceiveCopy(t) ==
    /\ At(t, "copy_out")
    /\ Goto(t, "free_gen")
    /\ UNCHANGED <<free_head, memory, wire, locals, scan, peers, allocs, free_list>>

\* Where a thread goes when free returns: on with remove_peer, or out.
Return(t) == IF scan[t] >= 0 THEN "scan_owner" ELSE "idle"

FreeCheckGeneration(t) ==
    /\ At(t, "free_gen")
    /\ Goto(t, IF generation[slot[t]] = gen[t] THEN "free_state" ELSE Return(t))
    /\ UNCHANGED <<free_head, memory, wire, locals, scan, peers, allocs, free_list>>

FreeCheckState(t) ==
    /\ At(t, "free_state")
    /\ Goto(t, IF state[slot[t]] = "InFlight" THEN "clear_owner" ELSE Return(t))
    /\ UNCHANGED <<free_head, memory, wire, locals, scan, peers, allocs, free_list>>

FreeClearOwner(t) ==
    /\ At(t, "clear_owner")
    /\ owner_peer' = [owner_peer EXCEPT ![slot[t]] = NO_OWNER]
    /\ Goto(t, "bump_gen")
    /\ UNCHANGED <<free_head, state, generation, next_free, data, wire, locals,
                   scan, peers, allocs, free_list>>

FreeBumpGeneration(t) ==
    /\ At(t, "bump_gen")
    /\ generation' = [generation EXCEPT ![slot[t]] = @ + 1]
    /\ Goto(t, "set_free")
    /\ UNCHANGED <<free_head, state, next_free, owner_peer, data, wire, locals,
                   scan, peers, allocs, free_list>>

FreeSetState(t) ==
    /\ At(t, "set_free")
    /\ state' = [state EXCEPT ![slot[t]] = "Free"]
    /\ Goto(t, "load_top")
    /\ UNCHANGED <<free_head, generation, next_free, owner_peer, data, wire, locals,
                   scan, peers, allocs, free_list>>

FreeLoadHead(t) ==
    /\ At(t, "load_top")
    /\ head' = [head EXCEPT ![t] = free_head[cls[t]]]
    /\ Goto(t, "link_next")
    /\ UNCHANGED <<free_head, memory, wire, cls, slot, gen, next, payload, link, scan,
                   peers, allocs, free_list>>

FreeLink(t) ==
    /\ At(t, "link_next")
    /\ next_free' = [next_free EXCEPT ![slot[t]] = head[t].index]
    /\ Goto(t, "cas_push")
    /\ UNCHANGED <<free_head, state, generation, owner_peer, data, wire, locals,
                   scan, peers, allocs, free_list>>

\* The signal on the futex words that follows is modelled in HubTransport.
FreeCas(t) ==
    /\ At(t, "cas_push")
    /\ \/ /\ free_head[cls[t]] = head[t]
          /\ free_head' = [free_head EXCEPT ![cls[t]] =
                              [index |-> slot[t], tag |-> head[t].tag + 1]]
          /\ free_list' = [free_list EXCEPT ![cls[t]] = <<slot[t]>> \o @]
          /\ Goto(t, Return(t))
       \/ /\ free_head[cls[t]] # head[t]
          /\ Goto(t, "load_top")
          /\ UNCHANGED <<free_head, free_list>>
    /\ UNCHANGED <<memory, wire, locals, scan, peers, allocs>>

-----------------------------------------------------------------------------
(* Death of a cell, remove_peer and reclaim_peer_slots *)

Die(p) ==
    /\ p \notin dead
    /\ dead' = dead \cup {p}
    /\ UNCHANGED <<free_head, memory, wire, pc, locals, scan, removed, allocs, free_list>>

\* The threads of the host that are inside send_frame or recv_frame on link p.
HostUses(p) == \E t \in HostThreads : pc[t] # "idle" /\ link[t] = p

RemovePeer(t, p) ==
    /\ At(t, "idle")
    /\ t \in HostThreads
    /\ p \in dead \ removed
    /\ QuiesceFirst => ~HostUses(p)
    /\ removed' = removed \cup {p}
    /\ link' = [link EXCEPT ![t] = p]
    /\ scan' = [scan EXCEPT ![t] = 0]
    /\ Goto(t, "scan_owner")
    /\ UNCHANGED <<free_head, memory, wire, cls, slot, gen, head, next, payload,
                   dead, allocs, free_list>>

\* Mutant of ScanOwner: the slots of every peer are taken back.
ScanOwnerOfAnyPeer(t) ==
    /\ At(t, "scan_owner")
    /\ \/ /\ scan[t] \notin Slots
          /\ scan' = [scan EXCEPT ![t] = -1]
          /\ Goto(t, "idle")
          /\ UNCHANGED <<slot, cls>>
       \/ /\ scan[t] \in Slots
          /\ slot' = [slot EXCEPT ![t] = scan[t]]
          /\ cls' = [cls EXCEPT ![t] = ClassOf(scan[t])]
          /\ scan' = [scan EXCEPT ![t] = @ + 1]
          /\ Goto(t, "scan_state")
    /\ UNCHANGED <<free_head, memory, wire, gen, head, next, payload, link, peers,
                   allocs, free_list>>

\* Load the owner of the slot under scan: another peer's slot is passed over,
\* and after the last slot remove_peer returns.
ScanOwner(t) ==
    /\ At(t, "scan_owner")
    /\ \/ /\ scan[t] \notin Slots
          /\ scan' = [scan EXCEPT ![t] = -1]
          /\ Goto(t, "idle")
          /\ UNCHANGED <<slot, cls>>
       \/ /\ scan[t] \in Slots
          /\ owner_peer[scan[t]] # link[t]
          /\ scan' = [scan EXCEPT ![t] = @ + 1]
          /\ UNCHANGED <<pc, slot, cls>>
       \/ /\ scan[t] \in Slots
          /\ owner_peer[scan[t]] = link[t]
          /\ slot' = [slot EXCEPT ![t] = scan[t]]
          /\ cls' = [cls EXCEPT ![t] = ClassOf(scan[t])]
          /\ scan' = [scan EXCEPT ![t] = @ + 1]
          /\ Goto(t, "scan_state")
    /\ UNCHANGED <<free_head, memory, wire, gen, head, next, payload, link, peers,
                   allocs, free_list>>

\* Mutant of ScanState: a slot its owner had not yet sent is passed over.
ScanStateSkipsAllocated(t) ==
    /\ At(t, "scan_state")
    /\ Goto(t, IF state[slot[t]] = "InFlight" THEN "scan_force" ELSE "scan_owner")
    /\ UNCHANGED <<free_head, memory, wire, locals, scan, peers, allocs, free_list>>

ScanState(t) ==
    /\ At(t, "scan_state")
    /\ Goto(t, IF state[slot[t]] = "Free" THEN "scan_owner" ELSE "scan_force")
    /\ UNCHANGED <<free_head, memory, wire, locals, scan, peers, allocs, free_list>>

ScanForceInFlight(t) ==
    /\ At(t, "scan_force")
    /\ state' = [state EXCEPT ![slot[t]] = "InFlight"]
    /\ Goto(t, "scan_gen")
    /\ UNCHANGED <<free_head, generation, next_free, owner_peer, data, wire, locals,
                   scan, peers, allocs, free_list>>

ScanLoadGeneration(t) ==
    /\ At(t, "scan_gen")
    /\ gen' = [gen EXCEPT ![t] = generation[slot[t]]]
    /\ Goto(t, "free_gen")
    /\ UNCHANGED <<free_head, memory, wire, cls, slot, head, next, payload, link, scan,
                   peers, allocs, free_list>>
-----------------------------------------------------------------------------
Step(t) ==
    \/ AllocLoadHead(t) \/ AllocLoadNext(t) \/ AllocCas(t)
    \/ AllocSetState(t) \/ AllocSetOwner(t) \/ AllocLoadGen(t)
    \/ SendCopy(t) \/ MarkCheckGeneration(t) \/ MarkCheckState(t) \/ MarkStore(t)
    \/ SendEnqueue(t)
    \/ ReceiveCopy(t)
    \/ FreeCheckGeneration(t) \/ FreeCheckState(t) \/ FreeClearOwner(t)
    \/ FreeBumpGeneration(t) \/ FreeSetState(t) \/ FreeLoadHead(t) \/ FreeLink(t)
    \/ FreeCas(t)
    \/ ScanOwner(t) \/ ScanState(t) \/ ScanForceInFlight(t) \/ ScanLoadGeneration(t)

Next ==
    \/ \E t \in Threads : Step(t)
    \/ \E t \in Threads, p \in Cells, c \in Classes : AllocBegin(t, p, c)
    \/ \E t \in Threads, d \in wire : Receive(t, d)
    \/ \E p \in Mortals : Die(p)
    \/ \E t \in HostThreads, p \in Cells : RemovePeer(t, p)

Spec == Init /\ [][Next]_vars

-----------------------------------------------------------------------------
(* Properties *)

\* Every variable stays within its type.
TypeOK ==
    /\ free_head \in [Classes -> [index : Slots \cup {FREE_LIST_END}, tag : Nat]]
    /\ state \in [Slots -> States]
    /\ generation \in [Slots -> Nat]
    /\ next_free \in [Slots -> Slots \cup {FREE_LIST_END}]
    /\ owner_peer \in [Slots -> Cells \cup {NO_OWNER}]
    /\ data \in [Slots -> Nat]
    /\ wire \subseteq Descriptors
    /\ pc \in [Threads -> Steps]
    /\ cls \in [Threads -> Classes]
    /\ slot \in [Threads -> Slots]
    /\ gen \in [Threads -> Nat]
    /\ head \in [Threads -> [index : Slots \cup {FREE_LIST_END}, tag : Nat]]
    /\ next \in [Threads -> Slots \cup {FREE_LIST_END}]
    /\ payload \in [Threads -> Nat]
    /\ link \in [Threads -> Cells \cup {NO_OWNER}]
    /\ scan \in [Threads -> Int]
    /\ dead \subseteq Cells
    /\ removed \subseteq dead
    /\ allocs \in Nat
    /\ free_list \in [Classes -> Seq(Slots)]

\* The steps during which slot[t] is in the hands of t.
HoldSteps == SendSteps \cup FreeSteps \cup {"copy_out", "scan_gen"}
Holds(t, s) == pc[t] \in HoldSteps /\ slot[t] = s /\ t \notin removed

\* Those who may still touch slot s: threads, and descriptors on the rings.
Users(s) == {t \in Threads : Holds(t, s)}
            \cup {d \in wire : d.slot = s /\ d.link \notin removed}

\* Its places on the free list of its class.
FreePlaces(s) == {i \in DOMAIN free_list[ClassOf(s)] : free_list[ClassOf(s)][i] = s}

\* A slot is in the hands of one thread, or on one ring once, or on its free
\* list once: it is never handed to two senders, never freed twice, never
\* allocated while a frame in it is on its way.
ExclusiveUse == \A s \in Slots : Cardinality(Users(s)) + Cardinality(FreePlaces(s)) <= 1

\* The list a class's free_head and the next_free of its slots spell out is
\* free_list: no push or pop that races another breaks, shortens or ties it.
ItemOrEnd(list, i) == IF i \in DOMAIN list THEN list[i] ELSE FREE_LIST_END
FreeListIntact ==
    \A c \in Classes :
        LET list == free_list[c]
        IN  /\ free_head[c].index = ItemOrEnd(list, 1)
            /\ \A i \in DOMAIN list : /\ list[i] \in SlotsOf(c)
                                      /\ state[list[i]] = "Free"
                                      /\ next_free[list[i]] = ItemOrEnd(list, i + 1)

\* What recv_frame copies out of a slot is what the sender of that frame put in.
PayloadIntact == \A t \in Threads : At(t, "copy_out") => data[slot[t]] = payload[t]

\* No slot is lost, save at most one for each cell that dies: the one it had
\* popped and not yet signed, or had signed off and not yet pushed.
UnsignedSteps == {"set_allocated", "set_owner", "bump_gen", "set_free",
                  "load_top", "link_next", "cas_push"}
LostBy(p, s) == p \in dead /\ pc[p] \in UnsignedSteps /\ slot[p] = s

\* remove_peer is under way and has not yet come to s.
AwaitsScan(s) ==
    \E t \in HostThreads : /\ scan[t] >= 0
                            /\ owner_peer[s] = link[t]
                            /\ \/ scan[t] <= s
                               \/ pc[t] \in ScanSteps /\ slot[t] = s

NoSlotLost ==
    \A s \in Slots : \/ Users(s) # {}
                     \/ FreePlaces(s) # {}
                     \/ AwaitsScan(s)
                     \/ \E p \in Cells : LostBy(p, s)
====
