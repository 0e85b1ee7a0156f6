---- MODULE HubAllocatorProofs ----
(***************************************************************************)
(* For every number of threads, cells, classes, slots and allocations, when *)
(* the host drops a dead cell's transport before it takes the cell's slots  *)
(* back: a slot has one user at a time, a frame arrives as it was sent, and *)
(* the only slots lost are those a dead cell had not yet signed.            *)
(* And for every configuration its header accepts, the segment of two peers *)
(* has each of its structs apart from the others, in its place.             *)
(***************************************************************************)
EXTENDS HubAllocator, SegmentLayout, TLAPS, SequenceTheorems, FiniteSetTheorems

USE DEF memory, locals, peers

-----------------------------------------------------------------------------
(* The classes partition the slots *)

\* Induction up to n, over a set: were n not in A, i |-> i + 1 would map the
\* numbers of A below n one to one into those but 0.
LEMMA IntervalInduction ==
  ASSUME NEW n \in Nat, NEW A, 0 \in A, \A i \in 0 .. n - 1 : i \in A => i + 1 \in A
  PROVE  n \in A
<1> SUFFICES ASSUME n \notin A PROVE FALSE
  OBVIOUS
<1> DEFINE B == A \cap 0 .. n
           f == [i \in B |-> i + 1]
<1>1. IsFiniteSet(B) /\ B \subseteq Nat /\ 0 \in B
  <2>1. IsFiniteSet(0 .. n)
    BY FS_Interval
  <2> QED
    BY <2>1, FS_Subset
<1>2. /\ IsFiniteSet(B \ {0})
      /\ Cardinality(B \ {0}) = Cardinality(B) - 1
      /\ Cardinality(B) \in Nat
  BY <1>1, FS_RemoveElement, FS_CardinalityType
<1>3. f \in Injection(B, B \ {0})
  <2>1. \A i \in B : i + 1 \in B \ {0}
    OBVIOUS
  <2>2. f \in [B -> B \ {0}]
    BY <2>1
  <2>3. \A i, j \in B : f[i] = f[j] => i = j
    BY <1>1
  <2> QED
    BY <2>2, <2>3 DEF Injection, IsInjective
<1>4. Cardinality(B) <= Cardinality(B \ {0})
  BY <1>2, <1>3, FS_Injection
<1> QED
  BY <1>2, <1>4

LEMMA FirstSlotGrows ==
  ASSUME NEW a \in 0 .. NumClasses, NEW b \in 0 .. NumClasses, a <= b
  PROVE  FirstSlot[a] <= FirstSlot[b]
<1> USE AllocatorAssumption
<1> DEFINE A == {i \in 0 .. b - a : FirstSlot[a] <= FirstSlot[a + i]}
<1>1. 0 \in A
  OBVIOUS
<1>2. ASSUME NEW i \in 0 .. (b - a) - 1, i \in A
      PROVE  i + 1 \in A
  <2>1. a + i \in Classes /\ a + i + 1 \in 0 .. NumClasses
    BY DEF Classes
  <2>2. FirstSlot[a + i] < FirstSlot[a + i + 1]
    BY <2>1
  <2> QED
    BY <1>2, <2>1, <2>2
<1>3. b - a \in A
  <2> HIDE DEF A
  <2> QED
    BY <1>1, <1>2, IntervalInduction
<1> QED
  BY <1>3

LEMMA Partition ==
  /\ 0 \in Classes /\ 0 \in Slots
  /\ \A c \in Classes : SlotsOf(c) \subseteq Slots
  /\ \A s \in Slots : ClassOf(s) \in Classes /\ s \in SlotsOf(ClassOf(s))
  /\ \A c \in Classes : \A s \in SlotsOf(c) : c = ClassOf(s)
<1> USE AllocatorAssumption
<1>1. 0 \in Classes
  BY DEF Classes
<1>2. ASSUME NEW c \in Classes PROVE SlotsOf(c) \subseteq Slots
  <2>1. c \in 0 .. NumClasses /\ c + 1 \in 0 .. NumClasses
    BY DEF Classes
  <2>2. 0 <= FirstSlot[c] /\ FirstSlot[c + 1] <= FirstSlot[NumClasses]
    BY <2>1, FirstSlotGrows
  <2> QED
    BY <2>1, <2>2 DEF SlotsOf, Slots
<1>3. 0 \in Slots
  <2>1. 0 \in SlotsOf(0)
    BY <1>1 DEF SlotsOf
  <2> QED
    BY <1>1, <1>2, <2>1
<1>4. ASSUME NEW s \in Slots PROVE \E c \in Classes : s \in SlotsOf(c)
  <2> SUFFICES ASSUME \A c \in Classes : s \notin SlotsOf(c) PROVE FALSE
    OBVIOUS
  <2> DEFINE A == {c \in 0 .. NumClasses : FirstSlot[c] <= s}
  <2>1. 0 \in A
    BY DEF Slots
  <2>2. ASSUME NEW c \in 0 .. NumClasses - 1, c \in A PROVE c + 1 \in A
    BY <2>2 DEF Classes, SlotsOf, Slots
  <2>3. NumClasses \in A
    <3> HIDE DEF A
    <3> QED
      BY <2>1, <2>2, IntervalInduction
  <2> QED
    BY <2>3 DEF Slots
<1>5. ASSUME NEW c \in Classes, NEW d \in Classes, NEW s \in SlotsOf(c), s \in SlotsOf(d), c < d
      PROVE  FALSE
  <2>1. c + 1 \in 0 .. NumClasses /\ d \in 0 .. NumClasses /\ c + 1 <= d
    BY <1>5 DEF Classes
  <2>2. FirstSlot[c + 1] <= FirstSlot[d]
    BY <2>1, FirstSlotGrows
  <2> QED
    BY <1>5, <2>1, <2>2 DEF SlotsOf
<1>6. \A s \in Slots : ClassOf(s) \in Classes /\ s \in SlotsOf(ClassOf(s))
  BY <1>4 DEF ClassOf
<1>7. ASSUME NEW c \in Classes, NEW s \in SlotsOf(c) PROVE c = ClassOf(s)
  <2>1. ClassOf(s) \in Classes /\ s \in SlotsOf(ClassOf(s))
    BY <1>2, <1>6
  <2>2. ~(c < ClassOf(s)) /\ ~(ClassOf(s) < c)
    BY <1>5, <2>1
  <2> QED
    BY <2>1, <2>2 DEF Classes
<1> QED
  BY <1>1, <1>2, <1>3, <1>6, <1>7

\* What the rest needs of the constants.
LEMMA Constants ==
  /\ FREE_LIST_END \notin Slots
  /\ NO_OWNER \notin Cells
  /\ HostThreads \cap Cells = {} /\ HostThreads \cup Cells = Threads
  /\ Mortals \subseteq Cells
BY AllocatorAssumption DEF Threads

-----------------------------------------------------------------------------
(* The invariant *)

\* The steps during which the slot of t carries the name of the peer on t's link;
\* during the other hold steps it carries none.
SignedSteps == HoldSteps \ UnsignedSteps
InHand(t) == pc[t] \in HoldSteps /\ t \notin removed
OnWire == {d \in wire : d.link \notin removed}

\* A thread that is at work knows its link; one that is not scanning works for a
\* link that is in use, and a scanner is the only thread on its link.
LinkOf(t) ==
    /\ pc[t] # "idle" => link[t] \in Cells
    /\ scan[t] = -1 \/ scan[t] \in Nat
    /\ scan[t] # -1 => /\ t \in HostThreads
                       /\ link[t] \in removed
                       /\ pc[t] \in ScanSteps \cup FreeSteps
    /\ pc[t] \in ScanSteps => scan[t] # -1
    /\ pc[t] # "idle" /\ scan[t] = -1 => IF t \in Cells THEN link[t] = t ELSE link[t] \notin removed
Links ==
    /\ \A t \in Threads : LinkOf(t)
    /\ \A t, u \in Threads : scan[t] # -1 /\ scan[u] # -1 /\ link[t] = link[u] => t = u

\* The owner_peer of a slot tells who may use it.
OwnerOf(t) ==
    /\ InHand(t) => owner_peer[slot[t]] = IF pc[t] \in UnsignedSteps THEN NO_OWNER ELSE link[t]
    /\ pc[t] \in {"scan_state", "scan_force"} => owner_peer[slot[t]] = link[t]
Owners ==
    /\ \A t \in Threads : OwnerOf(t)
    /\ \A d \in OnWire : owner_peer[d.slot] = d.link

\* slot[t] is of class cls[t] from the load of its index on.
PlaceOf(t) == pc[t] \notin {"idle", "load_head", "scan_owner"} => slot[t] \in SlotsOf(cls[t])
Placed == \A t \in Threads : PlaceOf(t)

\* Nobody shares a slot.
Exclusion ==
    /\ \A t, u \in Threads : InHand(t) /\ InHand(u) /\ slot[t] = slot[u] => t = u
    /\ \A t \in Threads, d \in OnWire : InHand(t) => d.slot # slot[t]
    /\ \A d, e \in OnWire : d.slot = e.slot => d = e

\* From top, the next_free in nxt spell out list, of slots of class c without owner.
Chained(list, c, top, nxt, own) ==
    /\ top = ItemOrEnd(list, 1)
    /\ \A i \in DOMAIN list : /\ list[i] \in SlotsOf(c)
                              /\ own[list[i]] = NO_OWNER
                              /\ nxt[list[i]] = ItemOrEnd(list, i + 1)
    /\ \A i, j \in DOMAIN list : list[i] = list[j] => i = j

\* The free list of class c; what is on it is in nobody's hand.
ListOf(c) ==
    /\ Chained(free_list[c], c, free_head[c].index, next_free, owner_peer)
    /\ \A i \in DOMAIN free_list[c], t \in Threads : InHand(t) => slot[t] # free_list[c][i]
Lists == \A c \in Classes : ListOf(c)

\* A head that was loaded is older than the list or spells out its top.
HeadSteps == {"load_next", "cas_pop", "link_next", "cas_push"}
HeadOf(t) ==
    /\ pc[t] \in HeadSteps => head[t].tag <= free_head[cls[t]].tag
    /\ pc[t] \in {"load_next", "cas_pop"} => slot[t] = head[t].index
    /\ pc[t] = "cas_pop" /\ head[t] = free_head[cls[t]] => next[t] = ItemOrEnd(free_list[cls[t]], 2)
    /\ pc[t] = "cas_push" /\ t \notin removed => next_free[slot[t]] = head[t].index
Heads == \A t \in Threads : HeadOf(t)

IInv == TypeOK /\ Links /\ Owners /\ Placed /\ Exclusion /\ Lists /\ Heads

\* What the slot in hand, and the slot of a descriptor, hold.
StateAt(step) ==
    CASE step \in {"set_allocated", "load_top", "link_next", "cas_push"} -> "Free"
      [] step \in {"set_owner", "load_gen", "copy_in", "mark_gen", "mark_state", "mark_store"} -> "Allocated"
      [] OTHER -> "InFlight"
GenSteps == SignedSteps \ {"load_gen", "scan_gen"}
FilledSteps == {"mark_gen", "mark_state", "mark_store", "enqueue", "copy_out"}
ContentOf(t) ==
    InHand(t) => /\ state[slot[t]] = StateAt(pc[t])
                 /\ pc[t] \in GenSteps => gen[t] = generation[slot[t]]
                 /\ pc[t] \in FilledSteps => data[slot[t]] = payload[t]
Listed(s) == \E c \in Classes : \E i \in DOMAIN free_list[c] : free_list[c][i] = s
Contents ==
    /\ \A t \in Threads : ContentOf(t)
    /\ \A d \in OnWire : /\ state[d.slot] = "InFlight"
                         /\ generation[d.slot] = d.gen
                         /\ data[d.slot] = d.payload
    /\ \A s \in Slots : Listed(s) => state[s] = "Free"
    /\ \A s \in Slots : owner_peer[s] # NO_OWNER => state[s] # "Free"

\* A slot of its peer that a scanner has passed is the one it is freeing.
PassedOf(t) ==
    \A s \in Slots : scan[t] > s /\ owner_peer[s] = link[t] => slot[t] = s /\ pc[t] # "scan_owner"
Passed == \A t \in Threads : PassedOf(t)

\* Every slot is in a hand, on a ring, on a list, owned by a cell whose slots are being
\* taken back, or lost by a cell that died before it had signed it.
Awaited(s) == \E t \in Threads : scan[t] # -1 /\ owner_peer[s] = link[t]
Accounted(s) ==
    \/ \E t \in Threads : InHand(t) /\ slot[t] = s
    \/ \E d \in OnWire : d.slot = s
    \/ Listed(s)
    \/ Awaited(s)
    \/ \E p \in Cells : LostBy(p, s)
AllAccounted == \A s \in Slots : Accounted(s)

-----------------------------------------------------------------------------
(* The lists as sequences *)

LEMMA Popped ==
  ASSUME NEW list \in Seq(Slots), 1 \in DOMAIN list
  PROVE  /\ Tail(list) \in Seq(Slots)
         /\ DOMAIN Tail(list) = {i \in Nat \ {0} : i + 1 \in DOMAIN list}
         /\ \A i \in DOMAIN Tail(list) : Tail(list)[i] = list[i + 1]
         /\ \A i \in Nat \ {0} : ItemOrEnd(Tail(list), i) = ItemOrEnd(list, i + 1)
<1>1. list # <<>> /\ DOMAIN list = 1 .. Len(list) /\ Len(list) \in Nat
  BY LenProperties, EmptySeq
<1>2. /\ Tail(list) \in Seq(Slots)
      /\ Len(Tail(list)) = Len(list) - 1
      /\ \A i \in 1 .. Len(Tail(list)) : Tail(list)[i] = list[i + 1]
  BY <1>1, HeadTailProperties
<1>3. DOMAIN Tail(list) = 1 .. Len(Tail(list))
  BY <1>2, LenProperties
<1> QED
  BY <1>1, <1>2, <1>3 DEF ItemOrEnd

LEMMA Pushed ==
  ASSUME NEW list \in Seq(Slots), NEW s \in Slots
  PROVE  /\ <<s>> \o list \in Seq(Slots)
         /\ DOMAIN (<<s>> \o list) = {1} \cup {i \in Nat \ {0, 1} : i - 1 \in DOMAIN list}
         /\ (<<s>> \o list)[1] = s
         /\ \A i \in DOMAIN list : /\ i + 1 \in DOMAIN (<<s>> \o list)
                                   /\ (<<s>> \o list)[i + 1] = list[i]
         /\ ItemOrEnd(<<s>> \o list, 1) = s
         /\ \A i \in Nat \ {0} : ItemOrEnd(<<s>> \o list, i + 1) = ItemOrEnd(list, i)
<1>1. /\ <<s>> \in Seq(Slots) /\ Len(<<s>>) = 1 /\ <<s>>[1] = s
      /\ DOMAIN list = 1 .. Len(list) /\ Len(list) \in Nat
  BY LenProperties
<1>2. /\ <<s>> \o list \in Seq(Slots)
      /\ Len(<<s>> \o list) = 1 + Len(list)
      /\ \A i \in 1 .. 1 + Len(list) :
            (<<s>> \o list)[i] = IF i <= 1 THEN <<s>>[i] ELSE list[i - 1]
  BY <1>1, ConcatProperties
<1>3. DOMAIN (<<s>> \o list) = 1 .. 1 + Len(list)
  BY <1>2, LenProperties
<1> QED
  BY <1>1, <1>2, <1>3 DEF ItemOrEnd

LEMMA ListDomain ==
  ASSUME NEW list \in Seq(Slots)
  PROVE  /\ DOMAIN list \subseteq Nat \ {0}
         /\ \A i \in DOMAIN list : list[i] \in Slots
         /\ 1 \in DOMAIN list <=> ItemOrEnd(list, 1) # FREE_LIST_END
<1>1. DOMAIN list = 1 .. Len(list) /\ Len(list) \in Nat
  BY LenProperties
<1>2. \A i \in DOMAIN list : list[i] \in Slots
  BY <1>1, ElementOfSeq
<1>3. 1 \in DOMAIN list <=> ItemOrEnd(list, 1) # FREE_LIST_END
  BY <1>2, Constants DEF ItemOrEnd
<1> QED
  BY <1>1, <1>2, <1>3

LEMMA PushedOnto ==
  ASSUME NEW list \in Seq(Slots), NEW s \in Slots, NEW more, more = <<s>> \o list
  PROVE  /\ DOMAIN more = {1} \cup {i \in Nat \ {0, 1} : i - 1 \in DOMAIN list}
         /\ more[1] = s
         /\ \A i \in DOMAIN list : i + 1 \in DOMAIN more /\ more[i + 1] = list[i]
<1>1. /\ <<s>> \in Seq(Slots) /\ Len(<<s>>) = 1 /\ <<s>>[1] = s
      /\ DOMAIN list = 1 .. Len(list) /\ Len(list) \in Nat
  BY LenProperties
<1>2. /\ more \in Seq(Slots)
      /\ Len(more) = 1 + Len(list)
      /\ \A i \in 1 .. 1 + Len(list) : more[i] = IF i <= 1 THEN <<s>>[i] ELSE list[i - 1]
  BY <1>1, ConcatProperties
<1>3. DOMAIN more = 1 .. 1 + Len(list)
  BY <1>2, LenProperties
<1> QED
  BY <1>1, <1>2, <1>3

LEMMA ChainPopped ==
  ASSUME NEW list \in Seq(Slots), 1 \in DOMAIN list, NEW c, NEW top, NEW nxt, NEW own,
         Chained(list, c, top, nxt, own)
  PROVE  /\ Chained(Tail(list), c, ItemOrEnd(list, 2), nxt, own)
         /\ \A i \in DOMAIN Tail(list) : /\ Tail(list)[i] # list[1]
                                         /\ i + 1 \in DOMAIN list
                                         /\ Tail(list)[i] = list[i + 1]
<1> DEFINE rest == Tail(list)
<1>1. /\ \A i \in DOMAIN rest : i \in Nat \ {0} /\ i + 1 \in DOMAIN list /\ rest[i] = list[i + 1]
      /\ \A i \in Nat \ {0} : ItemOrEnd(rest, i) = ItemOrEnd(list, i + 1)
  BY Popped
<1> HIDE DEF rest
<1>2. \A i \in DOMAIN rest : rest[i] # list[1]
  BY <1>1 DEF Chained
<1>3. ASSUME NEW i \in DOMAIN rest
      PROVE  /\ rest[i] \in SlotsOf(c)
             /\ own[rest[i]] = NO_OWNER
             /\ nxt[rest[i]] = ItemOrEnd(rest, i + 1)
  <2>1. i \in Nat \ {0} /\ i + 1 \in DOMAIN list /\ rest[i] = list[i + 1]
    BY <1>1, Zenon
  <2>2. i + 1 \in Nat \ {0}
    BY <2>1
  <2>3. ItemOrEnd(rest, i + 1) = ItemOrEnd(list, (i + 1) + 1)
    BY <1>1, <2>2, Zenon
  <2> QED
    BY <2>1, <2>3 DEF Chained
<1>4. \A i, j \in DOMAIN rest : rest[i] = rest[j] => i = j
  BY <1>1 DEF Chained
<1>5. ItemOrEnd(list, 2) = ItemOrEnd(rest, 1)
  BY <1>1
<1>6. Chained(rest, c, ItemOrEnd(list, 2), nxt, own)
  BY <1>3, <1>4, <1>5 DEF Chained
<1> QED
  BY <1>1, <1>2, <1>6 DEF rest

LEMMA ChainPushed ==
  ASSUME NEW list \in Seq(Slots), NEW s \in Slots, NEW c, NEW nxt, NEW own,
         Chained(list, c, nxt[s], nxt, own), s \in SlotsOf(c), own[s] = NO_OWNER,
         \A i \in DOMAIN list : list[i] # s
  PROVE  /\ Chained(<<s>> \o list, c, s, nxt, own)
         /\ \A i \in DOMAIN (<<s>> \o list) : \/ (<<s>> \o list)[i] = s
                                              \/ i - 1 \in DOMAIN list /\ (<<s>> \o list)[i] = list[i - 1]
<1> DEFINE more == <<s>> \o list
<1>1. /\ DOMAIN more = {1} \cup {i \in Nat \ {0, 1} : i - 1 \in DOMAIN list}
      /\ more[1] = s
      /\ \A i \in DOMAIN list : i + 1 \in DOMAIN more /\ more[i + 1] = list[i]
      /\ ItemOrEnd(more, 1) = s
      /\ \A i \in Nat \ {0} : ItemOrEnd(more, i + 1) = ItemOrEnd(list, i)
      /\ DOMAIN list \subseteq Nat \ {0}
  BY Pushed, ListDomain, SMTT(60)
<1> HIDE DEF more
<1>2. \A i \in DOMAIN more :
         i \in Nat \ {0} /\ (i = 1 \/ (i - 1 \in Nat \ {0} /\ i - 1 \in DOMAIN list /\ more[i] = list[i - 1]))
  <2> SUFFICES ASSUME NEW i \in DOMAIN more, i # 1
               PROVE  i - 1 \in Nat \ {0} /\ i - 1 \in DOMAIN list /\ more[i] = list[i - 1]
    BY <1>1
  <2>1. i \in Nat \ {0, 1} /\ i - 1 \in DOMAIN list /\ (i - 1) + 1 = i
    BY <1>1
  <2> QED
    BY <1>1, <2>1
<1>3. ASSUME NEW i \in DOMAIN more
      PROVE  /\ more[i] \in SlotsOf(c)
             /\ own[more[i]] = NO_OWNER
             /\ nxt[more[i]] = ItemOrEnd(more, i + 1)
  <2>1. CASE i = 1
    BY <1>1, <2>1 DEF Chained
  <2>2. CASE i # 1
    <3>1. /\ i - 1 \in Nat \ {0} /\ i - 1 \in DOMAIN list /\ more[i] = list[i - 1]
          /\ (i - 1) + 1 = i
      BY <1>2, <2>2
    <3>2. ItemOrEnd(more, i + 1) = ItemOrEnd(list, (i - 1) + 1)
      BY <1>1, <1>2, <3>1
    <3> QED
      BY <3>1, <3>2 DEF Chained
  <2> QED
    BY <2>1, <2>2
<1>4. ASSUME NEW i \in DOMAIN more, NEW j \in DOMAIN more, more[i] = more[j] PROVE i = j
  <2>1. i \in Nat /\ j \in Nat
    BY <1>2
  <2>2. i = 1 <=> j = 1
    BY <1>1, <1>2, <1>4
  <2>3. CASE i # 1
    <3>1. i - 1 = j - 1
      BY <1>2, <1>4, <2>2, <2>3 DEF Chained
    <3> QED
      BY <2>1, <3>1
  <2> QED
    BY <2>2, <2>3
<1>5. Chained(more, c, s, nxt, own)
  BY <1>1, <1>3, <1>4 DEF Chained
<1> QED
  BY <1>1, <1>2, <1>5 DEF more

-----------------------------------------------------------------------------
(* Where slots are: in hands, on the rings, on the lists *)

\* Nothing comes into the hand of t, and nothing moves between rings and lists.
KeepsPlaces(t) ==
    /\ wire' = wire
    /\ free_list' = free_list
    /\ removed \subseteq removed'
    /\ \A u \in Threads \ {t} : pc'[u] = pc[u] /\ slot'[u] = slot[u]
    /\ pc'[t] \in HoldSteps => pc[t] \in HoldSteps /\ slot'[t] = slot[t]

\* A compare-and-swap finds the head it loaded, or another.
PopWins(t) == AllocCas(t) /\ free_head[cls[t]] = head[t]
PopLoses(t) == AllocCas(t) /\ free_head[cls[t]] # head[t]
PushWins(t) == FreeCas(t) /\ free_head[cls[t]] = head[t]
PushLoses(t) == FreeCas(t) /\ free_head[cls[t]] # head[t]

\* The steps of t that touch no memory but its own.
PrivateStep(t) ==
    \/ \E p \in Cells, c \in Classes : AllocBegin(t, p, c)
    \/ AllocLoadHead(t) \/ AllocLoadNext(t) \/ PopLoses(t) \/ AllocLoadGen(t)
    \/ MarkCheckGeneration(t) \/ MarkCheckState(t) \/ ReceiveCopy(t)
    \/ FreeCheckGeneration(t) \/ FreeCheckState(t) \/ FreeLoadHead(t) \/ PushLoses(t)
    \/ ScanOwner(t) \/ ScanState(t) \/ ScanLoadGeneration(t)

\* Those that write to the slot in its hand.
WriteStep(t) ==
    \/ AllocSetState(t) \/ AllocSetOwner(t) \/ SendCopy(t) \/ MarkStore(t)
    \/ FreeClearOwner(t) \/ FreeBumpGeneration(t) \/ FreeSetState(t) \/ FreeLink(t)

\* Those with which a slot changes hands.
TransferStep(t) ==
    \/ PopWins(t) \/ PushWins(t) \/ SendEnqueue(t) \/ ScanForceInFlight(t)
    \/ \E d \in wire : Receive(t, d)

LEMMA NextSteps ==
  [Next]_vars => \/ \E t \in Threads : PrivateStep(t) \/ WriteStep(t) \/ TransferStep(t)
                 \/ \E t \in HostThreads, p \in Cells : RemovePeer(t, p)
                 \/ \E p \in Cells : Die(p)
                 \/ UNCHANGED vars
<1> SUFFICES ASSUME [Next]_vars
             PROVE  \/ \E t \in Threads : PrivateStep(t) \/ WriteStep(t) \/ TransferStep(t)
                    \/ \E t \in HostThreads, p \in Cells : RemovePeer(t, p)
                    \/ \E p \in Cells : Die(p)
                    \/ UNCHANGED vars
  OBVIOUS
<1>1. ASSUME NEW t \in Threads, Step(t) PROVE PrivateStep(t) \/ WriteStep(t) \/ TransferStep(t)
  <2>1. /\ AllocCas(t) => PopWins(t) \/ PopLoses(t)
        /\ FreeCas(t) => PushWins(t) \/ PushLoses(t)
    BY Zenon DEF PopWins, PopLoses, PushWins, PushLoses
  <2> QED
    BY <1>1, <2>1, Zenon DEF Step, PrivateStep, WriteStep, TransferStep
<1> QED
  BY <1>1, Constants DEF Next, PrivateStep, TransferStep

LEMMA PrivateSteps ==
  ASSUME TypeOK, NEW t \in Threads, PrivateStep(t)
  PROVE  /\ KeepsPlaces(t)
         /\ UNCHANGED <<free_head, memory, removed, dead>>
         /\ \A u \in Threads \ {t} :
               /\ cls'[u] = cls[u] /\ gen'[u] = gen[u] /\ head'[u] = head[u] /\ next'[u] = next[u]
               /\ payload'[u] = payload[u] /\ link'[u] = link[u] /\ scan'[u] = scan[u]
<1> USE DEF TypeOK, KeepsPlaces, HoldSteps, SendSteps, FreeSteps, At, Goto, Return
<1>1. CASE \E p \in Cells, c \in Classes : AllocBegin(t, p, c)
  BY <1>1 DEF AllocBegin
<1>2. CASE AllocLoadHead(t) \/ AllocLoadNext(t) \/ PopLoses(t) \/ AllocLoadGen(t)
  BY <1>2, ZenonT(60) DEF AllocLoadHead, AllocLoadNext, PopLoses, AllocCas, AllocLoadGen
<1>3. CASE MarkCheckGeneration(t) \/ MarkCheckState(t) \/ ReceiveCopy(t)
  BY <1>3 DEF MarkCheckGeneration, MarkCheckState, ReceiveCopy
<1>4. CASE FreeCheckGeneration(t) \/ FreeCheckState(t) \/ FreeLoadHead(t) \/ PushLoses(t)
  BY <1>4 DEF FreeCheckGeneration, FreeCheckState, FreeLoadHead, PushLoses, FreeCas
<1>5. CASE ScanOwner(t) \/ ScanState(t) \/ ScanLoadGeneration(t)
  BY <1>5, SMTT(60) DEF ScanOwner, ScanState, ScanLoadGeneration
<1> QED
  BY <1>1, <1>2, <1>3, <1>4, <1>5 DEF PrivateStep

LEMMA WriteSteps ==
  ASSUME TypeOK, NEW t \in Threads, WriteStep(t)
  PROVE  /\ KeepsPlaces(t)
         /\ UNCHANGED <<free_head, locals, scan, removed, dead>>
         /\ pc[t] \in HoldSteps /\ pc'[t] \in HoldSteps /\ t \notin dead
         /\ \A s \in Slots \ {slot[t]} :
               /\ state'[s] = state[s] /\ generation'[s] = generation[s] /\ data'[s] = data[s]
               /\ owner_peer'[s] = owner_peer[s] /\ next_free'[s] = next_free[s]
BY SMTT(60) DEF TypeOK, KeepsPlaces, HoldSteps, SendSteps, FreeSteps, At, Goto, WriteStep,
     AllocSetState, AllocSetOwner, SendCopy, MarkStore, FreeClearOwner, FreeBumpGeneration,
     FreeSetState, FreeLink

LEMMA RemoveStep ==
  ASSUME TypeOK, NEW t \in HostThreads, NEW p \in Cells, RemovePeer(t, p)
  PROVE  /\ KeepsPlaces(t) /\ removed' = removed \cup {p}
         /\ t \in Threads /\ p \in dead /\ p \notin removed
         /\ UNCHANGED <<free_head, memory, wire, cls, slot, gen, head, next, payload, dead>>
         /\ pc[t] = "idle" /\ pc'[t] = "scan_owner" /\ link'[t] = p /\ scan'[t] = 0
         /\ \A u \in Threads \ {t} : pc'[u] = pc[u] /\ link'[u] = link[u] /\ scan'[u] = scan[u]
BY Constants DEF RemovePeer, TypeOK, KeepsPlaces, HoldSteps, SendSteps, FreeSteps, At, Goto

LEMMA ExclusionKept ==
  ASSUME Exclusion, NEW t \in Threads, KeepsPlaces(t)
  PROVE  Exclusion'
<1>1. \A u \in Threads : InHand(u)' => InHand(u) /\ slot'[u] = slot[u]
  BY DEF KeepsPlaces, InHand
<1>2. OnWire' \subseteq OnWire
  BY DEF KeepsPlaces, OnWire
<1> QED
  BY <1>1, <1>2 DEF Exclusion

LEMMA ListsKept ==
  ASSUME TypeOK, Lists, NEW t \in Threads, KeepsPlaces(t), free_head' = free_head,
         \A s \in Slots : \/ InHand(t) /\ s = slot[t]
                          \/ owner_peer'[s] = owner_peer[s] /\ next_free'[s] = next_free[s]
  PROVE  Lists'
<1>1. \A u \in Threads : InHand(u)' => InHand(u) /\ slot'[u] = slot[u]
  BY DEF KeepsPlaces, InHand
<1> SUFFICES ASSUME NEW c \in Classes PROVE ListOf(c)'
  BY DEF Lists
<1>2. ListOf(c) /\ free_list[c] \in Seq(Slots)
  BY DEF Lists, TypeOK
<1>3. \A i \in DOMAIN free_list[c] :
         /\ owner_peer'[free_list[c][i]] = owner_peer[free_list[c][i]]
         /\ next_free'[free_list[c][i]] = next_free[free_list[c][i]]
  BY <1>2, ListDomain DEF ListOf, Chained
<1>4. free_list'[c] = free_list[c] /\ free_head'[c] = free_head[c]
  BY DEF KeepsPlaces
<1> QED
  BY <1>1, <1>2, <1>3, <1>4 DEF ListOf, Chained, ItemOrEnd

-----------------------------------------------------------------------------
(* Links *)

\* What a step of t must do to its own locals.
LEMMA LinksFrame ==
  ASSUME Links, NEW t \in Threads, LinkOf(t)', removed' = removed,
         \A u \in Threads \ {t} : pc'[u] = pc[u] /\ link'[u] = link[u] /\ scan'[u] = scan[u],
         scan'[t] # -1 => scan[t] # -1 /\ link'[t] = link[t]
  PROVE  Links'
<1>1. ASSUME NEW u \in Threads PROVE LinkOf(u)'
  BY DEF Links, LinkOf
<1>2. ASSUME NEW u \in Threads, NEW v \in Threads,
             scan'[u] # -1, scan'[v] # -1, link'[u] = link'[v]
      PROVE  u = v
  BY <1>2 DEF Links
<1> QED
  BY <1>1, <1>2 DEF Links

LEMMA LinksPrivate ==
  ASSUME TypeOK, Links, NEW t \in Threads, PrivateStep(t), QuiesceFirst
  PROVE  Links'
<1>1. /\ \A u \in Threads \ {t} : pc'[u] = pc[u] /\ link'[u] = link[u] /\ scan'[u] = scan[u]
      /\ removed' = removed
  BY PrivateSteps DEF KeepsPlaces
<1>2. LinkOf(t) /\ pc \in [Threads -> Steps] /\ scan \in [Threads -> Int] /\ link \in [Threads -> Cells \cup {NO_OWNER}]
  BY DEF Links, TypeOK
<1> HIDE DEF TypeOK, Links
<1> USE DEF LinkOf, ScanSteps, FreeSteps, At, Goto, Return
<1>3. CASE \E p \in Cells, c \in Classes : AllocBegin(t, p, c)
  <2>1. PICK p \in Cells, c \in Classes : AllocBegin(t, p, c)
    BY <1>3
  <2>2. /\ scan[t] = -1 /\ scan'[t] = scan[t] /\ link'[t] = p
        /\ pc'[t] = "load_head" /\ p \notin removed
        /\ t \in Cells => p = t
    BY <2>1, <1>2 DEF AllocBegin, Dropped
  <2> QED
    BY <1>1, <2>2, LinksFrame
<1>4. ASSUME ~\E p \in Cells, c \in Classes : AllocBegin(t, p, c)
      PROVE  LinkOf(t)' /\ (scan'[t] # -1 => scan[t] # -1 /\ link'[t] = link[t])
  <2>1. CASE AllocLoadHead(t) \/ AllocLoadNext(t) \/ PopLoses(t) \/ AllocLoadGen(t)
    BY <2>1, <1>1, <1>2 DEF AllocLoadHead, AllocLoadNext, PopLoses, AllocCas, AllocLoadGen
  <2>2. CASE MarkCheckGeneration(t) \/ MarkCheckState(t) \/ ReceiveCopy(t)
    BY <2>2, <1>1, <1>2 DEF MarkCheckGeneration, MarkCheckState, ReceiveCopy
  <2>3. CASE FreeCheckGeneration(t) \/ FreeCheckState(t) \/ FreeLoadHead(t) \/ PushLoses(t)
    BY <2>3, <1>1, <1>2 DEF FreeCheckGeneration, FreeCheckState, FreeLoadHead, PushLoses, FreeCas
  <2>4. CASE ScanOwner(t) \/ ScanState(t) \/ ScanLoadGeneration(t)
    BY <2>4, <1>1, <1>2 DEF ScanOwner, ScanState, ScanLoadGeneration
  <2> QED
    BY <1>4, <2>1, <2>2, <2>3, <2>4 DEF PrivateStep
<1> QED
  BY <1>1, <1>3, <1>4, LinksFrame

LEMMA LinksWrite ==
  ASSUME TypeOK, Links, NEW t \in Threads, WriteStep(t)
  PROVE  Links'
<1>1. /\ \A u \in Threads \ {t} : pc'[u] = pc[u]
      /\ UNCHANGED <<link, scan, removed>>
  BY WriteSteps DEF KeepsPlaces
<1>2. /\ pc[t] # "idle" /\ pc'[t] \notin ScanSteps /\ pc'[t] # "idle"
      /\ pc[t] \in ScanSteps \cup FreeSteps => pc'[t] \in ScanSteps \cup FreeSteps
  BY DEF TypeOK, At, Goto, WriteStep, AllocSetState, AllocSetOwner, SendCopy, MarkStore,
         FreeClearOwner, FreeBumpGeneration, FreeSetState, FreeLink, ScanSteps, FreeSteps
<1>3. LinkOf(t)'
  BY <1>1, <1>2 DEF Links, LinkOf
<1> QED
  BY <1>1, <1>3, LinksFrame

LEMMA LinksTransfer ==
  ASSUME TypeOK, Links, NEW t \in Threads, TransferStep(t), QuiesceFirst
  PROVE  Links'
<1>1. LinkOf(t) /\ pc \in [Threads -> Steps] /\ link \in [Threads -> Cells \cup {NO_OWNER}]
      /\ wire \subseteq Descriptors
  BY DEF Links, TypeOK
<1> HIDE DEF TypeOK, Links
<1> USE DEF LinkOf, ScanSteps, FreeSteps, At, Goto, Return
<1>2. CASE PopWins(t) \/ PushWins(t) \/ SendEnqueue(t) \/ ScanForceInFlight(t)
  <2>1. /\ \A u \in Threads \ {t} : pc'[u] = pc[u]
        /\ UNCHANGED <<link, scan, removed>>
    BY <1>2, <1>1 DEF PopWins, AllocCas, PushWins, FreeCas, SendEnqueue, ScanForceInFlight
  <2>2. LinkOf(t)'
    BY <1>2, <2>1, <1>1 DEF PopWins, AllocCas, PushWins, FreeCas, SendEnqueue, ScanForceInFlight
  <2> QED
    BY <2>1, <2>2, LinksFrame
<1>3. CASE \E d \in wire : Receive(t, d)
  <2>1. PICK d \in wire : Receive(t, d)
    BY <1>3
  <2>2. /\ \A u \in Threads \ {t} : pc'[u] = pc[u] /\ link'[u] = link[u]
        /\ UNCHANGED <<scan, removed>>
        /\ pc[t] = "idle" /\ pc'[t] = "copy_out" /\ link'[t] = d.link
        /\ d.link \in Cells /\ d.link \notin removed
        /\ t \in Cells => d.link = t
    BY <2>1, <1>1 DEF Receive, Dropped, Descriptors
  <2>3. LinkOf(t)'
    BY <2>2, <1>1
  <2> QED
    BY <2>2, <2>3, <1>1, LinksFrame
<1> QED
  BY <1>2, <1>3 DEF TransferStep

LEMMA LinksRemove ==
  ASSUME TypeOK, Links, NEW t \in HostThreads, NEW p \in Cells, RemovePeer(t, p), QuiesceFirst
  PROVE  Links'
<1>1. \A u \in HostThreads : pc[u] = "idle" \/ link[u] # p
  BY DEF RemovePeer, HostUses
<1>2. LinkOf(t)'
  BY RemoveStep DEF LinkOf, ScanSteps, FreeSteps
<1>3. ASSUME NEW u \in Threads \ {t} PROVE LinkOf(u)'
  <2>1. LinkOf(u)
    BY DEF Links
  <2> QED
    BY <1>1, <2>1, RemoveStep, Constants DEF LinkOf
<1>4. ASSUME NEW u \in Threads, NEW v \in Threads,
             scan'[u] # -1, scan'[v] # -1, link'[u] = link'[v]
      PROVE  u = v
  <2>1. \A w \in Threads : scan[w] # -1 => link[w] # p
    BY RemoveStep DEF Links, LinkOf
  <2> QED
    BY <1>4, <2>1, RemoveStep DEF Links
<1> QED
  BY <1>2, <1>3, <1>4 DEF Links

-----------------------------------------------------------------------------
(* Owners *)

\* No thread, descriptor or list has the slot a scanner is about to take.
LEMMA ScannerAlone ==
  ASSUME Links, Owners, NEW u \in Threads, pc[u] \in {"scan_state", "scan_force"}
  PROVE  /\ owner_peer[slot[u]] # NO_OWNER
         /\ \A t \in Threads : InHand(t) => slot[t] # slot[u]
         /\ \A d \in OnWire : d.slot # slot[u]
<1>1. /\ scan[u] # -1 /\ link[u] \in Cells /\ link[u] \in removed
      /\ owner_peer[slot[u]] = link[u]
  BY DEF Links, LinkOf, Owners, OwnerOf, ScanSteps
<1>2. ASSUME NEW t \in Threads, InHand(t), slot[t] = slot[u] PROVE FALSE
  <2>1. pc[t] # "idle" /\ pc[t] \notin {"scan_state", "scan_force"} /\ t \notin removed
    BY <1>2 DEF InHand, HoldSteps, SendSteps, FreeSteps
  <2>2. link[t] = link[u]
    BY <1>1, <1>2, Constants DEF Owners, OwnerOf
  <2>3. scan[t] # -1
    BY <1>1, <2>1, <2>2 DEF Links, LinkOf
  <2> QED
    BY <1>1, <2>1, <2>2, <2>3 DEF Links
<1> QED
  BY <1>1, <1>2, Constants DEF Owners, OnWire

LEMMA OwnersPrivate ==
  ASSUME TypeOK, Owners, NEW t \in Threads, PrivateStep(t)
  PROVE  Owners'
<1>1. /\ \A u \in Threads \ {t} : pc'[u] = pc[u] /\ slot'[u] = slot[u] /\ link'[u] = link[u]
      /\ UNCHANGED <<owner_peer, wire, removed>>
  BY PrivateSteps DEF KeepsPlaces
<1>2. ASSUME NEW u \in Threads \ {t} PROVE OwnerOf(u)'
  BY <1>1 DEF Owners, OwnerOf, InHand
<1>3. OwnerOf(t)'
  <2> OwnerOf(t) /\ pc \in [Threads -> Steps] /\ slot \in [Threads -> Slots]
    BY DEF TypeOK, Owners
  <2> USE <1>1 DEF OwnerOf, InHand, HoldSteps, UnsignedSteps, SendSteps, FreeSteps, At, Goto, Return
  <2>1. CASE \E p \in Cells, c \in Classes : AllocBegin(t, p, c)
    <3>1. pc'[t] = "load_head"
      BY <2>1 DEF AllocBegin
    <3> QED
      BY <3>1
  <2>2. CASE AllocLoadHead(t) \/ AllocLoadNext(t) \/ PopLoses(t) \/ AllocLoadGen(t)
    BY <2>2 DEF AllocLoadHead, AllocLoadNext, PopLoses, AllocCas, AllocLoadGen
  <2>3. CASE MarkCheckGeneration(t) \/ MarkCheckState(t) \/ ReceiveCopy(t)
    BY <2>3 DEF MarkCheckGeneration, MarkCheckState, ReceiveCopy
  <2>4. CASE FreeCheckGeneration(t) \/ FreeCheckState(t) \/ FreeLoadHead(t) \/ PushLoses(t)
    BY <2>4 DEF FreeCheckGeneration, FreeCheckState, FreeLoadHead, PushLoses, FreeCas
  <2>5. CASE ScanOwner(t) \/ ScanState(t) \/ ScanLoadGeneration(t)
    BY <2>5 DEF ScanOwner, ScanState, ScanLoadGeneration
  <2> QED
    BY <2>1, <2>2, <2>3, <2>4, <2>5 DEF PrivateStep
<1> QED
  BY <1>1, <1>2, <1>3 DEF Owners, OnWire

LEMMA OwnersWrite ==
  ASSUME TypeOK, Links, Owners, Exclusion, NEW t \in Threads, WriteStep(t)
  PROVE  Owners'
<1>1. /\ \A u \in Threads \ {t} : pc'[u] = pc[u]
      /\ UNCHANGED <<slot, link, wire, removed>>
      /\ InHand(t) /\ pc'[t] \in HoldSteps
      /\ \A s \in Slots \ {slot[t]} : owner_peer'[s] = owner_peer[s]
  BY WriteSteps DEF KeepsPlaces, InHand, TypeOK
<1>2. slot \in [Threads -> Slots] /\ wire \subseteq Descriptors
  BY DEF TypeOK
<1>3. ASSUME NEW u \in Threads \ {t} PROVE OwnerOf(u)'
  <2>1. CASE InHand(u)
    <3>1. slot[u] # slot[t] /\ pc[u] \notin {"scan_state", "scan_force"}
      BY <1>1, <2>1 DEF Exclusion, InHand, HoldSteps, SendSteps, FreeSteps
    <3> QED
      BY <1>1, <1>2, <3>1 DEF Owners, OwnerOf, InHand
  <2>2. CASE pc[u] \in {"scan_state", "scan_force"}
    <3>1. slot[u] # slot[t]
      BY <1>1, <2>2, ScannerAlone
    <3> QED
      BY <1>1, <1>2, <3>1 DEF Owners, OwnerOf, InHand
  <2> QED
    BY <1>1, <2>1, <2>2 DEF OwnerOf, InHand
<1>4. OwnerOf(t)'
  <2>1. OwnerOf(t) /\ pc \in [Threads -> Steps] /\ slot[t] \in Slots /\ owner_peer \in [Slots -> Cells \cup {NO_OWNER}]
    BY DEF Owners, TypeOK
  <2> USE <1>1, <2>1 DEF OwnerOf, InHand, HoldSteps, UnsignedSteps, SendSteps, FreeSteps, At, Goto
  <2>2. CASE AllocSetState(t) \/ AllocSetOwner(t) \/ SendCopy(t) \/ MarkStore(t)
    BY <2>2 DEF AllocSetState, AllocSetOwner, SendCopy, MarkStore
  <2>3. CASE FreeClearOwner(t) \/ FreeBumpGeneration(t) \/ FreeSetState(t) \/ FreeLink(t)
    BY <2>3 DEF FreeClearOwner, FreeBumpGeneration, FreeSetState, FreeLink
  <2> QED
    BY <2>2, <2>3 DEF WriteStep
<1>5. ASSUME NEW d \in OnWire PROVE d.slot \in Slots /\ d.slot # slot[t]
  BY <1>1, <1>2 DEF Exclusion, OnWire, Descriptors
<1> QED
  BY <1>1, <1>3, <1>4, <1>5 DEF Owners, OnWire

\* What the lists tell of the head a successful compare-and-swap found.
LEMMA PopsTop ==
  ASSUME TypeOK, Lists, Heads, NEW t \in Threads, PopWins(t)
  PROVE  /\ cls[t] \in Classes /\ free_list[cls[t]] \in Seq(Slots)
         /\ 1 \in DOMAIN free_list[cls[t]]
         /\ slot[t] = free_list[cls[t]][1]
         /\ next[t] = ItemOrEnd(free_list[cls[t]], 2)
         /\ owner_peer[slot[t]] = NO_OWNER
         /\ pc[t] = "cas_pop" /\ pc' = [pc EXCEPT ![t] = "set_allocated"]
         /\ t \notin dead
         /\ free_head' = [free_head EXCEPT ![cls[t]] = [index |-> next[t], tag |-> head[t].tag + 1]]
         /\ free_list' = [free_list EXCEPT ![cls[t]] = Tail(@)]
         /\ UNCHANGED <<memory, wire, locals, scan, peers, allocs>>
<1>1. /\ cls[t] \in Classes /\ free_list[cls[t]] \in Seq(Slots) /\ slot[t] \in Slots
      /\ free_list \in [Classes -> Seq(Slots)]
  BY DEF TypeOK
<1>2. /\ pc[t] = "cas_pop" /\ pc' = [pc EXCEPT ![t] = "set_allocated"] /\ t \notin dead
      /\ free_head[cls[t]] = head[t]
      /\ free_head' = [free_head EXCEPT ![cls[t]] = [index |-> next[t], tag |-> head[t].tag + 1]]
      /\ free_list' = [free_list EXCEPT ![cls[t]] = Tail(@)]
      /\ UNCHANGED <<memory, wire, locals, scan, peers, allocs>>
  BY DEF PopWins, AllocCas, At, Goto
<1>3. ItemOrEnd(free_list[cls[t]], 1) = slot[t] /\ next[t] = ItemOrEnd(free_list[cls[t]], 2)
  BY <1>1, <1>2 DEF Heads, HeadOf, Lists, ListOf, Chained
<1>4. 1 \in DOMAIN free_list[cls[t]]
  BY <1>1, <1>3, ListDomain, Constants
<1> QED
  BY <1>1, <1>2, <1>3, <1>4 DEF ItemOrEnd, Lists, ListOf, Chained

LEMMA OwnersTransfer ==
  ASSUME TypeOK, Links, Owners, Lists, Heads, NEW t \in Threads, TransferStep(t), QuiesceFirst
  PROVE  Owners'
<1>0. /\ pc \in [Threads -> Steps] /\ slot \in [Threads -> Slots]
      /\ link \in [Threads -> Cells \cup {NO_OWNER}] /\ OwnerOf(t)
  BY DEF TypeOK, Owners
<1> USE <1>0 DEF OwnerOf, InHand, HoldSteps, UnsignedSteps, SendSteps, FreeSteps, At, Goto, Return
<1>1. /\ \A u \in Threads \ {t} : pc'[u] = pc[u] /\ slot'[u] = slot[u] /\ link'[u] = link[u]
      /\ UNCHANGED <<owner_peer, removed>>
  BY DEF TransferStep, PopWins, AllocCas, PushWins, FreeCas, SendEnqueue, ScanForceInFlight, Receive
<1>2. \A u \in Threads \ {t} : OwnerOf(u)'
  BY <1>1 DEF Owners
<1>3. CASE PopWins(t)
  <2>1. OwnerOf(t)' /\ wire' = wire
    BY <1>3, PopsTop
  <2> QED
    BY <1>1, <1>2, <2>1 DEF Owners, OnWire
<1>4. CASE PushWins(t)
  <2>1. OwnerOf(t)' /\ wire' = wire
    BY <1>4 DEF PushWins, FreeCas
  <2> QED
    BY <1>1, <1>2, <2>1 DEF Owners, OnWire
<1>5. CASE SendEnqueue(t)
  <2>1. OwnerOf(t)'
    BY <1>5 DEF SendEnqueue
  <2>2. owner_peer[slot[t]] = link[t]
    BY <1>5 DEF SendEnqueue, TypeOK
  <2>3. \A d \in wire' : d \in wire \/ (d.slot = slot[t] /\ d.link = link[t])
    BY <1>5 DEF SendEnqueue
  <2> QED
    BY <1>1, <1>2, <2>1, <2>2, <2>3 DEF Owners, OnWire
<1>6. CASE ScanForceInFlight(t)
  <2>1. OwnerOf(t)' /\ wire' = wire
    BY <1>6 DEF ScanForceInFlight, Owners
  <2> QED
    BY <1>1, <1>2, <2>1 DEF Owners, OnWire
<1>7. CASE \E d \in wire : Receive(t, d)
  <2>1. PICK d \in wire : Receive(t, d)
    BY <1>7
  <2>2. owner_peer[d.slot] = d.link
    BY <2>1 DEF Receive, Dropped, Owners, OnWire
  <2>3. OwnerOf(t)' /\ wire' \subseteq wire
    BY <2>1, <2>2 DEF Receive
  <2> QED
    BY <1>1, <1>2, <2>3 DEF Owners, OnWire
<1> QED
  BY <1>3, <1>4, <1>5, <1>6, <1>7 DEF TransferStep

LEMMA OwnersRemove ==
  ASSUME TypeOK, Owners, NEW t \in HostThreads, NEW p \in Cells, RemovePeer(t, p)
  PROVE  Owners'
<1>1. \A u \in Threads : OwnerOf(u)'
  BY RemoveStep DEF KeepsPlaces, Owners, OwnerOf, InHand, HoldSteps, SendSteps, FreeSteps
<1> QED
  BY <1>1, RemoveStep DEF Owners, OnWire

-----------------------------------------------------------------------------
(* Places and loaded heads *)

\* The head of a list that is not empty names its first slot.
LEMMA HeadIsTop ==
  ASSUME TypeOK, Lists, NEW c \in Classes, free_head[c].index # FREE_LIST_END
  PROVE  /\ 1 \in DOMAIN free_list[c]
         /\ free_head[c].index = free_list[c][1]
         /\ free_list[c][1] \in SlotsOf(c)
         /\ next_free[free_list[c][1]] = ItemOrEnd(free_list[c], 2)
<1>1. free_list[c] \in Seq(Slots) /\ ListOf(c)
  BY DEF TypeOK, Lists
<1>2. 1 \in DOMAIN free_list[c]
  BY <1>1, ListDomain DEF ListOf, Chained
<1> QED
  BY <1>1, <1>2 DEF ListOf, Chained, ItemOrEnd

LEMMA PlacedPrivate ==
  ASSUME TypeOK, Lists, Placed, NEW t \in Threads, PrivateStep(t)
  PROVE  Placed'
<1>1. \A u \in Threads \ {t} : pc'[u] = pc[u] /\ slot'[u] = slot[u] /\ cls'[u] = cls[u]
  BY PrivateSteps DEF KeepsPlaces
<1>2. /\ PlaceOf(t) /\ pc \in [Threads -> Steps] /\ slot \in [Threads -> Slots]
      /\ cls \in [Threads -> Classes] /\ cls[t] \in Classes
  BY DEF TypeOK, Placed
<1>3. PlaceOf(t)'
  <2> USE <1>2 DEF PlaceOf, At, Goto, Return
  <2>1. CASE \E p \in Cells, c \in Classes : AllocBegin(t, p, c)
    <3>1. pc'[t] = "load_head"
      BY <2>1 DEF AllocBegin
    <3> QED
      BY <3>1
  <2>2. CASE AllocLoadHead(t)
    <3>1. free_head[cls[t]].index # FREE_LIST_END => free_head[cls[t]].index \in SlotsOf(cls[t])
      BY HeadIsTop
    <3> QED
      BY <2>2, <3>1 DEF AllocLoadHead
  <2>3. CASE AllocLoadNext(t) \/ PopLoses(t) \/ AllocLoadGen(t)
    BY <2>3 DEF AllocLoadNext, PopLoses, AllocCas, AllocLoadGen
  <2>4. CASE MarkCheckGeneration(t) \/ MarkCheckState(t) \/ ReceiveCopy(t)
    BY <2>4 DEF MarkCheckGeneration, MarkCheckState, ReceiveCopy
  <2>5. CASE FreeCheckGeneration(t) \/ FreeCheckState(t) \/ FreeLoadHead(t) \/ PushLoses(t)
    BY <2>5 DEF FreeCheckGeneration, FreeCheckState, FreeLoadHead, PushLoses, FreeCas
  <2>6. CASE ScanOwner(t)
    <3>1. pc'[t] = "scan_state" => scan[t] \in Slots /\ slot'[t] = scan[t] /\ cls'[t] = ClassOf(scan[t])
      BY <2>6 DEF ScanOwner
    <3>2. pc'[t] \in {"idle", "scan_owner", "scan_state"}
      BY <2>6 DEF ScanOwner
    <3> QED
      BY <3>1, <3>2, Partition
  <2>7. CASE ScanState(t) \/ ScanLoadGeneration(t)
    BY <2>7 DEF ScanState, ScanLoadGeneration
  <2> QED
    BY <2>1, <2>2, <2>3, <2>4, <2>5, <2>6, <2>7 DEF PrivateStep
<1> QED
  BY <1>1, <1>3 DEF Placed, PlaceOf

LEMMA PlacedWrite ==
  ASSUME Placed, TypeOK, NEW t \in Threads, WriteStep(t)
  PROVE  Placed'
<1>1. pc[t] \in HoldSteps /\ UNCHANGED <<slot, cls>> /\ \A u \in Threads \ {t} : pc'[u] = pc[u]
  BY WriteSteps DEF KeepsPlaces
<1> QED
  BY <1>1 DEF Placed, PlaceOf, HoldSteps, SendSteps, FreeSteps

LEMMA PlacedTransfer ==
  ASSUME Placed, TypeOK, NEW t \in Threads, TransferStep(t)
  PROVE  Placed'
<1>1. /\ \A u \in Threads \ {t} : pc'[u] = pc[u] /\ slot'[u] = slot[u] /\ cls'[u] = cls[u]
  BY SMTT(60) DEF TransferStep, PopWins, AllocCas, PushWins, FreeCas, SendEnqueue, ScanForceInFlight, Receive,
         At, Goto, TypeOK
<1>2. /\ PlaceOf(t) /\ pc \in [Threads -> Steps] /\ slot \in [Threads -> Slots]
      /\ cls \in [Threads -> Classes] /\ wire \subseteq Descriptors
  BY DEF TypeOK, Placed
<1>3. PlaceOf(t)'
  <2> USE <1>2 DEF PlaceOf, At, Goto, Return
  <2>1. CASE PopWins(t) \/ PushWins(t) \/ SendEnqueue(t) \/ ScanForceInFlight(t)
    BY <2>1 DEF PopWins, AllocCas, PushWins, FreeCas, SendEnqueue, ScanForceInFlight
  <2>2. CASE \E d \in wire : Receive(t, d)
    <3>1. PICK d \in wire : Receive(t, d)
      BY <2>2
    <3>2. slot'[t] = d.slot /\ cls'[t] = ClassOf(d.slot) /\ d.slot \in Slots
      BY <3>1 DEF Receive, Descriptors
    <3> QED
      BY <3>2, Partition
  <2> QED
    BY <2>1, <2>2 DEF TransferStep
<1> QED
  BY <1>1, <1>3 DEF Placed, PlaceOf

LEMMA PlacedRemove ==
  ASSUME Placed, TypeOK, NEW t \in HostThreads, NEW p \in Cells, RemovePeer(t, p)
  PROVE  Placed'
BY RemoveStep DEF Placed, PlaceOf

\* What a step of t must do for the heads the others loaded.
LEMMA HeadsFrame ==
  ASSUME TypeOK, Heads, Exclusion, NEW t \in Threads, HeadOf(t)', removed \subseteq removed',
         \A u \in Threads \ {t} : /\ pc'[u] = pc[u] /\ cls'[u] = cls[u] /\ slot'[u] = slot[u]
                                  /\ head'[u] = head[u] /\ next'[u] = next[u],
         \A c \in Classes : \/ free_head'[c] = free_head[c] /\ free_list'[c] = free_list[c]
                            \/ free_head'[c].tag \in Nat /\ free_head'[c].tag > free_head[c].tag,
         \A s \in Slots : next_free'[s] = next_free[s] \/ (InHand(t) /\ s = slot[t])
  PROVE  Heads'
<1> SUFFICES ASSUME NEW u \in Threads \ {t} PROVE HeadOf(u)'
  BY DEF Heads
<1>1. /\ HeadOf(u) /\ cls[u] \in Classes /\ slot[u] \in Slots
      /\ free_head[cls[u]].tag \in Nat /\ head[u].tag \in Nat
  BY DEF Heads, TypeOK
<1>2. pc[u] = "cas_push" /\ u \notin removed' => next_free'[slot[u]] = next_free[slot[u]]
  BY <1>1 DEF Exclusion, InHand, HoldSteps, FreeSteps
<1>3. /\ pc'[u] = pc[u] /\ cls'[u] = cls[u] /\ slot'[u] = slot[u]
      /\ head'[u] = head[u] /\ next'[u] = next[u]
  OBVIOUS
<1>4. CASE free_head'[cls[u]] = free_head[cls[u]] /\ free_list'[cls[u]] = free_list[cls[u]]
  BY <1>1, <1>2, <1>3, <1>4 DEF HeadOf
<1>5. CASE free_head'[cls[u]].tag \in Nat /\ free_head'[cls[u]].tag > free_head[cls[u]].tag
  <2>1. pc[u] \in HeadSteps =>
           head[u].tag <= free_head'[cls[u]].tag /\ head[u] # free_head'[cls[u]]
    BY <1>1, <1>5 DEF HeadOf
  <2> QED
    BY <1>1, <1>2, <1>3, <2>1 DEF HeadOf, HeadSteps
<1> QED
  BY <1>1, <1>4, <1>5

LEMMA HeadsPrivate ==
  ASSUME TypeOK, Heads, Exclusion, Lists, NEW t \in Threads, PrivateStep(t)
  PROVE  Heads'
<1>1. /\ \A u \in Threads \ {t} : /\ pc'[u] = pc[u] /\ slot'[u] = slot[u] /\ cls'[u] = cls[u]
                                  /\ head'[u] = head[u] /\ next'[u] = next[u]
      /\ UNCHANGED <<free_head, free_list, memory, removed>>
  BY PrivateSteps DEF KeepsPlaces
<1>2. /\ HeadOf(t) /\ pc \in [Threads -> Steps] /\ slot \in [Threads -> Slots]
      /\ cls \in [Threads -> Classes] /\ cls[t] \in Classes /\ free_head[cls[t]].tag \in Nat
      /\ head \in [Threads -> [index : Slots \cup {FREE_LIST_END}, tag : Nat]]
      /\ next \in [Threads -> Slots \cup {FREE_LIST_END}]
  BY DEF TypeOK, Heads
<1>3. HeadOf(t)'
  <2> USE <1>2 DEF At, Goto, Return
  <2>1. CASE AllocLoadHead(t)
    BY <1>1, <2>1 DEF AllocLoadHead, HeadOf, HeadSteps
  <2>2. CASE AllocLoadNext(t)
    <3>1. /\ pc[t] = "load_next" /\ pc'[t] = "cas_pop" /\ next'[t] = next_free[slot[t]]
          /\ cls'[t] = cls[t] /\ slot'[t] = slot[t] /\ head'[t] = head[t]
      BY <2>2 DEF AllocLoadNext
    <3>2. head[t] = free_head[cls[t]] => next_free[slot[t]] = ItemOrEnd(free_list[cls[t]], 2)
      BY <3>1, HeadIsTop, Constants DEF HeadOf
    <3> QED
      BY <1>1, <3>1, <3>2 DEF HeadOf, HeadSteps
  <2>3. CASE FreeLoadHead(t)
    BY <1>1, <2>3 DEF FreeLoadHead, HeadOf, HeadSteps
  <2>4. CASE PopLoses(t) \/ PushLoses(t) \/ \E p \in Cells, c \in Classes : AllocBegin(t, p, c)
    <3>1. pc'[t] \in {"load_head", "load_top"}
      BY <2>4 DEF PopLoses, AllocCas, PushLoses, FreeCas, AllocBegin
    <3> QED
      BY <3>1 DEF HeadOf, HeadSteps
  <2>5. CASE \/ AllocLoadGen(t) \/ MarkCheckGeneration(t) \/ MarkCheckState(t) \/ ReceiveCopy(t)
             \/ FreeCheckGeneration(t) \/ FreeCheckState(t)
             \/ ScanOwner(t) \/ ScanState(t) \/ ScanLoadGeneration(t)
    <3>1. pc'[t] \notin HeadSteps
      BY <2>5 DEF AllocLoadGen, MarkCheckGeneration, MarkCheckState, ReceiveCopy, FreeCheckGeneration,
         FreeCheckState, ScanOwner, ScanState, ScanLoadGeneration, HeadSteps
    <3> QED
      BY <3>1 DEF HeadOf, HeadSteps
  <2> QED
    BY <2>1, <2>2, <2>3, <2>4, <2>5 DEF PrivateStep
<1> QED
  BY <1>1, <1>3, HeadsFrame

LEMMA HeadsWrite ==
  ASSUME TypeOK, Heads, Exclusion, NEW t \in Threads, WriteStep(t)
  PROVE  Heads'
<1>1. /\ \A u \in Threads \ {t} : pc'[u] = pc[u]
      /\ UNCHANGED <<free_head, free_list, locals, removed>>
      /\ InHand(t)
      /\ \A s \in Slots \ {slot[t]} : next_free'[s] = next_free[s]
  BY WriteSteps DEF KeepsPlaces, InHand, TypeOK
<1>2. /\ HeadOf(t) /\ pc \in [Threads -> Steps] /\ slot[t] \in Slots
      /\ next_free \in [Slots -> Slots \cup {FREE_LIST_END}]
  BY DEF TypeOK, Heads
<1>3. HeadOf(t)'
  <2>1. CASE FreeLink(t)
    BY <1>1, <1>2, <2>1 DEF FreeLink, HeadOf, HeadSteps, At, Goto
  <2>2. CASE ~FreeLink(t)
    <3>1. pc'[t] \notin HeadSteps
      BY <1>2, <2>2 DEF WriteStep, AllocSetState, AllocSetOwner, SendCopy, MarkStore, FreeClearOwner,
         FreeBumpGeneration, FreeSetState, HeadSteps, At, Goto
    <3> QED
      BY <3>1 DEF HeadOf, HeadSteps
  <2> QED
    BY <2>1, <2>2
<1> QED
  BY <1>1, <1>3, HeadsFrame

LEMMA HeadsTransfer ==
  ASSUME TypeOK, Heads, Exclusion, NEW t \in Threads, TransferStep(t)
  PROVE  Heads'
<1> USE DEF At, Goto, Return, TransferStep, PopWins, AllocCas, PushWins, FreeCas, SendEnqueue,
            ScanForceInFlight, Receive
<1>1. /\ pc \in [Threads -> Steps] /\ slot \in [Threads -> Slots] /\ cls \in [Threads -> Classes]
      /\ head \in [Threads -> [index : Slots \cup {FREE_LIST_END}, tag : Nat]]
      /\ next \in [Threads -> Slots \cup {FREE_LIST_END}]
      /\ free_head \in [Classes -> [index : Slots \cup {FREE_LIST_END}, tag : Nat]]
      /\ free_list \in [Classes -> Seq(Slots)]
  BY DEF TypeOK
<1>2. /\ \A u \in Threads \ {t} : /\ pc'[u] = pc[u] /\ slot'[u] = slot[u] /\ cls'[u] = cls[u]
                                  /\ head'[u] = head[u] /\ next'[u] = next[u]
      /\ UNCHANGED <<next_free, removed>>
  BY <1>1
<1>3. HeadOf(t)'
  <2>1. pc'[t] \notin HeadSteps
    BY <1>1 DEF HeadSteps
  <2> QED
    BY <2>1 DEF HeadOf, HeadSteps
<1>4. ASSUME NEW c \in Classes
      PROVE  \/ free_head'[c] = free_head[c] /\ free_list'[c] = free_list[c]
             \/ free_head'[c].tag \in Nat /\ free_head'[c].tag > free_head[c].tag
  <2>1. CASE PopWins(t)
    BY <1>1, <2>1
  <2>2. CASE PushWins(t)
    BY <1>1, <2>2
  <2>3. CASE SendEnqueue(t) \/ ScanForceInFlight(t) \/ \E d \in wire : Receive(t, d)
    BY <2>3
  <2> QED
    BY <2>1, <2>2, <2>3
<1> QED
  BY <1>2, <1>3, <1>4, HeadsFrame

LEMMA HeadsRemove ==
  ASSUME TypeOK, Heads, Exclusion, NEW t \in HostThreads, NEW p \in Cells, RemovePeer(t, p)
  PROVE  Heads'
<1>1. HeadOf(t)'
  BY RemoveStep DEF HeadOf, HeadSteps
<1> QED
  BY <1>1, RemoveStep, HeadsFrame DEF KeepsPlaces

-----------------------------------------------------------------------------
(* Exclusion and the lists *)

LEMMA ExclusionTransfer ==
  ASSUME TypeOK, Links, Owners, Exclusion, Lists, Heads, NEW t \in Threads, TransferStep(t), QuiesceFirst
  PROVE  Exclusion'
<1> USE DEF At, Goto, Return
<1>1. /\ \A u \in Threads \ {t} : pc'[u] = pc[u] /\ slot'[u] = slot[u]
      /\ removed' = removed
      /\ t \notin removed
      /\ pc \in [Threads -> Steps] /\ slot \in [Threads -> Slots]
  BY SMTT(60) DEF TransferStep, PopWins, AllocCas, PushWins, FreeCas, SendEnqueue, ScanForceInFlight, Receive, TypeOK
<1>2. \A u \in Threads \ {t} : InHand(u)' <=> InHand(u)
  BY <1>1 DEF InHand
<1>3. ASSUME wire' = wire, slot'[t] = slot[t],
             \/ ~InHand(t)'
             \/ /\ \A u \in Threads \ {t} : InHand(u) => slot[u] # slot[t]
                /\ \A d \in OnWire : d.slot # slot[t]
      PROVE  Exclusion'
  BY <1>1, <1>2, <1>3 DEF Exclusion, OnWire
<1>4. CASE PopWins(t)
  <2>1. /\ wire' = wire /\ slot' = slot /\ pc[t] = "cas_pop"
        /\ cls[t] \in Classes /\ 1 \in DOMAIN free_list[cls[t]] /\ slot[t] = free_list[cls[t]][1]
        /\ owner_peer[slot[t]] = NO_OWNER
    BY <1>4, PopsTop
  <2>2. \A u \in Threads : InHand(u) => slot[u] # slot[t]
    BY <2>1 DEF Lists, ListOf
  <2>3. \A d \in OnWire : d.slot # slot[t]
    BY <2>1, Constants DEF Owners, OnWire, TypeOK, Descriptors
  <2> QED
    BY <2>1, <2>2, <2>3, <1>3
<1>5. CASE PushWins(t)
  <2>1. wire' = wire /\ slot' = slot /\ ~InHand(t)'
    BY <1>1, <1>5 DEF PushWins, FreeCas, InHand, HoldSteps, SendSteps, FreeSteps
  <2> QED
    BY <2>1, <1>3
<1>6. CASE ScanForceInFlight(t)
  <2>1. wire' = wire /\ slot' = slot /\ pc[t] = "scan_force"
    BY <1>6 DEF ScanForceInFlight
  <2> QED
    BY <2>1, <1>3, ScannerAlone
<1>7. CASE SendEnqueue(t)
  <2>1. /\ InHand(t) /\ ~InHand(t)' /\ slot' = slot
    BY <1>1, <1>7 DEF SendEnqueue, InHand, HoldSteps, SendSteps, FreeSteps
  <2>2. PICK d : d.slot = slot[t] /\ wire' = wire \cup {d}
    BY <1>7 DEF SendEnqueue
  <2> QED
    BY <1>1, <1>2, <2>1, <2>2 DEF Exclusion, OnWire
<1>8. CASE \E d \in wire : Receive(t, d)
  <2>1. PICK d \in wire : Receive(t, d)
    BY <1>8
  <2>2. d \in OnWire /\ wire' = wire \ {d} /\ slot'[t] = d.slot
    BY <1>1, <2>1 DEF Receive, Dropped, OnWire
  <2>3. \A u \in Threads \ {t} : InHand(u) => slot[u] # d.slot
    BY <2>2 DEF Exclusion
  <2>4. \A e \in wire' : e.link \notin removed => e \in OnWire /\ e.slot # d.slot
    BY <2>2 DEF Exclusion, OnWire
  <2> QED
    BY <1>1, <1>2, <2>2, <2>3, <2>4 DEF Exclusion, OnWire
<1> QED
  BY <1>4, <1>5, <1>6, <1>7, <1>8 DEF TransferStep

LEMMA ListsPrivate ==
  ASSUME TypeOK, Lists, NEW t \in Threads, PrivateStep(t)
  PROVE  Lists'
BY PrivateSteps, ListsKept

LEMMA ListsWrite ==
  ASSUME TypeOK, Lists, NEW t \in Threads, WriteStep(t)
  PROVE  Lists'
<1>1. InHand(t) /\ KeepsPlaces(t) /\ free_head' = free_head
  BY WriteSteps DEF InHand, TypeOK
<1> QED
  BY <1>1, WriteSteps, ListsKept

\* A step that changes no list, and after which nobody has a listed slot.
LEMMA ListsHold ==
  ASSUME Lists, UNCHANGED <<free_head, free_list, next_free, owner_peer>>,
         \A u \in Threads : InHand(u)' =>
            \/ InHand(u) /\ slot'[u] = slot[u]
            \/ owner_peer[slot'[u]] # NO_OWNER
  PROVE  Lists'
BY DEF Lists, ListOf, Chained, ItemOrEnd

LEMMA ListsTransfer ==
  ASSUME TypeOK, Links, Owners, Placed, Exclusion, Lists, Heads, NEW t \in Threads,
         TransferStep(t), QuiesceFirst
  PROVE  Lists'
<1> USE DEF At, Goto, Return
<1>1. /\ \A u \in Threads \ {t} : pc'[u] = pc[u] /\ slot'[u] = slot[u]
      /\ removed' = removed /\ t \notin removed
      /\ UNCHANGED <<next_free, owner_peer>>
  BY DEF TransferStep, PopWins, AllocCas, PushWins, FreeCas, SendEnqueue, ScanForceInFlight, Receive, TypeOK
<1>2. \A u \in Threads \ {t} : InHand(u)' => InHand(u)
  BY <1>1 DEF InHand
<1>3. CASE PopWins(t)
  <2>1. /\ cls[t] \in Classes /\ free_list[cls[t]] \in Seq(Slots) /\ 1 \in DOMAIN free_list[cls[t]]
        /\ slot[t] = free_list[cls[t]][1] /\ next[t] = ItemOrEnd(free_list[cls[t]], 2)
        /\ free_head' = [free_head EXCEPT ![cls[t]] = [index |-> next[t], tag |-> head[t].tag + 1]]
        /\ free_list' = [free_list EXCEPT ![cls[t]] = Tail(@)]
        /\ UNCHANGED <<slot, cls>>
    BY <1>3, PopsTop
  <2>2. /\ free_head'[cls[t]].index = next[t] /\ free_list'[cls[t]] = Tail(free_list[cls[t]])
        /\ \A e \in Classes \ {cls[t]} : free_head'[e] = free_head[e] /\ free_list'[e] = free_list[e]
    BY <2>1 DEF TypeOK
  <2>3. /\ Chained(Tail(free_list[cls[t]]), cls[t], next[t], next_free, owner_peer)
        /\ \A i \in DOMAIN Tail(free_list[cls[t]]) :
              /\ Tail(free_list[cls[t]])[i] # slot[t]
              /\ i + 1 \in DOMAIN free_list[cls[t]]
              /\ Tail(free_list[cls[t]])[i] = free_list[cls[t]][i + 1]
    BY <2>1, ChainPopped DEF Lists, ListOf
  <2>4. ASSUME NEW i \in DOMAIN Tail(free_list[cls[t]]), NEW u \in Threads, InHand(u)'
        PROVE  slot'[u] # Tail(free_list[cls[t]])[i]
    BY <1>2, <2>1, <2>3, <2>4 DEF Lists, ListOf
  <2>5. ListOf(cls[t])'
    <3>1. Chained(free_list'[cls[t]], cls[t], free_head'[cls[t]].index, next_free', owner_peer')
      BY <1>1, <2>2, <2>3
    <3>2. \A i \in DOMAIN free_list'[cls[t]], u \in Threads : InHand(u)' => slot'[u] # free_list'[cls[t]][i]
      BY <2>2, <2>4
    <3> QED
      BY <2>1, <3>1, <3>2 DEF ListOf
  <2>6. ASSUME NEW e \in Classes, e # cls[t] PROVE ListOf(e)'
    <3>1. \A i \in DOMAIN free_list[e] : free_list[e][i] # slot[t]
      BY <2>1, <2>6, Partition DEF Lists, ListOf, Chained
    <3>2. ListOf(e) /\ free_head'[e] = free_head[e] /\ free_list'[e] = free_list[e]
      BY <2>2, <2>6 DEF Lists
    <3> QED
      BY <1>1, <1>2, <2>1, <3>1, <3>2 DEF ListOf
  <2> QED
    BY <2>1, <2>5, <2>6 DEF Lists
<1>4. CASE PushWins(t)
  <2>1. /\ cls[t] \in Classes /\ free_list[cls[t]] \in Seq(Slots) /\ slot[t] \in Slots
        /\ ListOf(cls[t]) /\ UNCHANGED <<slot, cls>>
        /\ free_head[cls[t]] = head[t] /\ InHand(t) /\ pc[t] = "cas_push" /\ ~InHand(t)'
        /\ free_head' = [free_head EXCEPT ![cls[t]] = [index |-> slot[t], tag |-> head[t].tag + 1]]
        /\ free_list' = [free_list EXCEPT ![cls[t]] = <<slot[t]>> \o @]
    BY <1>1, <1>4 DEF PushWins, FreeCas, Lists, TypeOK, InHand, HoldSteps, SendSteps, FreeSteps
  <2>2. /\ slot[t] \in SlotsOf(cls[t])
        /\ next_free[slot[t]] = free_head[cls[t]].index
        /\ owner_peer[slot[t]] = NO_OWNER
    BY <2>1 DEF Heads, HeadOf, Owners, OwnerOf, UnsignedSteps, InHand, Placed, PlaceOf
  <2>3. /\ free_head'[cls[t]].index = slot[t] /\ free_list'[cls[t]] = <<slot[t]>> \o free_list[cls[t]]
        /\ \A e \in Classes \ {cls[t]} : free_head'[e] = free_head[e] /\ free_list'[e] = free_list[e]
    BY <2>1 DEF TypeOK
  <2>4. \A u \in Threads : InHand(u)' => InHand(u) /\ slot[u] # slot[t]
    BY <1>2, <2>1 DEF Exclusion
  <2>5. /\ Chained(free_list[cls[t]], cls[t], next_free[slot[t]], next_free, owner_peer)
        /\ \A i \in DOMAIN free_list[cls[t]] : free_list[cls[t]][i] # slot[t]
    BY <2>1, <2>2 DEF ListOf
  <2>6. /\ Chained(<<slot[t]>> \o free_list[cls[t]], cls[t], slot[t], next_free, owner_peer)
        /\ \A i \in DOMAIN (<<slot[t]>> \o free_list[cls[t]]) :
              \/ (<<slot[t]>> \o free_list[cls[t]])[i] = slot[t]
              \/ /\ i - 1 \in DOMAIN free_list[cls[t]]
                 /\ (<<slot[t]>> \o free_list[cls[t]])[i] = free_list[cls[t]][i - 1]
    BY <2>1, <2>2, <2>5, ChainPushed
  <2>7. ASSUME NEW i \in DOMAIN (<<slot[t]>> \o free_list[cls[t]]), NEW u \in Threads, InHand(u)'
        PROVE  slot'[u] # (<<slot[t]>> \o free_list[cls[t]])[i]
    BY <2>1, <2>4, <2>6, <2>7 DEF ListOf
  <2>8. ListOf(cls[t])'
    BY <1>1, <2>1, <2>3, <2>6, <2>7 DEF ListOf
  <2>9. ASSUME NEW e \in Classes, e # cls[t] PROVE ListOf(e)'
    <3>1. ListOf(e) /\ free_head'[e] = free_head[e] /\ free_list'[e] = free_list[e]
      BY <2>3, <2>9 DEF Lists
    <3> QED
      BY <1>1, <2>1, <2>4, <3>1 DEF ListOf
  <2> QED
    BY <2>1, <2>8, <2>9 DEF Lists
<1>5. CASE SendEnqueue(t)
  <2>1. ~InHand(t)' /\ UNCHANGED <<free_head, free_list>>
    BY <1>5 DEF SendEnqueue, InHand, HoldSteps, SendSteps, FreeSteps, TypeOK
  <2> QED
    BY <1>1, <1>2, <2>1, ListsHold
<1>6. CASE ScanForceInFlight(t)
  <2>1. pc[t] = "scan_force" /\ slot' = slot /\ UNCHANGED <<free_head, free_list>>
    BY <1>6 DEF ScanForceInFlight
  <2>2. owner_peer[slot[t]] # NO_OWNER
    BY <2>1, ScannerAlone
  <2> QED
    BY <1>1, <1>2, <2>1, <2>2, ListsHold
<1>7. CASE \E d \in wire : Receive(t, d)
  <2>1. PICK d \in wire : Receive(t, d)
    BY <1>7
  <2>2. slot'[t] = d.slot /\ d \in OnWire /\ d.link \in Cells /\ UNCHANGED <<free_head, free_list>>
    BY <2>1 DEF Receive, Dropped, OnWire, TypeOK, Descriptors
  <2>3. owner_peer[slot'[t]] # NO_OWNER
    BY <2>2, Constants DEF Owners
  <2> QED
    BY <1>1, <1>2, <2>2, <2>3, ListsHold
<1> QED
  BY <1>3, <1>4, <1>5, <1>6, <1>7 DEF TransferStep

-----------------------------------------------------------------------------
(* Types *)

\* TypeOK in two parts: what the threads share, and what each has of its own.
SharedTypes ==
    /\ free_head \in [Classes -> [index : Slots \cup {FREE_LIST_END}, tag : Nat]]
    /\ state \in [Slots -> States]
    /\ generation \in [Slots -> Nat]
    /\ next_free \in [Slots -> Slots \cup {FREE_LIST_END}]
    /\ owner_peer \in [Slots -> Cells \cup {NO_OWNER}]
    /\ data \in [Slots -> Nat]
    /\ wire \subseteq Descriptors
    /\ dead \subseteq Cells
    /\ removed \subseteq dead
    /\ allocs \in Nat
    /\ free_list \in [Classes -> Seq(Slots)]
LocalTypes ==
    /\ pc \in [Threads -> Steps]
    /\ cls \in [Threads -> Classes]
    /\ slot \in [Threads -> Slots]
    /\ gen \in [Threads -> Nat]
    /\ head \in [Threads -> [index : Slots \cup {FREE_LIST_END}, tag : Nat]]
    /\ next \in [Threads -> Slots \cup {FREE_LIST_END}]
    /\ payload \in [Threads -> Nat]
    /\ link \in [Threads -> Cells \cup {NO_OWNER}]
    /\ scan \in [Threads -> Int]

LEMMA TypeParts ==
  /\ TypeOK <=> SharedTypes /\ LocalTypes
  /\ TypeOK' <=> SharedTypes' /\ LocalTypes'
<1>1. TypeOK <=> SharedTypes /\ LocalTypes
  BY Zenon DEF TypeOK, SharedTypes, LocalTypes
<1>2. TypeOK' <=> SharedTypes' /\ LocalTypes'
  BY Zenon DEF TypeOK, SharedTypes, LocalTypes
<1> QED
  BY <1>1, <1>2

LEMMA TypesPrivate ==
  ASSUME TypeOK, NEW t \in Threads, PrivateStep(t)
  PROVE  TypeOK'
<1>0. SharedTypes /\ LocalTypes
  BY TypeParts
<1> HIDE DEF TypeOK
<1>1. SharedTypes'
  <2>1. UNCHANGED <<free_head, memory, wire, removed, dead, free_list>>
    BY PrivateSteps DEF KeepsPlaces
  <2>2. allocs' \in Nat
    BY <1>0 DEF PrivateStep, SharedTypes, AllocBegin, AllocLoadHead, AllocLoadNext, PopLoses, AllocCas,
       AllocLoadGen, MarkCheckGeneration, MarkCheckState, ReceiveCopy, FreeCheckGeneration,
       FreeCheckState, FreeLoadHead, PushLoses, FreeCas, ScanOwner, ScanState, ScanLoadGeneration
  <2> QED
    BY <1>0, <2>1, <2>2 DEF SharedTypes
<1>2. LocalTypes'
  <2>0. /\ free_head \in [Classes -> [index : Slots \cup {FREE_LIST_END}, tag : Nat]]
        /\ next_free \in [Slots -> Slots \cup {FREE_LIST_END}]
        /\ generation \in [Slots -> Nat]
        /\ allocs \in Nat
    BY <1>0 DEF SharedTypes
  <2> USE <1>0, <2>0 DEF LocalTypes, At, Goto, Return, Steps, AllocSteps, SendSteps, FreeSteps, ScanSteps
  <2>1. CASE \E p \in Cells, c \in Classes : AllocBegin(t, p, c)
    <3>1. PICK p \in Cells, c \in Classes : AllocBegin(t, p, c)
      BY <2>1
    <3> QED
      BY <3>1 DEF AllocBegin
  <2>2. CASE AllocLoadHead(t)
    <3>1. /\ head' = [head EXCEPT ![t] = free_head[cls[t]]]
          /\ UNCHANGED <<gen, next, payload, link, scan>>
          /\ pc' \in [Threads -> Steps]
      BY <2>2 DEF AllocLoadHead
    <3>2. cls' \in [Threads -> Classes]
      BY <2>2 DEF AllocLoadHead
    <3>3. slot' \in [Threads -> Slots]
      BY <2>2 DEF AllocLoadHead
    <3> QED
      BY <3>1, <3>2, <3>3
  <2>3. CASE AllocLoadNext(t)
    BY <2>3 DEF AllocLoadNext
  <2>4. CASE PopLoses(t) \/ PushLoses(t)
    BY <2>4 DEF PopLoses, AllocCas, PushLoses, FreeCas
  <2>5. CASE AllocLoadGen(t) \/ ScanLoadGeneration(t)
    BY <2>5 DEF AllocLoadGen, ScanLoadGeneration
  <2>6. CASE MarkCheckGeneration(t) \/ MarkCheckState(t) \/ ReceiveCopy(t)
    BY <2>6 DEF MarkCheckGeneration, MarkCheckState, ReceiveCopy
  <2>7. CASE FreeCheckGeneration(t) \/ FreeCheckState(t) \/ ScanState(t)
    BY <2>7 DEF FreeCheckGeneration, FreeCheckState, ScanState
  <2>8. CASE FreeLoadHead(t)
    BY <2>8 DEF FreeLoadHead
  <2>9. CASE ScanOwner(t)
    <3>1. UNCHANGED <<gen, head, next, payload, link>> /\ pc' \in [Threads -> Steps]
      BY <2>9 DEF ScanOwner
    <3>2. cls' \in [Threads -> Classes] /\ slot' \in [Threads -> Slots]
      <4>1. scan[t] \in Slots => ClassOf(scan[t]) \in Classes
        BY Partition
      <4>2. \/ cls' = cls /\ slot' = slot
            \/ /\ scan[t] \in Slots
               /\ slot' = [slot EXCEPT ![t] = scan[t]]
               /\ cls' = [cls EXCEPT ![t] = ClassOf(scan[t])]
        BY <2>9, Zenon DEF ScanOwner
      <4>3. CASE /\ scan[t] \in Slots
                 /\ slot' = [slot EXCEPT ![t] = scan[t]]
                 /\ cls' = [cls EXCEPT ![t] = ClassOf(scan[t])]
        BY <4>1, <4>3
      <4> QED
        BY <4>2, <4>3
    <3>3. scan' \in [Threads -> Int]
      BY <2>9 DEF ScanOwner
    <3> QED
      BY <3>1, <3>2, <3>3
  <2> QED
    BY <2>1, <2>2, <2>3, <2>4, <2>5, <2>6, <2>7, <2>8, <2>9 DEF PrivateStep
<1> QED
  BY <1>1, <1>2, TypeParts

LEMMA TypesWrite ==
  ASSUME TypeOK, Links, NEW t \in Threads, WriteStep(t)
  PROVE  TypeOK'
<1>0. /\ SharedTypes /\ LocalTypes
      /\ pc[t] # "idle" => link[t] \in Cells
  BY TypeParts DEF Links, LinkOf
<1> HIDE DEF TypeOK
<1>1. UNCHANGED <<free_head, locals, scan, removed, dead, wire, free_list>>
  BY WriteSteps DEF KeepsPlaces
<1>2. LocalTypes'
  <2>1. pc' \in [Threads -> Steps]
    BY <1>0 DEF LocalTypes, At, Goto, WriteStep, AllocSetState, AllocSetOwner, SendCopy, MarkStore,
       FreeClearOwner, FreeBumpGeneration, FreeSetState, FreeLink, Steps, SendSteps, FreeSteps
  <2> QED
    BY <1>0, <1>1, <2>1 DEF LocalTypes
<1>3. SharedTypes'
  <2> USE <1>0, <1>1 DEF SharedTypes, LocalTypes, States, At
  <2>1. CASE AllocSetState(t) \/ MarkStore(t) \/ FreeSetState(t)
    BY <2>1 DEF AllocSetState, MarkStore, FreeSetState
  <2>2. CASE AllocSetOwner(t) \/ FreeClearOwner(t)
    BY <2>2 DEF AllocSetOwner, FreeClearOwner
  <2>3. CASE SendCopy(t)
    BY <2>3 DEF SendCopy
  <2>4. CASE FreeBumpGeneration(t)
    BY <2>4, SMTT(60) DEF FreeBumpGeneration
  <2>5. CASE FreeLink(t)
    BY <2>5 DEF FreeLink
  <2> QED
    BY <2>1, <2>2, <2>3, <2>4, <2>5 DEF WriteStep
<1> QED
  BY <1>2, <1>3, TypeParts

LEMMA TypesTransfer ==
  ASSUME TypeOK, Links, Lists, Heads, NEW t \in Threads, TransferStep(t)
  PROVE  TypeOK'
<1>0. SharedTypes /\ LocalTypes
  BY TypeParts
<1>1. CASE PopWins(t)
  <2>1. Tail(free_list[cls[t]]) \in Seq(Slots)
    BY <1>1, PopsTop, Popped
  <2>2. /\ pc' = [pc EXCEPT ![t] = "set_allocated"]
        /\ free_head' = [free_head EXCEPT ![cls[t]] = [index |-> next[t], tag |-> head[t].tag + 1]]
        /\ free_list' = [free_list EXCEPT ![cls[t]] = Tail(@)]
        /\ UNCHANGED <<memory, wire, locals, scan, peers, allocs>>
    BY <1>1, PopsTop
  <2>3. SharedTypes'
    BY <1>0, <2>1, <2>2, SMTT(60) DEF SharedTypes, LocalTypes
  <2>4. LocalTypes'
    BY <1>0, <2>2 DEF LocalTypes, Steps, SendSteps
  <2> QED
    BY <2>3, <2>4, TypeParts
<1>2. CASE PushWins(t)
  <2>1. <<slot[t]>> \o free_list[cls[t]] \in Seq(Slots)
    BY Pushed DEF TypeOK
  <2>2. /\ free_head' = [free_head EXCEPT ![cls[t]] = [index |-> slot[t], tag |-> head[t].tag + 1]]
        /\ free_list' = [free_list EXCEPT ![cls[t]] = <<slot[t]>> \o @]
        /\ pc' = [pc EXCEPT ![t] = Return(t)]
        /\ UNCHANGED <<memory, wire, locals, scan, peers, allocs>>
    BY <1>2 DEF PushWins, FreeCas, Goto
  <2>3. SharedTypes'
    BY <1>0, <2>1, <2>2 DEF SharedTypes, LocalTypes
  <2>4. LocalTypes'
    BY <1>0, <2>2 DEF LocalTypes, Return, Steps, ScanSteps
  <2> QED
    BY <2>3, <2>4, TypeParts
<1>3. CASE SendEnqueue(t)
  <2>1. link[t] \in Cells
    BY <1>3 DEF SendEnqueue, At, Links, LinkOf
  <2>2. [slot |-> slot[t], gen |-> gen[t], payload |-> payload[t],
         link |-> link[t], to_host |-> t \in Cells] \in Descriptors
    BY <1>0, <2>1 DEF Descriptors, LocalTypes
  <2>3. SharedTypes' /\ LocalTypes'
    BY <1>0, <1>3, <2>2 DEF SendEnqueue, Goto, SharedTypes, LocalTypes, Steps
  <2> QED
    BY <2>3, TypeParts
<1>4. CASE ScanForceInFlight(t)
  <2>1. SharedTypes' /\ LocalTypes'
    BY <1>0, <1>4 DEF ScanForceInFlight, Goto, SharedTypes, LocalTypes, Steps, ScanSteps, States
  <2> QED
    BY <2>1, TypeParts
<1>5. CASE \E d \in wire : Receive(t, d)
  <2>1. PICK d \in wire : Receive(t, d)
    BY <1>5
  <2>2. d.slot \in Slots /\ d.gen \in Nat /\ d.payload \in Nat /\ d.link \in Cells
    BY <1>0 DEF SharedTypes, Descriptors
  <2>3. ClassOf(d.slot) \in Classes
    BY <2>2, Partition
  <2>4. SharedTypes' /\ LocalTypes'
    BY <1>0, <2>1, <2>2, <2>3 DEF Receive, Goto, SharedTypes, LocalTypes, Steps
  <2> QED
    BY <2>4, TypeParts
<1> QED
  BY <1>1, <1>2, <1>3, <1>4, <1>5 DEF TransferStep

LEMMA TypesRemove ==
  ASSUME TypeOK, NEW t \in HostThreads, NEW p \in Cells, RemovePeer(t, p)
  PROVE  TypeOK'
<1>1. SharedTypes /\ LocalTypes /\ t \in Threads
  BY TypeParts, Constants
<1>2. SharedTypes' /\ LocalTypes'
  BY <1>1, SMTT(60) DEF RemovePeer, Goto, SharedTypes, LocalTypes, Steps, ScanSteps
<1> QED
  BY <1>2, TypeParts

-----------------------------------------------------------------------------
(* The first invariant *)

\* The slots of one class, in order, as the list Init builds.
LEMMA ListsInit == Init => TypeOK /\ Lists
<1> SUFFICES ASSUME Init PROVE TypeOK /\ Lists
  OBVIOUS
<1> USE AllocatorAssumption
<1>1. ASSUME NEW c \in Classes
      PROVE  /\ FirstSlot[c] \in Nat /\ FirstSlot[c + 1] \in Nat /\ FirstSlot[c] < FirstSlot[c + 1]
             /\ free_list[c] \in Seq(Slots)
             /\ DOMAIN free_list[c] = 1 .. (FirstSlot[c + 1] - FirstSlot[c])
             /\ \A i \in DOMAIN free_list[c] : free_list[c][i] = FirstSlot[c] + i - 1
             /\ free_head[c].index = FirstSlot[c]
  <2>1. FirstSlot[c] \in Nat /\ FirstSlot[c + 1] \in Nat /\ FirstSlot[c] < FirstSlot[c + 1]
    BY DEF Classes
  <2>2. free_list[c] = [i \in 1 .. (FirstSlot[c + 1] - FirstSlot[c]) |-> FirstSlot[c] + i - 1]
    BY DEF Init
  <2>3. \A i \in 1 .. (FirstSlot[c + 1] - FirstSlot[c]) : FirstSlot[c] + i - 1 \in Slots
    BY <2>1, Partition, SMTT(60) DEF SlotsOf
  <2>4. free_list[c] \in Seq(Slots)
    <3> DEFINE n == FirstSlot[c + 1] - FirstSlot[c]
    <3>1. n \in Nat
      BY <2>1
    <3>2. free_list[c] \in [1 .. n -> Slots]
      BY <2>2, <2>3
    <3> HIDE DEF n
    <3> QED
      BY <3>1, <3>2, SeqDef
  <2> QED
    BY <2>1, <2>2, <2>4 DEF Init
<1>2. TypeOK
  <2>1. /\ free_head \in [Classes -> [index : Slots \cup {FREE_LIST_END}, tag : Nat]]
        /\ free_list \in [Classes -> Seq(Slots)]
    <3>1. \A c \in Classes : FirstSlot[c] \in Slots
      BY <1>1, Partition DEF SlotsOf
    <3> QED
      BY <1>1, <3>1 DEF Init
  <2>2. next_free \in [Slots -> Slots \cup {FREE_LIST_END}]
    BY Partition DEF Init
  <2>3. head \in [Threads -> [index : Slots \cup {FREE_LIST_END}, tag : Nat]]
    BY <2>1, Partition DEF Init
  <2> QED
    BY <2>1, <2>2, <2>3, Partition DEF Init, TypeOK, States, Steps
<1>3. ASSUME NEW c \in Classes PROVE ListOf(c)
  <2>1. \A i \in DOMAIN free_list[c] : free_list[c][i] \in SlotsOf(c) /\ free_list[c][i] \in Slots
    <3>1. ASSUME NEW i \in DOMAIN free_list[c] PROVE free_list[c][i] \in SlotsOf(c)
      <4>1. i \in 1 .. (FirstSlot[c + 1] - FirstSlot[c]) /\ free_list[c][i] = FirstSlot[c] + i - 1
        BY <1>1
      <4> QED
        BY <1>1, <4>1, SMTT(60) DEF SlotsOf
    <3> QED
      BY <3>1, Partition
  <2>2. free_head[c].index = ItemOrEnd(free_list[c], 1)
    BY <1>1 DEF ItemOrEnd
  <2>3. ASSUME NEW i \in DOMAIN free_list[c]
        PROVE  next_free[free_list[c][i]] = ItemOrEnd(free_list[c], i + 1)
    <3>1. ClassOf(free_list[c][i]) = c
      BY <2>1, Partition
    <3>2. next_free[free_list[c][i]] = IF free_list[c][i] + 1 \in SlotsOf(c)
                                       THEN free_list[c][i] + 1 ELSE FREE_LIST_END
      BY <2>1, <3>1 DEF Init
    <3>3. i \in 1 .. (FirstSlot[c + 1] - FirstSlot[c]) /\ free_list[c][i] = FirstSlot[c] + i - 1
      BY <1>1
    <3>4. i + 1 \in DOMAIN free_list[c] <=> i + 1 \in 1 .. (FirstSlot[c + 1] - FirstSlot[c])
      BY <1>1
    <3>5. FirstSlot[c] \in Nat /\ FirstSlot[c + 1] \in Nat
      BY <1>1
    <3>6. free_list[c][i] + 1 \in SlotsOf(c) <=> i + 1 \in DOMAIN free_list[c]
      BY <3>3, <3>4, <3>5, SMTT(30) DEF SlotsOf
    <3>7. ASSUME i + 1 \in DOMAIN free_list[c] PROVE free_list[c][i + 1] = free_list[c][i] + 1
      <4>1. free_list[c][i + 1] = FirstSlot[c] + (i + 1) - 1
        BY <1>1, <3>7
      <4> QED
        BY <3>3, <3>5, <4>1
    <3> QED
      BY <3>2, <3>6, <3>7 DEF ItemOrEnd
  <2>4. \A i \in DOMAIN free_list[c] : owner_peer[free_list[c][i]] = NO_OWNER
    BY <2>1 DEF Init
  <2>5. \A u \in Threads : ~InHand(u)
    BY DEF Init, InHand, HoldSteps, SendSteps, FreeSteps
  <2>6. \A i, j \in DOMAIN free_list[c] : free_list[c][i] = free_list[c][j] => i = j
    BY <1>1
  <2> QED
    BY <2>1, <2>2, <2>3, <2>4, <2>5, <2>6 DEF ListOf, Chained
<1> QED
  BY <1>2, <1>3 DEF Lists

LEMMA IInvInit == Init => IInv
<1> SUFFICES ASSUME Init PROVE IInv
  OBVIOUS
<1>1. \A t \in Threads : pc[t] = "idle" /\ scan[t] = -1 /\ ~InHand(t)
  BY DEF Init, InHand, HoldSteps, SendSteps, FreeSteps
<1>2. OnWire = {}
  BY DEF Init, OnWire
<1>3. Links
  BY <1>1 DEF Links, LinkOf, ScanSteps
<1>4. Owners /\ Placed /\ Exclusion /\ Heads
  BY <1>1, <1>2 DEF Owners, OwnerOf, Placed, PlaceOf, Exclusion, Heads, HeadOf, HeadSteps
<1> QED
  BY <1>3, <1>4, ListsInit DEF IInv

LEMMA IInvStep == QuiesceFirst /\ IInv /\ [Next]_vars => IInv'
<1> SUFFICES ASSUME QuiesceFirst, IInv, [Next]_vars PROVE IInv'
  OBVIOUS
<1> USE DEF IInv
<1>1. ASSUME NEW t \in Threads, PrivateStep(t) PROVE IInv'
  BY <1>1, PrivateSteps, TypesPrivate, LinksPrivate, OwnersPrivate, PlacedPrivate, ExclusionKept,
     ListsPrivate, HeadsPrivate
<1>2. ASSUME NEW t \in Threads, WriteStep(t) PROVE IInv'
  BY <1>2, WriteSteps, TypesWrite, LinksWrite, OwnersWrite, PlacedWrite, ExclusionKept,
     ListsWrite, HeadsWrite
<1>3. ASSUME NEW t \in Threads, TransferStep(t) PROVE IInv'
  BY <1>3, TypesTransfer, LinksTransfer, OwnersTransfer, PlacedTransfer, ExclusionTransfer,
     ListsTransfer, HeadsTransfer
<1>4. ASSUME NEW t \in HostThreads, NEW p \in Cells, RemovePeer(t, p) PROVE IInv'
  BY <1>4, RemoveStep, TypesRemove, LinksRemove, OwnersRemove, PlacedRemove, ExclusionKept,
     ListsKept, HeadsRemove
<1>5. ASSUME NEW p \in Cells, Die(p) PROVE IInv'
  <2>1. /\ dead' = dead \cup {p}
        /\ UNCHANGED <<free_head, memory, wire, pc, locals, scan, removed, allocs, free_list>>
    BY <1>5 DEF Die
  <2>2. TypeOK'
    BY <2>1 DEF TypeOK
  <2>3. Links' /\ Owners' /\ Placed' /\ Exclusion' /\ Heads'
    BY <2>1 DEF Links, LinkOf, Owners, OwnerOf, Placed, PlaceOf, Exclusion, Heads, HeadOf, InHand,
       OnWire, ItemOrEnd
  <2>4. Lists'
    BY <2>1, ListsHold DEF InHand
  <2> QED
    BY <2>2, <2>3, <2>4
<1>6. CASE UNCHANGED vars
  <2> USE <1>6 DEF vars
  <2>1. TypeOK'
    BY DEF TypeOK
  <2>2. Links' /\ Owners' /\ Placed' /\ Exclusion' /\ Heads'
    BY DEF Links, LinkOf, Owners, OwnerOf, Placed, PlaceOf, Exclusion, Heads, HeadOf, InHand,
       OnWire, ItemOrEnd
  <2>3. Lists'
    BY ListsHold DEF InHand
  <2> QED
    BY <2>1, <2>2, <2>3
<1> QED
  BY <1>1, <1>2, <1>3, <1>4, <1>5, <1>6, NextSteps

-----------------------------------------------------------------------------
(* One user at a time *)

LEMMA ExclusionSuffices == IInv => ExclusiveUse
<1> SUFFICES ASSUME IInv, NEW s \in Slots
             PROVE  Cardinality(Users(s)) + Cardinality(FreePlaces(s)) <= 1
  BY DEF ExclusiveUse
<1>1. \A t \in Threads : Holds(t, s) <=> InHand(t) /\ slot[t] = s
  BY DEF Holds, InHand
<1>2. \A x, y \in Users(s) : x = y
  BY <1>1 DEF IInv, Exclusion, Users, OnWire
<1>3. ClassOf(s) \in Classes /\ ListOf(ClassOf(s))
  BY Partition DEF IInv, Lists
<1>4. \A i, j \in FreePlaces(s) : i = j
  BY <1>3 DEF FreePlaces, ListOf, Chained
<1>5. Users(s) = {} \/ FreePlaces(s) = {}
  <2> SUFFICES ASSUME NEW x \in Users(s), NEW i \in FreePlaces(s) PROVE FALSE
    OBVIOUS
  <2>1. i \in DOMAIN free_list[ClassOf(s)] /\ free_list[ClassOf(s)][i] = s
    BY DEF FreePlaces
  <2>2. owner_peer[s] = NO_OWNER /\ \A t \in Threads : InHand(t) => slot[t] # s
    BY <1>3, <2>1 DEF ListOf, Chained
  <2>3. x \in OnWire /\ x.slot = s
    BY <1>1, <2>2 DEF Users, OnWire
  <2> QED
    BY <2>2, <2>3, Constants DEF IInv, Owners, OnWire, TypeOK, Descriptors
<1>6. ASSUME NEW S, \A x, y \in S : x = y
      PROVE  Cardinality(S) \in {0, 1} /\ (S = {} => Cardinality(S) = 0)
  <2>1. CASE S = {}
    BY <2>1, FS_EmptySet
  <2>2. CASE S # {}
    <3>1. PICK x : S = {x}
      BY <1>6, <2>2
    <3> QED
      BY <2>2, <3>1, FS_Singleton
  <2> QED
    BY <2>1, <2>2
<1>7. Cardinality(Users(s)) \in {0, 1} /\ Cardinality(FreePlaces(s)) \in {0, 1}
  BY <1>2, <1>4, <1>6
<1>8. Cardinality(Users(s)) = 0 \/ Cardinality(FreePlaces(s)) = 0
  BY <1>5, FS_EmptySet
<1> QED
  BY <1>7, <1>8

\* What every later invariant may assume.
LEMMA IInvAlways == ASSUME QuiesceFirst PROVE Spec => []IInv
<1>1. IInv /\ [Next]_vars => IInv'
  BY IInvStep
<1> QED
  BY <1>1, IInvInit, PTL DEF Spec

\* Whatever the threads, the cells that die and their timing, every variable of
\* hub_alloc.rs keeps its type.
THEOREM Types == ASSUME QuiesceFirst PROVE Spec => []TypeOK
<1>1. IInv => TypeOK
  BY DEF IInv
<1> QED
  BY <1>1, IInvAlways, PTL

\* No two threads or frames share a slot, and no slot in use is on a free list: the
\* tag of free_head and the order of alloc_from_class, free and remove_peer see to it.
THEOREM Exclusive == ASSUME QuiesceFirst PROVE Spec => []ExclusiveUse
BY ExclusionSuffices, IInvAlways, PTL

-----------------------------------------------------------------------------
(* What the slots hold *)

USE DEF StateAt

\* How a compare-and-swap that succeeds changes what is listed.
LEMMA ListedAfter ==
  ASSUME IInv, NEW t \in Threads
  PROVE  /\ PopWins(t) => /\ Listed(slot[t])
                          /\ \A s \in Slots : Listed(s)' => Listed(s)
                          /\ \A s \in Slots : Listed(s) /\ s # slot[t] => Listed(s)'
         /\ PushWins(t) => /\ Listed(slot[t])'
                           /\ \A s \in Slots : Listed(s)' => Listed(s) \/ s = slot[t]
                           /\ \A s \in Slots : Listed(s) => Listed(s)'
         /\ (free_list' = free_list) => \A s \in Slots : Listed(s)' <=> Listed(s)
<1> USE DEF IInv
<1>0. free_list \in [Classes -> Seq(Slots)] /\ cls[t] \in Classes /\ slot[t] \in Slots
  BY DEF TypeOK
<1>1. CASE PopWins(t)
  <2>1. /\ 1 \in DOMAIN free_list[cls[t]] /\ slot[t] = free_list[cls[t]][1]
        /\ free_list' = [free_list EXCEPT ![cls[t]] = Tail(@)]
    BY <1>1, PopsTop
  <2>2. /\ DOMAIN Tail(free_list[cls[t]]) = {i \in Nat \ {0} : i + 1 \in DOMAIN free_list[cls[t]]}
        /\ \A i \in DOMAIN Tail(free_list[cls[t]]) :
              Tail(free_list[cls[t]])[i] = free_list[cls[t]][i + 1]
        /\ DOMAIN free_list[cls[t]] \subseteq Nat \ {0}
    BY <1>0, <2>1, Popped, ListDomain
  <2>3. ASSUME NEW i \in DOMAIN free_list[cls[t]], free_list[cls[t]][i] # slot[t]
        PROVE  /\ i - 1 \in DOMAIN Tail(free_list[cls[t]])
               /\ Tail(free_list[cls[t]])[i - 1] = free_list[cls[t]][i]
    <3>1. i - 1 \in Nat \ {0} /\ (i - 1) + 1 = i
      BY <2>1, <2>2, <2>3
    <3> QED
      BY <2>2, <3>1
  <2>4. /\ free_list'[cls[t]] = Tail(free_list[cls[t]])
        /\ \A c \in Classes \ {cls[t]} : free_list'[c] = free_list[c]
    BY <1>0, <2>1
  <2>5. ASSUME NEW s \in Slots, NEW c \in Classes, NEW i \in DOMAIN free_list'[c], free_list'[c][i] = s
        PROVE  Listed(s)
    BY <1>0, <2>2, <2>4, <2>5, ZenonT(60) DEF Listed
  <2>6. ASSUME NEW s \in Slots, NEW c \in Classes, NEW i \in DOMAIN free_list[c],
               free_list[c][i] = s, s # slot[t]
        PROVE  \E j \in DOMAIN free_list'[c] : free_list'[c][j] = s
    BY <1>0, <2>3, <2>4, <2>6, ZenonT(60)
  <2>7. Listed(slot[t])
    BY <1>0, <2>1 DEF Listed
  <2>8. pc[t] = "cas_pop" /\ ~PushWins(t) /\ (free_list' # free_list)
    <3>1. Len(Tail(free_list[cls[t]])) # Len(free_list[cls[t]])
      BY <1>0, <2>1, HeadTailProperties, LenProperties, EmptySeq
    <3> QED
      BY <1>1, <2>4, <3>1, PopsTop DEF PushWins, FreeCas, At
  <2> QED
    BY <2>5, <2>6, <2>7, <2>8 DEF Listed
<1>2. CASE PushWins(t)
  <2>1. free_list' = [free_list EXCEPT ![cls[t]] = <<slot[t]>> \o @] /\ pc[t] = "cas_push"
    BY <1>2 DEF PushWins, FreeCas, At
  <2>2. /\ free_list'[cls[t]] = <<slot[t]>> \o free_list[cls[t]]
        /\ \A c \in Classes \ {cls[t]} : free_list'[c] = free_list[c]
    BY <1>0, <2>1
  <2>3. /\ DOMAIN free_list'[cls[t]] = {1} \cup {i \in Nat \ {0, 1} : i - 1 \in DOMAIN free_list[cls[t]]}
        /\ free_list'[cls[t]][1] = slot[t]
        /\ \A i \in DOMAIN free_list[cls[t]] : /\ i + 1 \in DOMAIN free_list'[cls[t]]
                                               /\ free_list'[cls[t]][i + 1] = free_list[cls[t]][i]
    <3>1. free_list[cls[t]] \in Seq(Slots)
      BY <1>0
    <3> QED
      BY <1>0, <2>2, <3>1, PushedOnto
  <2>4. ASSUME NEW i \in DOMAIN free_list'[cls[t]], i # 1
        PROVE  i - 1 \in DOMAIN free_list[cls[t]] /\ free_list'[cls[t]][i] = free_list[cls[t]][i - 1]
    <3>1. i - 1 \in DOMAIN free_list[cls[t]] /\ (i - 1) + 1 = i
      BY <2>3, <2>4
    <3> QED
      BY <2>3, <3>1
  <2>5. ASSUME NEW s \in Slots, NEW c \in Classes, NEW i \in DOMAIN free_list'[c], free_list'[c][i] = s
        PROVE  Listed(s) \/ s = slot[t]
    <3>1. CASE c # cls[t]
      BY <2>2, <2>5, <3>1 DEF Listed
    <3>2. CASE c = cls[t] /\ i = 1
      BY <2>3, <2>5, <3>2
    <3>3. CASE c = cls[t] /\ i # 1
      BY <1>0, <2>4, <2>5, <3>3 DEF Listed
    <3> QED
      BY <3>1, <3>2, <3>3
  <2>6. ASSUME NEW s \in Slots, NEW c \in Classes, NEW i \in DOMAIN free_list[c], free_list[c][i] = s
        PROVE  \E j \in DOMAIN free_list'[c] : free_list'[c][j] = s
    BY <1>0, <2>2, <2>3, <2>6
  <2>7. Listed(slot[t])'
    BY <1>0, <1>2, <2>3 DEF Listed, PushWins, FreeCas
  <2>8. ~PopWins(t) /\ (free_list' = free_list => \A s \in Slots : Listed(s)' <=> Listed(s))
    BY <2>1 DEF PopWins, AllocCas, At, Listed
  <2> QED
    BY <2>5, <2>6, <2>7, <2>8 DEF Listed
<1> QED
  BY <1>1, <1>2 DEF Listed

\* Nothing that a write to the slot in the hand of t disturbs is anywhere else.
LEMMA WritesAlone ==
  ASSUME IInv, NEW t \in Threads, InHand(t)
  PROVE  /\ \A u \in Threads \ {t} : InHand(u) => slot[u] # slot[t]
         /\ \A d \in OnWire : d.slot # slot[t]
         /\ ~Listed(slot[t])
BY DEF IInv, Exclusion, Lists, ListOf, Listed

LEMMA ContentsPrivate ==
  ASSUME IInv, Contents, NEW t \in Threads, PrivateStep(t)
  PROVE  Contents'
<1>1. /\ \A u \in Threads \ {t} : /\ pc'[u] = pc[u] /\ slot'[u] = slot[u] /\ gen'[u] = gen[u]
                                  /\ payload'[u] = payload[u]
      /\ UNCHANGED <<memory, wire, removed, free_list>>
  BY PrivateSteps DEF KeepsPlaces, IInv
<1>2. ASSUME NEW u \in Threads \ {t} PROVE ContentOf(u)'
  BY <1>1 DEF Contents, ContentOf, InHand
<1>3. ContentOf(t)'
  <2>0. /\ pc \in [Threads -> Steps] /\ gen \in [Threads -> Nat] /\ ContentOf(t)
        /\ payload \in [Threads -> Nat]
    BY DEF IInv, TypeOK, Contents
  <2> USE <1>1, <2>0 DEF ContentOf, InHand, HoldSteps, SendSteps, FreeSteps, UnsignedSteps, SignedSteps,
                         GenSteps, FilledSteps, At, Goto, Return
  <2>1. CASE \/ AllocLoadHead(t) \/ AllocLoadNext(t) \/ PopLoses(t)
             \/ ScanOwner(t) \/ ScanState(t)
             \/ \E p \in Cells, c \in Classes : AllocBegin(t, p, c)
    <3>1. pc'[t] \notin HoldSteps
      BY <2>1 DEF AllocLoadHead, AllocLoadNext, PopLoses, AllocCas, ScanOwner, ScanState, AllocBegin
    <3> QED
      BY <3>1
  <2>2. CASE AllocLoadGen(t) \/ ScanLoadGeneration(t)
    BY <2>2 DEF AllocLoadGen, ScanLoadGeneration
  <2>3. CASE MarkCheckGeneration(t) \/ MarkCheckState(t) \/ ReceiveCopy(t)
    BY <2>3 DEF MarkCheckGeneration, MarkCheckState, ReceiveCopy
  <2>4. CASE FreeCheckGeneration(t) \/ FreeCheckState(t)
    BY <2>4 DEF FreeCheckGeneration, FreeCheckState
  <2>5. CASE FreeLoadHead(t) \/ PushLoses(t)
    BY <2>5 DEF FreeLoadHead, PushLoses, FreeCas
  <2> QED
    BY <2>1, <2>2, <2>3, <2>4, <2>5 DEF PrivateStep
<1>4. \A s \in Slots : Listed(s)' <=> Listed(s)
  BY <1>1, ListedAfter
<1> QED
  BY <1>1, <1>2, <1>3, <1>4 DEF Contents, OnWire

LEMMA ContentsWrite ==
  ASSUME IInv, Contents, NEW t \in Threads, WriteStep(t)
  PROVE  Contents'
<1>1. /\ \A u \in Threads \ {t} : pc'[u] = pc[u]
      /\ UNCHANGED <<locals, wire, removed, free_list>>
      /\ InHand(t) /\ pc'[t] \in HoldSteps
      /\ \A s \in Slots \ {slot[t]} :
            /\ state'[s] = state[s] /\ generation'[s] = generation[s] /\ data'[s] = data[s]
            /\ owner_peer'[s] = owner_peer[s]
  BY WriteSteps DEF KeepsPlaces, InHand, IInv, TypeOK
<1>2. slot \in [Threads -> Slots] /\ wire \subseteq Descriptors /\ slot[t] \in Slots
  BY DEF IInv, TypeOK
<1>3. ASSUME NEW u \in Threads \ {t} PROVE ContentOf(u)'
  <2>1. InHand(u) => slot[u] \in Slots \ {slot[t]}
    BY <1>1, <1>2, WritesAlone
  <2> QED
    BY <1>1, <2>1 DEF Contents, ContentOf, InHand
<1>4. /\ ContentOf(t)'
      /\ owner_peer'[slot[t]] # NO_OWNER => state'[slot[t]] # "Free"
  <2>0. /\ pc \in [Threads -> Steps] /\ state \in [Slots -> States] /\ generation \in [Slots -> Nat]
        /\ data \in [Slots -> Nat] /\ owner_peer \in [Slots -> Cells \cup {NO_OWNER}]
        /\ ContentOf(t) /\ OwnerOf(t)
        /\ owner_peer[slot[t]] # NO_OWNER => state[slot[t]] # "Free"
    BY <1>2 DEF IInv, TypeOK, Contents, Owners
  <2> USE <1>1, <1>2, <2>0 DEF ContentOf, InHand, HoldSteps, SendSteps, FreeSteps, UnsignedSteps,
                               SignedSteps, GenSteps, FilledSteps, At, Goto
  <2>1. CASE AllocSetState(t) \/ MarkStore(t)
    BY <2>1 DEF AllocSetState, MarkStore
  <2>2. CASE AllocSetOwner(t) \/ FreeClearOwner(t)
    BY <2>2 DEF AllocSetOwner, FreeClearOwner
  <2>3. CASE SendCopy(t)
    BY <2>3 DEF SendCopy
  <2>4. CASE FreeBumpGeneration(t)
    BY <2>4 DEF FreeBumpGeneration
  <2>5. CASE FreeSetState(t)
    BY <2>5 DEF FreeSetState, OwnerOf
  <2>6. CASE FreeLink(t)
    BY <2>6 DEF FreeLink
  <2> QED
    BY <2>1, <2>2, <2>3, <2>4, <2>5, <2>6 DEF WriteStep
<1>5. \A s \in Slots : Listed(s)' <=> Listed(s)
  BY <1>1, ListedAfter
<1>6. \A d \in OnWire : d.slot \in Slots \ {slot[t]}
  BY <1>1, <1>2, WritesAlone DEF OnWire, Descriptors
<1>7. \A s \in Slots : Listed(s) => s # slot[t]
  BY <1>1, WritesAlone
<1> QED
  BY <1>1, <1>3, <1>4, <1>5, <1>6, <1>7 DEF Contents, OnWire

LEMMA ContentsTransfer ==
  ASSUME IInv, Contents, NEW t \in Threads, TransferStep(t), QuiesceFirst
  PROVE  Contents'
<1> USE DEF At, Goto, Return
<1>1. /\ pc \in [Threads -> Steps] /\ slot \in [Threads -> Slots] /\ wire \subseteq Descriptors
      /\ state \in [Slots -> States] /\ slot[t] \in Slots
  BY DEF IInv, TypeOK
<1>2. /\ \A u \in Threads \ {t} : /\ pc'[u] = pc[u] /\ slot'[u] = slot[u] /\ gen'[u] = gen[u]
                                  /\ payload'[u] = payload[u]
      /\ UNCHANGED <<owner_peer, generation, data, removed>>
  BY DEF IInv, TypeOK, TransferStep, PopWins, AllocCas, PushWins, FreeCas, SendEnqueue,
         ScanForceInFlight, Receive
<1>3. CASE PopWins(t)
  <2>1. UNCHANGED <<state, wire, locals>> /\ pc'[t] = "set_allocated"
    BY <1>1, <1>3, PopsTop DEF IInv
  <2>2. state[slot[t]] = "Free"
    BY <1>1, <1>3, ListedAfter DEF Contents
  <2>3. \A u \in Threads : ContentOf(u)'
    BY <1>2, <2>1, <2>2 DEF Contents, ContentOf, InHand, GenSteps, SignedSteps, UnsignedSteps, FilledSteps
  <2>4. \A s \in Slots : Listed(s)' => Listed(s)
    BY <1>3, ListedAfter
  <2> QED
    BY <1>2, <2>1, <2>3, <2>4 DEF Contents, OnWire
<1>4. CASE PushWins(t)
  <2>1. UNCHANGED <<state, wire, locals>> /\ pc[t] = "cas_push" /\ pc'[t] \notin HoldSteps /\ t \notin removed
    BY <1>1, <1>4, SMTT(60) DEF PushWins, FreeCas, HoldSteps, SendSteps, FreeSteps, IInv, TypeOK
  <2>2. state[slot[t]] = "Free"
    BY <2>1 DEF Contents, ContentOf, InHand, HoldSteps, FreeSteps
  <2>3. \A u \in Threads : ContentOf(u)'
    BY <1>2, <2>1 DEF Contents, ContentOf, InHand
  <2>4. \A s \in Slots : Listed(s)' => Listed(s) \/ s = slot[t]
    BY <1>4, ListedAfter
  <2> QED
    BY <1>2, <2>1, <2>2, <2>3, <2>4 DEF Contents, OnWire
<1>5. CASE SendEnqueue(t)
  <2>1. /\ UNCHANGED <<state, locals, free_list>> /\ pc[t] = "enqueue" /\ pc'[t] = "idle" /\ t \notin removed
    BY <1>1, <1>5 DEF SendEnqueue, IInv, TypeOK
  <2>2. ContentOf(t) /\ InHand(t)
    BY <2>1 DEF Contents, InHand, HoldSteps, SendSteps
  <2>3. /\ state[slot[t]] = "InFlight" /\ gen[t] = generation[slot[t]] /\ data[slot[t]] = payload[t]
    BY <2>1, <2>2 DEF ContentOf, GenSteps, SignedSteps, UnsignedSteps, FilledSteps, HoldSteps, SendSteps
  <2>4. \A d \in wire' : d \in wire \/ (d.slot = slot[t] /\ d.gen = gen[t] /\ d.payload = payload[t])
    BY <1>5 DEF SendEnqueue
  <2>5. \A u \in Threads : ContentOf(u)'
    BY <1>2, <2>1 DEF Contents, ContentOf, InHand, HoldSteps, SendSteps, FreeSteps
  <2>6. \A s \in Slots : Listed(s)' <=> Listed(s)
    BY <2>1, ListedAfter
  <2> QED
    BY <1>2, <2>1, <2>3, <2>4, <2>5, <2>6 DEF Contents, OnWire
<1>6. CASE ScanForceInFlight(t)
  <2>1. /\ pc[t] = "scan_force" /\ pc'[t] = "scan_gen" /\ UNCHANGED <<wire, locals, free_list>>
        /\ state' = [state EXCEPT ![slot[t]] = "InFlight"]
    BY <1>1, <1>6 DEF ScanForceInFlight
  <2>2. /\ owner_peer[slot[t]] # NO_OWNER
        /\ \A u \in Threads : InHand(u) => slot[u] # slot[t]
        /\ \A d \in OnWire : d.slot # slot[t]
    BY <2>1, ScannerAlone DEF IInv
  <2>3. ~Listed(slot[t])
    BY <2>2 DEF IInv, Lists, ListOf, Chained, Listed
  <2>4. \A u \in Threads \ {t} : ContentOf(u)'
    BY <1>1, <1>2, <2>1, <2>2 DEF Contents, ContentOf, InHand
  <2>5. ContentOf(t)'
    BY <1>1, <2>1 DEF ContentOf, GenSteps, SignedSteps, FilledSteps
  <2>6. \A s \in Slots : Listed(s)' <=> Listed(s)
    BY <2>1, ListedAfter
  <2>7. \A s \in Slots \ {slot[t]} : state'[s] = state[s]
    BY <1>1, <2>1
  <2>8. state'[slot[t]] = "InFlight"
    BY <1>1, <2>1
  <2>9. \A d \in OnWire : d.slot \in Slots \ {slot[t]}
    BY <1>1, <2>2 DEF OnWire, Descriptors
  <2> QED
    BY <1>2, <2>1, <2>3, <2>4, <2>5, <2>6, <2>7, <2>8, <2>9 DEF Contents, OnWire
<1>7. CASE \E d \in wire : Receive(t, d)
  <2>1. PICK d \in wire : Receive(t, d)
    BY <1>7
  <2>2. /\ pc'[t] = "copy_out" /\ slot'[t] = d.slot /\ gen'[t] = d.gen /\ payload'[t] = d.payload
        /\ wire' \subseteq wire /\ d \in OnWire /\ UNCHANGED <<state, free_list>>
    BY <1>1, <2>1 DEF Receive, Dropped, OnWire, IInv, TypeOK
  <2>3. ContentOf(t)'
    BY <1>2, <2>2 DEF Contents, ContentOf
  <2>4. \A u \in Threads \ {t} : ContentOf(u)'
    BY <1>2, <2>2 DEF Contents, ContentOf, InHand
  <2>5. \A s \in Slots : Listed(s)' <=> Listed(s)
    BY <2>2, ListedAfter
  <2> QED
    BY <1>2, <2>2, <2>3, <2>4, <2>5 DEF Contents, OnWire
<1> QED
  BY <1>3, <1>4, <1>5, <1>6, <1>7 DEF TransferStep

LEMMA ContentsRest ==
  ASSUME IInv, Contents,
         \/ \E t \in HostThreads, p \in Cells : RemovePeer(t, p)
         \/ \E p \in Cells : Die(p)
         \/ UNCHANGED vars
  PROVE  Contents'
<1>1. /\ UNCHANGED <<memory, wire, slot, gen, payload, free_list>>
      /\ removed \subseteq removed'
      /\ \A u \in Threads : pc'[u] \in HoldSteps => pc'[u] = pc[u]
  BY RemoveStep DEF KeepsPlaces, IInv, Die, vars, HoldSteps, SendSteps, FreeSteps
<1>2. \A u \in Threads : ContentOf(u)'
  BY <1>1 DEF Contents, ContentOf, InHand
<1>3. \A s \in Slots : Listed(s)' <=> Listed(s)
  BY <1>1 DEF Listed
<1> QED
  BY <1>1, <1>2, <1>3 DEF Contents, OnWire

LEMMA ContentsAlways == ASSUME QuiesceFirst PROVE Spec => [](IInv /\ Contents)
<1>1. Init => Contents
  <2> SUFFICES ASSUME Init PROVE Contents
    OBVIOUS
  <2>1. OnWire = {} /\ \A t \in Threads : ~InHand(t)
    BY DEF Init, OnWire, InHand, HoldSteps, SendSteps, FreeSteps
  <2>2. \A s \in Slots : state[s] = "Free" /\ owner_peer[s] = NO_OWNER
    BY DEF Init
  <2> QED
    BY <2>1, <2>2 DEF Contents, ContentOf
<1>2. IInv /\ Contents /\ [Next]_vars => Contents'
  BY NextSteps, ContentsPrivate, ContentsWrite, ContentsTransfer, ContentsRest
<1> QED
  BY <1>1, <1>2, IInvAlways, PTL DEF Spec

\* recv_frame returns the bytes send_frame copied in: between the two nobody writes to
\* the slot, not free on another thread and not remove_peer for another cell.
THEOREM PayloadArrives == ASSUME QuiesceFirst PROVE Spec => []PayloadIntact
<1>1. IInv /\ Contents => PayloadIntact
  BY DEF IInv, TypeOK, Contents, ContentOf, InHand, FilledSteps, HoldSteps, PayloadIntact, At
<1> QED
  BY <1>1, ContentsAlways, PTL

\* The words in shared memory spell out the free list of every class, and all on it are
\* Free: no interleaving of alloc_from_class and free breaks, shortens or ties a list.
THEOREM ListsIntact == ASSUME QuiesceFirst PROVE Spec => []FreeListIntact
<1>1. IInv /\ Contents => FreeListIntact
  BY Partition DEF IInv, Lists, ListOf, Chained, Contents, Listed, FreeListIntact
<1> QED
  BY <1>1, ContentsAlways, PTL

-----------------------------------------------------------------------------
(* No slot is lost *)

\* A scanner has a cell's link, in removed; any other thread that is at work has none there.
LEMMA LinkFacts ==
  ASSUME IInv, NEW t \in Threads
  PROVE  /\ scan[t] \in Nat \cup {-1}
         /\ scan[t] # -1 => /\ t \in HostThreads /\ t \notin removed
                            /\ link[t] \in removed /\ link[t] # NO_OWNER
                            /\ pc[t] \in ScanSteps \cup FreeSteps
         /\ scan[t] = -1 /\ pc[t] # "idle" /\ t \notin dead => link[t] \notin removed
         /\ t \in Cells /\ pc[t] # "idle" => link[t] = t
BY Constants, SMTT(60) DEF IInv, TypeOK, Links, LinkOf

\* The checks of free and of mark_in_flight never fail, nor does a scan pass over a slot
\* of its peer: what a thread has in its hand it keeps.
LEMMA ChecksSucceed ==
  ASSUME IInv, Contents, NEW t \in Threads, PrivateStep(t)
  PROVE  /\ InHand(t) => InHand(t)' /\ slot'[t] = slot[t]
         /\ pc[t] \in {"free_gen", "free_state", "scan_state"} => pc'[t] # "scan_owner"
<1>1. /\ pc \in [Threads -> Steps] /\ slot \in [Threads -> Slots] /\ slot[t] \in Slots
      /\ ContentOf(t) /\ removed' = removed
      /\ pc[t] \in {"free_gen", "free_state"} => InHand(t)
      /\ pc[t] = "scan_state" => state[slot[t]] # "Free"
  <2>1. pc[t] \in {"free_gen", "free_state"} => InHand(t)
    <3>1. pc[t] \in {"free_gen", "free_state"} => t \notin dead
      BY DEF PrivateStep, AllocBegin, AllocLoadHead, AllocLoadNext, PopLoses, AllocCas, AllocLoadGen,
         MarkCheckGeneration, MarkCheckState, ReceiveCopy, FreeCheckGeneration, FreeCheckState,
         FreeLoadHead, PushLoses, FreeCas, ScanOwner, ScanState, ScanLoadGeneration, At
    <3> QED
      BY <3>1 DEF IInv, TypeOK, InHand, HoldSteps, FreeSteps
  <2>2. pc[t] = "scan_state" => state[slot[t]] # "Free"
    BY ScannerAlone DEF IInv, TypeOK, Contents
  <2> QED
    BY <2>1, <2>2, PrivateSteps DEF IInv, TypeOK, Contents
<1> USE <1>1 DEF ContentOf, InHand, HoldSteps, SendSteps, FreeSteps, UnsignedSteps, SignedSteps,
                 GenSteps, At, Goto, Return
<1>2. CASE \/ AllocLoadHead(t) \/ AllocLoadNext(t) \/ PopLoses(t)
           \/ \E p \in Cells, c \in Classes : AllocBegin(t, p, c)
  BY <1>2 DEF AllocLoadHead, AllocLoadNext, PopLoses, AllocCas, AllocBegin
<1>3. CASE AllocLoadGen(t) \/ ScanLoadGeneration(t) \/ ScanOwner(t) \/ ScanState(t)
  BY <1>3 DEF AllocLoadGen, ScanLoadGeneration, ScanOwner, ScanState
<1>4. CASE MarkCheckGeneration(t) \/ MarkCheckState(t) \/ ReceiveCopy(t)
  BY <1>4 DEF MarkCheckGeneration, MarkCheckState, ReceiveCopy
<1>5. CASE FreeCheckGeneration(t) \/ FreeCheckState(t)
  BY <1>5 DEF FreeCheckGeneration, FreeCheckState
<1>6. CASE FreeLoadHead(t) \/ PushLoses(t)
  BY <1>6 DEF FreeLoadHead, PushLoses, FreeCas
<1> QED
  BY <1>2, <1>3, <1>4, <1>5, <1>6 DEF PrivateStep

\* What a private step does to a scan: it goes on for the same link, or past the last slot.
LEMMA ScanGoesOn ==
  ASSUME IInv, NEW t \in Threads, PrivateStep(t)
  PROVE  \/ scan[t] = -1 /\ scan'[t] = -1
         \/ /\ scan[t] # -1 /\ link'[t] = link[t]
            /\ \/ scan'[t] = scan[t] /\ slot'[t] = slot[t]
               \/ pc[t] = "scan_owner" /\ scan[t] \notin Slots /\ scan'[t] = -1
               \/ /\ pc[t] = "scan_owner" /\ scan[t] \in Slots /\ scan'[t] = scan[t] + 1
                  /\ \/ pc'[t] = "scan_owner" /\ owner_peer[scan[t]] # link[t]
                     \/ pc'[t] = "scan_state" /\ slot'[t] = scan[t]
<1>1. /\ pc \in [Threads -> Steps] /\ slot \in [Threads -> Slots] /\ scan \in [Threads -> Int]
      /\ link \in [Threads -> Cells \cup {NO_OWNER}]
      /\ scan[t] # -1 => pc[t] \in ScanSteps \cup FreeSteps
      /\ pc[t] \in ScanSteps => scan[t] # -1
  BY DEF IInv, TypeOK, Links, LinkOf
<1> USE <1>1 DEF ScanSteps, FreeSteps, At, Goto
<1>2. CASE \/ AllocLoadHead(t) \/ AllocLoadNext(t) \/ PopLoses(t) \/ AllocLoadGen(t)
           \/ MarkCheckGeneration(t) \/ MarkCheckState(t) \/ ReceiveCopy(t)
           \/ \E p \in Cells, c \in Classes : AllocBegin(t, p, c)
  BY <1>2 DEF AllocLoadHead, AllocLoadNext, PopLoses, AllocCas, AllocBegin, AllocLoadGen,
              MarkCheckGeneration, MarkCheckState, ReceiveCopy
<1>3. CASE FreeCheckGeneration(t) \/ FreeCheckState(t) \/ FreeLoadHead(t) \/ PushLoses(t)
  BY <1>3 DEF FreeCheckGeneration, FreeCheckState, FreeLoadHead, PushLoses, FreeCas
<1>4. CASE ScanState(t) \/ ScanLoadGeneration(t)
  BY <1>4 DEF ScanState, ScanLoadGeneration
<1>5. CASE ScanOwner(t)
  BY <1>5 DEF ScanOwner
<1> QED
  BY <1>2, <1>3, <1>4, <1>5 DEF PrivateStep

LEMMA ScansStay ==
  ASSUME IInv, NEW t \in Threads, PrivateStep(t), scan[t] # -1,
         pc[t] \notin {"free_gen", "free_state", "scan_state", "scan_owner"}
  PROVE  pc'[t] # "scan_owner"
<1>1. pc \in [Threads -> Steps] /\ pc[t] \in ScanSteps \cup FreeSteps
  BY DEF IInv, TypeOK, Links, LinkOf
<1> QED
  BY <1>1 DEF PrivateStep, AllocBegin, AllocLoadHead, AllocLoadNext, PopLoses, AllocCas, AllocLoadGen,
     MarkCheckGeneration, MarkCheckState, ReceiveCopy, FreeCheckGeneration, FreeCheckState,
     FreeLoadHead, PushLoses, FreeCas, ScanOwner, ScanState, ScanLoadGeneration, At, Goto,
     ScanSteps, FreeSteps

LEMMA PassedPrivate ==
  ASSUME IInv, Contents, Passed, NEW t \in Threads, PrivateStep(t)
  PROVE  Passed'
<1>1. /\ \A u \in Threads \ {t} : /\ pc'[u] = pc[u] /\ slot'[u] = slot[u] /\ scan'[u] = scan[u]
                                  /\ link'[u] = link[u]
      /\ owner_peer' = owner_peer
  BY PrivateSteps DEF KeepsPlaces, IInv
<1>2. \A u \in Threads \ {t} : PassedOf(u)'
  BY <1>1 DEF Passed, PassedOf
<1>3. ASSUME NEW s \in Slots, scan'[t] > s, owner_peer'[s] = link'[t]
      PROVE  slot'[t] = s /\ pc'[t] # "scan_owner"
  <2>1. s \in Nat /\ scan[t] \in Nat \cup {-1}
    BY AllocatorAssumption, LinkFacts DEF Slots
  <2>2. scan[t] # -1 /\ link'[t] = link[t] /\ owner_peer[s] = link[t]
    BY <1>1, <1>3, <2>1, ScanGoesOn
  <2>3. scan[t] > s => slot[t] = s /\ pc[t] # "scan_owner"
    BY <2>2 DEF Passed, PassedOf
  <2>4. CASE scan'[t] = scan[t] /\ slot'[t] = slot[t]
    <3>1. slot[t] = s /\ pc[t] # "scan_owner"
      BY <1>3, <2>3, <2>4
    <3>2. pc'[t] # "scan_owner"
      BY <2>2, <3>1, ScansStay, ChecksSucceed
    <3> QED
      BY <2>4, <3>1, <3>2
  <2>5. CASE pc[t] = "scan_owner" /\ scan'[t] = scan[t] + 1
    <3>1. scan[t] = s
      BY <1>3, <2>1, <2>3, <2>5
    <3> QED
      BY <2>1, <2>2, <2>5, <3>1, ScanGoesOn
  <2> QED
    BY <1>3, <2>1, <2>2, <2>4, <2>5, ScanGoesOn
<1> QED
  BY <1>2, <1>3 DEF Passed, PassedOf

LEMMA PassedWrite ==
  ASSUME IInv, Passed, NEW t \in Threads, WriteStep(t)
  PROVE  Passed'
<1>1. /\ \A u \in Threads \ {t} : pc'[u] = pc[u]
      /\ UNCHANGED <<slot, scan, link>>
      /\ pc'[t] \in HoldSteps /\ pc[t] \in HoldSteps /\ t \notin dead
      /\ \A s \in Slots \ {slot[t]} : owner_peer'[s] = owner_peer[s]
  BY WriteSteps DEF KeepsPlaces, IInv
<1>2. \/ owner_peer'[slot[t]] \in {NO_OWNER, owner_peer[slot[t]]}
      \/ owner_peer'[slot[t]] = link[t] /\ pc[t] = "set_owner"
  BY DEF WriteStep, AllocSetState, AllocSetOwner, SendCopy, MarkStore, FreeClearOwner,
     FreeBumpGeneration, FreeSetState, FreeLink, At, IInv, TypeOK
<1>3. ASSUME NEW u \in Threads, NEW s \in Slots, scan'[u] > s, owner_peer'[s] = link'[u]
      PROVE  slot'[u] = s /\ pc'[u] # "scan_owner"
  <2>1. s \in Nat
    BY AllocatorAssumption DEF Slots
  <2>2. scan[u] # -1 /\ link[u] \in removed /\ link[u] # NO_OWNER
    BY <1>1, <1>3, <2>1, LinkFacts
  <2>3. owner_peer[s] = link[u]
    <3>1. pc[t] = "set_owner" => link[t] \notin removed
      BY <1>1, LinkFacts DEF ScanSteps, FreeSteps
    <3> QED
      BY <1>1, <1>2, <1>3, <2>2, <3>1
  <2>4. slot[u] = s /\ pc[u] # "scan_owner"
    BY <1>1, <1>3, <2>3 DEF Passed, PassedOf
  <2> QED
    BY <1>1, <2>4 DEF HoldSteps, SendSteps, FreeSteps
<1> QED
  BY <1>3 DEF Passed, PassedOf

\* What the other threads and memory see of a transfer.
LEMMA TransferSteps ==
  ASSUME IInv, NEW t \in Threads, TransferStep(t)
  PROVE  /\ \A u \in Threads \ {t} : pc'[u] = pc[u] /\ slot'[u] = slot[u] /\ link'[u] = link[u]
         /\ UNCHANGED <<owner_peer, scan, removed, dead>>
         /\ t \notin dead /\ t \notin removed
         /\ scan[t] # -1 => link'[t] = link[t]
<1>1. scan[t] # -1 => pc[t] # "idle"
  BY DEF IInv, Links, LinkOf, ScanSteps, FreeSteps
<1> QED
  BY <1>1 DEF IInv, TypeOK, TransferStep, PopWins, AllocCas, PushWins, FreeCas, SendEnqueue,
     ScanForceInFlight, Receive, At, Goto

LEMMA PassedTransfer ==
  ASSUME IInv, Passed, NEW t \in Threads, TransferStep(t)
  PROVE  Passed'
<1>1. ASSUME NEW u \in Threads \ {t} PROVE PassedOf(u)'
  BY TransferSteps DEF Passed, PassedOf
<1>2. ASSUME NEW s \in Slots, scan'[t] > s, owner_peer'[s] = link'[t]
      PROVE  slot'[t] = s /\ pc'[t] # "scan_owner"
  <2>1. s \in Nat /\ pc \in [Threads -> Steps]
    BY AllocatorAssumption DEF Slots, IInv, TypeOK
  <2>2. /\ scan[t] > s /\ scan[t] # -1 /\ link[t] # NO_OWNER /\ owner_peer[s] = link[t]
        /\ pc[t] \in ScanSteps \cup FreeSteps
    BY <1>2, <2>1, LinkFacts, TransferSteps
  <2>3. slot[t] = s /\ pc[t] # "scan_owner"
    BY <2>2 DEF Passed, PassedOf
  <2>4. pc[t] # "cas_push"
    <3> SUFFICES ASSUME pc[t] = "cas_push" PROVE FALSE
      OBVIOUS
    <3>1. InHand(t) /\ OwnerOf(t)
      BY TransferSteps DEF InHand, HoldSteps, FreeSteps, IInv, Owners
    <3> QED
      BY <2>2, <2>3, <3>1 DEF OwnerOf, UnsignedSteps
  <2>5. ScanForceInFlight(t)
    BY <2>2, <2>4 DEF ScanSteps, FreeSteps, TransferStep, PopWins, AllocCas, PushWins, FreeCas,
       SendEnqueue, Receive, At
  <2> QED
    BY <2>1, <2>3, <2>5 DEF ScanForceInFlight, Goto
<1> QED
  BY <1>1, <1>2 DEF Passed, PassedOf

LEMMA PassedRemove ==
  ASSUME IInv, Passed, NEW t \in HostThreads, NEW p \in Cells, RemovePeer(t, p)
  PROVE  Passed'
<1>1. \A s \in Slots : ~(0 > s)
  BY AllocatorAssumption DEF Slots
<1> QED
  BY <1>1, RemoveStep DEF IInv, Passed, PassedOf

-----------------------------------------------------------------------------

LEMMA AccountedPrivate ==
  ASSUME IInv, Contents, Passed, AllAccounted, NEW t \in Threads, PrivateStep(t)
  PROVE  AllAccounted'
<1> SUFFICES ASSUME NEW s \in Slots PROVE Accounted(s)'
  BY DEF AllAccounted
<1>1. /\ \A u \in Threads \ {t} : /\ pc'[u] = pc[u] /\ slot'[u] = slot[u] /\ scan'[u] = scan[u]
                                  /\ link'[u] = link[u]
      /\ UNCHANGED <<owner_peer, wire, removed, dead, free_list>>
  BY PrivateSteps DEF KeepsPlaces, IInv
<1>2. \A u \in Threads : InHand(u) => InHand(u)' /\ slot'[u] = slot[u]
  BY <1>1, ChecksSucceed DEF InHand
<1>3. Listed(s) => Listed(s)'
  BY <1>1 DEF Listed
<1>4. \A p \in Cells : LostBy(p, s) => LostBy(p, s)'
  <2>1. t \notin dead
    BY DEF PrivateStep, AllocBegin, AllocLoadHead, AllocLoadNext, PopLoses, AllocCas, AllocLoadGen,
       MarkCheckGeneration, MarkCheckState, ReceiveCopy, FreeCheckGeneration, FreeCheckState,
       FreeLoadHead, PushLoses, FreeCas, ScanOwner, ScanState, ScanLoadGeneration, At
  <2> QED
    BY <1>1, <2>1, Constants DEF LostBy
<1>5. Awaited(s) => Awaited(s)'
  <2> SUFFICES ASSUME scan[t] # -1, owner_peer[s] = link[t]
               PROVE  scan'[t] # -1 /\ owner_peer'[s] = link'[t]
    BY <1>1 DEF Awaited
  <2>1. scan[t] \in Nat /\ s \in Nat
    BY AllocatorAssumption, LinkFacts DEF Slots
  <2>2. ~(pc[t] = "scan_owner" /\ scan[t] \notin Slots)
    <3> SUFFICES ASSUME pc[t] = "scan_owner", scan[t] \notin Slots PROVE FALSE
      OBVIOUS
    <3>1. scan[t] > s
      BY <2>1, AllocatorAssumption DEF Slots
    <3> QED
      BY <3>1 DEF Passed, PassedOf
  <2> QED
    BY <1>1, <2>1, <2>2, ScanGoesOn
<1> QED
  BY <1>1, <1>2, <1>3, <1>4, <1>5 DEF AllAccounted, Accounted, OnWire

LEMMA AccountedWrite ==
  ASSUME IInv, AllAccounted, NEW t \in Threads, WriteStep(t)
  PROVE  AllAccounted'
<1> SUFFICES ASSUME NEW s \in Slots PROVE Accounted(s)'
  BY DEF AllAccounted
<1>1. /\ \A u \in Threads \ {t} : pc'[u] = pc[u]
      /\ UNCHANGED <<slot, scan, link, wire, removed, dead, free_list>>
      /\ pc'[t] \in HoldSteps /\ pc[t] \in HoldSteps /\ t \notin dead /\ t \notin removed
      /\ \A r \in Slots \ {slot[t]} : owner_peer'[r] = owner_peer[r]
  BY WriteSteps DEF KeepsPlaces, IInv, TypeOK
<1>2. CASE s = slot[t]
  BY <1>1, <1>2 DEF Accounted, InHand
<1>3. CASE s # slot[t]
  <2>1. \A u \in Threads : InHand(u) => InHand(u)' /\ slot'[u] = slot[u]
    BY <1>1 DEF InHand
  <2>2. Listed(s) => Listed(s)'
    BY <1>1 DEF Listed
  <2>3. \A p \in Cells : LostBy(p, s) => LostBy(p, s)'
    BY <1>1, Constants DEF LostBy
  <2>4. Awaited(s) => Awaited(s)'
    BY <1>1, <1>3 DEF Awaited
  <2> QED
    BY <1>1, <2>1, <2>2, <2>3, <2>4 DEF AllAccounted, Accounted, OnWire
<1> QED
  BY <1>2, <1>3

LEMMA AccountedTransfer ==
  ASSUME IInv, AllAccounted, NEW t \in Threads, TransferStep(t), QuiesceFirst
  PROVE  AllAccounted'
<1> SUFFICES ASSUME NEW s \in Slots PROVE Accounted(s)'
  BY DEF AllAccounted
<1>1. /\ \A u \in Threads \ {t} : pc'[u] = pc[u] /\ slot'[u] = slot[u] /\ link'[u] = link[u]
      /\ UNCHANGED <<owner_peer, scan, removed, dead>>
      /\ t \notin dead /\ t \notin removed
      /\ Awaited(s) => Awaited(s)'
      /\ \A p \in Cells : LostBy(p, s) => LostBy(p, s)'
      /\ pc \in [Threads -> Steps] /\ slot \in [Threads -> Slots]
  BY TransferSteps, Constants, ZenonT(60) DEF Awaited, LostBy, IInv, TypeOK
<1>2. \A u \in Threads \ {t} : InHand(u) /\ slot[u] = s => InHand(u)' /\ slot'[u] = s
  BY <1>1 DEF InHand
<1> USE DEF InHand, HoldSteps, SendSteps, FreeSteps, At, Goto
<1>3. CASE PopWins(t)
  <2>1. /\ pc[t] = "cas_pop" /\ pc'[t] = "set_allocated" /\ UNCHANGED <<slot, wire>>
    BY <1>1, <1>3 DEF PopWins, AllocCas
  <2>2. s # slot[t] /\ Listed(s) => Listed(s)'
    BY <1>3, ListedAfter
  <2> QED
    BY <1>1, <1>2, <2>1, <2>2 DEF AllAccounted, Accounted, OnWire
<1>4. CASE PushWins(t)
  <2>1. UNCHANGED <<slot, wire>>
    BY <1>4 DEF PushWins, FreeCas
  <2>2. Listed(slot[t])' /\ (Listed(s) => Listed(s)')
    BY <1>4, ListedAfter
  <2> QED
    BY <1>1, <1>2, <2>1, <2>2 DEF AllAccounted, Accounted, OnWire
<1>5. CASE SendEnqueue(t)
  <2> DEFINE d == [slot |-> slot[t], gen |-> gen[t], payload |-> payload[t], link |-> link[t],
                   to_host |-> t \in Cells]
  <2>1. wire' = wire \cup {d} /\ UNCHANGED free_list /\ pc[t] = "enqueue"
    BY <1>5 DEF SendEnqueue
  <2>2. d \in OnWire' /\ d.slot = slot[t]
    BY <1>1, <2>1, LinkFacts DEF OnWire, ScanSteps
  <2>3. OnWire \subseteq OnWire'
    BY <1>1, <2>1 DEF OnWire
  <2>4. Listed(s) => Listed(s)'
    BY <2>1 DEF Listed
  <2> HIDE DEF d
  <2> QED
    BY <1>1, <1>2, <2>2, <2>3, <2>4 DEF AllAccounted, Accounted
<1>6. CASE ScanForceInFlight(t)
  <2>1. UNCHANGED <<slot, wire, free_list>> /\ pc[t] = "scan_force" /\ pc'[t] = "scan_gen"
    BY <1>1, <1>6 DEF ScanForceInFlight
  <2>2. Listed(s) => Listed(s)'
    BY <2>1 DEF Listed
  <2> QED
    BY <1>1, <1>2, <2>1, <2>2 DEF AllAccounted, Accounted, OnWire
<1>7. CASE \E d \in wire : Receive(t, d)
  <2>1. PICK d \in wire : Receive(t, d)
    BY <1>7
  <2>2. /\ pc[t] = "idle" /\ pc'[t] = "copy_out" /\ slot'[t] = d.slot
        /\ wire' = wire \ {d} /\ UNCHANGED free_list
    BY <1>1, <2>1 DEF Receive
  <2>3. Listed(s) => Listed(s)'
    BY <2>2 DEF Listed
  <2>4. \A e \in OnWire : e = d \/ e \in OnWire'
    BY <1>1, <2>2 DEF OnWire
  <2> QED
    BY <1>1, <1>2, <2>2, <2>3, <2>4 DEF AllAccounted, Accounted
<1> QED
  BY <1>3, <1>4, <1>5, <1>6, <1>7 DEF TransferStep

LEMMA AccountedRemove ==
  ASSUME IInv, AllAccounted, NEW t \in HostThreads, NEW p \in Cells, RemovePeer(t, p)
  PROVE  AllAccounted'
<1> SUFFICES ASSUME NEW s \in Slots PROVE Accounted(s)'
  BY DEF AllAccounted
<1>1. /\ \A u \in Threads \ {t} : pc'[u] = pc[u] /\ link'[u] = link[u] /\ scan'[u] = scan[u]
      /\ UNCHANGED <<owner_peer, wire, slot, dead, free_list>>
      /\ removed' = removed \cup {p} /\ p \in dead /\ t \in Threads /\ p # t
      /\ pc[t] = "idle" /\ scan[t] = -1 /\ scan'[t] = 0 /\ link'[t] = p
  <2>1. TypeOK /\ t \in Threads /\ p # t
    BY Constants DEF IInv
  <2>2. pc[t] = "idle" => scan[t] = -1
    BY <2>1, LinkFacts DEF ScanSteps, FreeSteps
  <2> QED
    BY <2>1, <2>2, RemoveStep DEF KeepsPlaces
<1>2. owner_peer[s] = p => Awaited(s)'
  BY <1>1 DEF Awaited
<1>3. ASSUME NEW u \in Threads, InHand(u), slot[u] = s
      PROVE  InHand(u)' \/ Awaited(s)' \/ \E q \in Cells : LostBy(q, s)'
  <2>1. u # t /\ pc[u] # "idle"
    BY <1>1, <1>3 DEF InHand, HoldSteps, SendSteps, FreeSteps
  <2>2. CASE u # p
    BY <1>1, <1>3, <2>1, <2>2 DEF InHand
  <2>3. CASE u = p /\ pc[u] \in UnsignedSteps
    BY <1>1, <1>3, <2>1, <2>3 DEF LostBy
  <2>4. CASE u = p /\ pc[u] \notin UnsignedSteps
    <3>1. owner_peer[s] = link[u]
      BY <1>3, <2>4 DEF IInv, Owners, OwnerOf
    <3> QED
      BY <1>2, <2>1, <2>4, <3>1, LinkFacts
  <2> QED
    BY <2>2, <2>3, <2>4
<1>4. ASSUME NEW d \in OnWire, d.slot = s PROVE d \in OnWire' \/ Awaited(s)'
  BY <1>1, <1>2, <1>4 DEF OnWire, IInv, Owners
<1>5. /\ Listed(s) => Listed(s)'
      /\ Awaited(s) => Awaited(s)'
      /\ \A q \in Cells : LostBy(q, s) => LostBy(q, s)'
  BY <1>1, Constants DEF Listed, Awaited, LostBy
<1> QED
  BY <1>1, <1>3, <1>4, <1>5 DEF AllAccounted, Accounted

LEMMA AccountedInit == Init => AllAccounted
<1> SUFFICES ASSUME Init, NEW s \in Slots PROVE Listed(s)
  BY DEF AllAccounted, Accounted
<1> DEFINE c == ClassOf(s)
           i == s - FirstSlot[c] + 1
<1>1. c \in Classes /\ s \in FirstSlot[c] .. FirstSlot[c + 1] - 1
  BY Partition DEF SlotsOf
<1>2. FirstSlot[c] \in Nat /\ FirstSlot[c + 1] \in Nat
  <2> HIDE DEF c
  <2>1. c \in 0 .. NumClasses /\ c + 1 \in 0 .. NumClasses
    BY <1>1, AllocatorAssumption DEF Classes
  <2> QED
    BY <2>1, AllocatorAssumption
<1>3. i \in 1 .. (FirstSlot[c + 1] - FirstSlot[c]) /\ FirstSlot[c] + i - 1 = s
  BY <1>1, <1>2
<1>4. free_list[c] = [k \in 1 .. (FirstSlot[c + 1] - FirstSlot[c]) |-> FirstSlot[c] + k - 1]
  BY <1>1 DEF Init
<1> HIDE DEF c, i
<1> QED
  BY <1>1, <1>3, <1>4 DEF Listed

LEMMA AccountedStep ==
  QuiesceFirst /\ IInv /\ Contents /\ Passed /\ AllAccounted /\ [Next]_vars => (Passed /\ AllAccounted)'
<1> SUFFICES ASSUME QuiesceFirst, IInv, Contents, Passed, AllAccounted, [Next]_vars
             PROVE  Passed' /\ AllAccounted'
  OBVIOUS
<1>1. ASSUME NEW p \in Cells, Die(p) PROVE Passed' /\ AllAccounted'
  <2>1. UNCHANGED <<memory, wire, pc, locals, scan, removed, free_list>> /\ dead \subseteq dead'
    BY <1>1 DEF Die
  <2> QED
    BY <2>1 DEF Passed, PassedOf, AllAccounted, Accounted, InHand, OnWire, Listed, Awaited, LostBy
<1>2. CASE UNCHANGED vars
  BY <1>2 DEF vars, Passed, PassedOf, AllAccounted, Accounted, InHand, OnWire, Listed, Awaited, LostBy
<1> QED
  BY <1>1, <1>2, NextSteps, PassedPrivate, PassedWrite, PassedTransfer, PassedRemove,
     AccountedPrivate, AccountedWrite, AccountedTransfer, AccountedRemove

LEMMA AccountedSuffices == IInv /\ Passed /\ AllAccounted => NoSlotLost
<1> SUFFICES ASSUME IInv, Passed, AllAccounted, NEW s \in Slots
             PROVE  \/ Users(s) # {} \/ FreePlaces(s) # {} \/ AwaitsScan(s)
                    \/ \E p \in Cells : LostBy(p, s)
  BY DEF NoSlotLost
<1>1. (\E t \in Threads : InHand(t) /\ slot[t] = s) => Users(s) # {}
  BY DEF Users, Holds, InHand
<1>2. (\E d \in OnWire : d.slot = s) => Users(s) # {}
  BY DEF Users, OnWire
<1>3. Listed(s) => FreePlaces(s) # {}
  BY Partition DEF IInv, Lists, ListOf, Chained, Listed, FreePlaces
<1>4. ASSUME NEW t \in Threads, scan[t] # -1, owner_peer[s] = link[t]
      PROVE  Users(s) # {} \/ AwaitsScan(s)
  <2>1. /\ scan[t] \in Nat /\ t \in HostThreads /\ t \notin removed
        /\ pc[t] \in ScanSteps \cup FreeSteps /\ s \in Nat
    BY <1>4, LinkFacts, AllocatorAssumption DEF Slots
  <2>2. scan[t] <= s \/ slot[t] = s
    BY <1>4, <2>1 DEF Passed, PassedOf
  <2>3. CASE scan[t] <= s \/ pc[t] \in ScanSteps
    BY <1>4, <2>1, <2>2, <2>3 DEF AwaitsScan
  <2>4. CASE slot[t] = s /\ pc[t] \in FreeSteps
    BY <1>1, <2>1, <2>4 DEF InHand, HoldSteps
  <2> QED
    BY <2>1, <2>2, <2>3, <2>4
<1> QED
  BY <1>1, <1>2, <1>3, <1>4 DEF AllAccounted, Accounted, Awaited

\* No slot is lost when threads race and cells die: free takes back what was received,
\* remove_peer what the dead cell had signed, and what it had not is one slot at most.
THEOREM NothingLost == ASSUME QuiesceFirst PROVE Spec => []NoSlotLost
<1>1. Init => Passed /\ AllAccounted
  <2> SUFFICES ASSUME Init PROVE Passed
    BY AccountedInit
  <2>1. \A s \in Slots : ~(-1 > s)
    BY AllocatorAssumption DEF Slots
  <2> QED
    BY <2>1 DEF Init, Passed, PassedOf
<1> QED
  BY <1>1, AccountedStep, AccountedSuffices, ContentsAlways, PTL DEF Spec

-----------------------------------------------------------------------------
(* The segment of two peers *)

\* Rows of one size lie one after the other.
LEMMA RowsApart ==
    ASSUME NEW s \in Nat, NEW i \in Nat, NEW j \in Nat, i < j
    PROVE  i * s + s <= j * s
<1>1. PICK d \in Nat : j = i + 1 + d
  <2>1. j - (i + 1) \in Nat /\ j = i + 1 + (j - (i + 1))
    OBVIOUS
  <2> QED  BY <2>1
<1>2. j * s = i * s + s + d * s
  BY <1>1
<1>3. d * s \in Nat /\ i * s \in Nat
  OBVIOUS
<1> QED  BY <1>2, <1>3

\* The zones of a segment: where each of its parts begins, and where the last ends.
Zone(cfg, k) ==
    LET c == cfg.ring_capacity * DescSize
    IN  CASE k = 0 -> 0
          [] k = 1 -> SegmentHeaderSize
          [] k = 2 -> SegmentHeaderSize + RingHeaderSize
          [] k = 3 -> SegmentHeaderSize + RingHeaderSize + c
          [] k = 4 -> SegmentHeaderSize + 2 * RingHeaderSize + c
          [] k = 5 -> SegmentHeaderSize + 2 * RingHeaderSize + 2 * c
          [] k = 6 -> SegmentHeaderSize + 2 * RingHeaderSize + 2 * c + DataHeaderSize
          [] k = 7 -> SegmentHeaderSize + 2 * RingHeaderSize + 2 * c + DataHeaderSize
                          + cfg.slot_count * SlotMetaSize
          [] k = 8 -> SegmentSize(cfg)
\* The regions of a zone.
InZone(cfg, k, r) ==
    \/ k \in {0, 1, 3, 5} /\ r = Region(Zone(cfg, k), Zone(cfg, k + 1) - Zone(cfg, k), 64)
    \/ k \in {2, 4} /\ r = Region(Zone(cfg, k), cfg.ring_capacity * DescSize, 64)
    \/ k = 6 /\ \E i \in 0 .. cfg.slot_count - 1 :
                   r = Region(Zone(cfg, 6) + i * SlotMetaSize, SlotMetaSize, 4)
    \/ k = 7 /\ \E i \in 0 .. cfg.slot_count - 1 :
                   r = Region(Zone(cfg, 7) + i * cfg.slot_size, cfg.slot_size, 1)

Segments == [ring_capacity : Nat, slot_size : Nat, slot_count : Nat]

\* The zones follow one another.
LEMMA ZonesInOrder ==
    ASSUME NEW cfg \in Segments
    PROVE  /\ \A k \in 0 .. 8 : Zone(cfg, k) \in Nat
           /\ \A k, l \in 0 .. 7 : k < l => Zone(cfg, k + 1) <= Zone(cfg, l)
           /\ \A k \in 0 .. 7 : Zone(cfg, k) <= Zone(cfg, k + 1)
           /\ \A k \in 0 .. 7 : Zone(cfg, k + 1) <= SegmentSize(cfg)
           /\ Zone(cfg, 8) = Zone(cfg, 7) + cfg.slot_count * cfg.slot_size
<1>1. PICK c \in Nat, n \in Nat, s \in Nat :
         /\ c = cfg.ring_capacity /\ n = cfg.slot_count /\ s = cfg.slot_size
  BY DEF Segments
<1>2. PICK p \in Nat : p = n * s /\ p = s * n
  OBVIOUS
<1>3. /\ Zone(cfg, 0) = 0 /\ Zone(cfg, 1) = 128 /\ Zone(cfg, 2) = 320
      /\ Zone(cfg, 3) = 320 + c * 64 /\ Zone(cfg, 4) = 512 + c * 64
      /\ Zone(cfg, 5) = 512 + 2 * (c * 64) /\ Zone(cfg, 6) = 576 + 2 * (c * 64)
      /\ Zone(cfg, 7) = 576 + 2 * (c * 64) + n * 8
      /\ Zone(cfg, 8) = 576 + 2 * (c * 64) + n * 8 + p
      /\ SegmentSize(cfg) = Zone(cfg, 8)
  BY <1>1, <1>2 DEF Zone, SegmentSize, RingSize, SegmentHeaderSize, RingHeaderSize, DescSize,
                    DataHeaderSize, SlotMetaSize
<1>4. \A k \in 0 .. 8 : Zone(cfg, k) \in Nat
  BY <1>3
<1>5. \A k \in 0 .. 7 : Zone(cfg, k) <= Zone(cfg, k + 1)
  BY <1>3
<1>6. \A k, l \in 0 .. 7 : k < l => Zone(cfg, k + 1) <= Zone(cfg, l)
  BY <1>3
<1>7. \A k \in 0 .. 7 : Zone(cfg, k + 1) <= SegmentSize(cfg)
  BY <1>3
<1> QED  BY <1>1, <1>2, <1>3, <1>4, <1>5, <1>6, <1>7

\* Every region of a segment is one of a zone.
LEMMA RegionsInZones ==
    ASSUME NEW cfg \in Segments, NEW r \in SegmentRegions(cfg)
    PROVE  \E k \in 0 .. 7 : InZone(cfg, k, r)
<1>1. PICK c \in Nat, n \in Nat, s \in Nat :
         /\ c = cfg.ring_capacity /\ n = cfg.slot_count /\ s = cfg.slot_size
  BY DEF Segments
<1>2. /\ Zone(cfg, 0) = 0 /\ Zone(cfg, 1) = 128 /\ Zone(cfg, 2) = 320
      /\ Zone(cfg, 3) = 320 + c * 64 /\ Zone(cfg, 4) = 512 + c * 64
      /\ Zone(cfg, 5) = 512 + 2 * (c * 64) /\ Zone(cfg, 6) = 576 + 2 * (c * 64)
      /\ Zone(cfg, 7) = 576 + 2 * (c * 64) + n * 8
  BY <1>1 DEF Zone, SegmentHeaderSize, RingHeaderSize, DescSize, DataHeaderSize, SlotMetaSize
<1>3. LET o == SegmentOffsets(cfg)
      IN  /\ o.header = 0 /\ o.ring_a_to_b = 128 /\ o.ring_b_to_a = 320 + c * 64
          /\ o.data_header = 512 + 2 * (c * 64) /\ o.slot_meta = 576 + 2 * (c * 64)
          /\ o.slot_data = 576 + 2 * (c * 64) + n * 8
  BY <1>1 DEF SegmentOffsets, SegmentHeaderSize, RingHeaderSize, DescSize, DataHeaderSize, SlotMetaSize
<1>4. \/ r = Region(0, 128, 64)
      \/ r = Region(512 + 2 * (c * 64), 64, 64)
      \/ r = Region(128, 192, 64) \/ r = Region(128 + 192, c * 64, 64)
      \/ r = Region(320 + c * 64, 192, 64) \/ r = Region(320 + c * 64 + 192, c * 64, 64)
      \/ \E i \in 0 .. n - 1 : r = Region(576 + 2 * (c * 64) + i * 8, 8, 4)
      \/ \E i \in 0 .. n - 1 : r = Region(576 + 2 * (c * 64) + n * 8 + i * s, s, 1)
  BY <1>1, <1>3 DEF SegmentRegions, Ring, SegmentHeaderSize, RingHeaderSize, DescSize,
                    DataHeaderSize, SlotMetaSize
<1>5. /\ r = Region(0, 128, 64) => InZone(cfg, 0, r)
      /\ r = Region(512 + 2 * (c * 64), 64, 64) => InZone(cfg, 5, r)
      /\ r = Region(128, 192, 64) => InZone(cfg, 1, r)
      /\ r = Region(128 + 192, c * 64, 64) => InZone(cfg, 2, r)
      /\ r = Region(320 + c * 64, 192, 64) => InZone(cfg, 3, r)
      /\ r = Region(320 + c * 64 + 192, c * 64, 64) => InZone(cfg, 4, r)
  BY <1>1, <1>2 DEF InZone, DescSize
<1>6. (\E i \in 0 .. n - 1 : r = Region(576 + 2 * (c * 64) + i * 8, 8, 4)) => InZone(cfg, 6, r)
  BY <1>1, <1>2 DEF InZone, SlotMetaSize
<1>7. (\E i \in 0 .. n - 1 : r = Region(576 + 2 * (c * 64) + n * 8 + i * s, s, 1))
          => InZone(cfg, 7, r)
  BY <1>1, <1>2 DEF InZone
<1> QED  BY <1>4, <1>5, <1>6, <1>7

\* A region is within its zone and aligned, and the regions of one zone are apart.
LEMMA WithinZone ==
    ASSUME NEW cfg \in Segments, NEW k \in 0 .. 7, NEW r, InZone(cfg, k, r)
    PROVE  /\ r.at \in Nat /\ r.size \in Nat /\ r.at % r.align = 0
           /\ Zone(cfg, k) <= r.at /\ r.at + r.size <= Zone(cfg, k + 1)
           /\ \A q : InZone(cfg, k, q) /\ r # q => r.at + r.size <= q.at \/ q.at + q.size <= r.at
<1>1. PICK c \in Nat, n \in Nat, s \in Nat :
         /\ c = cfg.ring_capacity /\ n = cfg.slot_count /\ s = cfg.slot_size
  BY DEF Segments
<1>2. PICK p \in Nat, z \in Nat : p = n * s /\ z = 576 + 2 * (c * 64) + n * 8
  OBVIOUS
<1>3. /\ Zone(cfg, 0) = 0 /\ Zone(cfg, 1) = 128 /\ Zone(cfg, 2) = 320
      /\ Zone(cfg, 3) = 320 + c * 64 /\ Zone(cfg, 4) = 512 + c * 64
      /\ Zone(cfg, 5) = 512 + 2 * (c * 64) /\ Zone(cfg, 6) = 576 + 2 * (c * 64)
      /\ Zone(cfg, 7) = z
  BY <1>1, <1>2 DEF Zone, SegmentHeaderSize, RingHeaderSize, DescSize, DataHeaderSize, SlotMetaSize
<1>4. Zone(cfg, 8) = z + p
  BY <1>1, <1>2, <1>3, ZonesInOrder
<1>5. CASE k \in 0 .. 5
  <2>1. /\ k \in {0, 1, 3, 5} => r = Region(Zone(cfg, k), Zone(cfg, k + 1) - Zone(cfg, k), 64)
        /\ k \in {2, 4} => r = Region(Zone(cfg, k), c * 64, 64)
        /\ \A q : InZone(cfg, k, q) => q = r
    <3>1. CASE k \in {0, 1, 3, 5}
      <4>1. k \notin {2, 4} /\ k # 6 /\ k # 7
        BY <3>1
      <4>2. \A q : InZone(cfg, k, q) <=>
                     q = Region(Zone(cfg, k), Zone(cfg, k + 1) - Zone(cfg, k), 64)
        BY <3>1, <4>1 DEF InZone
      <4> QED  BY <3>1, <4>1, <4>2
    <3>2. CASE k \in {2, 4}
      <4>1. k \notin {0, 1, 3, 5} /\ k # 6 /\ k # 7
        BY <3>2
      <4>2. \A q : InZone(cfg, k, q) <=> q = Region(Zone(cfg, k), c * 64, 64)
        BY <1>1, <3>2, <4>1 DEF InZone, DescSize
      <4> QED  BY <3>2, <4>1, <4>2
    <3>3. k \in {0, 1, 3, 5} \/ k \in {2, 4}
      BY <1>5
    <3> QED  BY <3>1, <3>2, <3>3
  <2>2. k \in {0, 1, 2, 3, 4, 5}
    BY <1>5
  <2>3. /\ r.at = Zone(cfg, k) /\ r.align = 64
        /\ r.size = IF k \in {2, 4} THEN c * 64 ELSE Zone(cfg, k + 1) - Zone(cfg, k)
    BY <2>1, <2>2 DEF Region
  <2>4. Zone(cfg, k) \in Nat /\ Zone(cfg, k) % 64 = 0
    BY <1>3, <2>2
  <2>5. r.size \in Nat /\ r.at + r.size = Zone(cfg, k + 1)
    BY <1>3, <2>2, <2>3
  <2> QED  BY <2>1, <2>3, <2>4, <2>5
<1>6. CASE k = 6
  <2>1. /\ \E i \in 0 .. n - 1 : r = Region(Zone(cfg, 6) + i * 8, 8, 4)
        /\ \A q : InZone(cfg, 6, q) => \E i \in 0 .. n - 1 : q = Region(Zone(cfg, 6) + i * 8, 8, 4)
    BY <1>1, <1>6 DEF InZone, SlotMetaSize
  <2>2. PICK i \in 0 .. n - 1 : r.at = Zone(cfg, 6) + i * 8 /\ r.size = 8 /\ r.align = 4
                                /\ r = Region(Zone(cfg, 6) + i * 8, 8, 4)
    BY <2>1 DEF Region
  <2>3. /\ r.at \in Nat /\ r.at % 4 = 0 /\ Zone(cfg, 6) <= r.at /\ r.at + 8 <= Zone(cfg, 7)
    BY <1>2, <1>3, <2>2
  <2>4. ASSUME NEW q, InZone(cfg, 6, q), r # q
        PROVE  r.at + 8 <= q.at \/ q.at + q.size <= r.at
    <3>1. PICK j \in 0 .. n - 1 : q = Region(Zone(cfg, 6) + j * 8, 8, 4)
      BY <2>1, <2>4
    <3>2. i # j
      BY <2>2, <2>4, <3>1
    <3>3. q.at = Zone(cfg, 6) + j * 8 /\ q.size = 8
      BY <3>1 DEF Region
    <3> QED  BY <1>3, <2>2, <3>2, <3>3
  <2> QED  BY <1>6, <2>2, <2>3, <2>4
<1>7. CASE k = 7
  <2>1. /\ \E i \in 0 .. n - 1 : r = Region(z + i * s, s, 1)
        /\ \A q : InZone(cfg, 7, q) => \E i \in 0 .. n - 1 : q = Region(z + i * s, s, 1)
    BY <1>1, <1>3, <1>7 DEF InZone
  <2>2. PICK i \in 0 .. n - 1 : r = Region(z + i * s, s, 1)
    BY <2>1
  <2>3. i \in Nat /\ i < n /\ i * s \in Nat
    BY <2>2
  <2>4. r.at = z + i * s /\ r.size = s /\ r.align = 1
    BY <2>2 DEF Region
  <2>5. i * s + s <= p
    BY <1>2, <2>3, RowsApart
  <2>6. PICK w \in Nat : w = i * s
    BY <2>3
  <2>7. r.at \in Nat /\ r.at % 1 = 0 /\ z <= r.at /\ r.at + s <= z + p
    BY <2>4, <2>5, <2>6
  <2>8. ASSUME NEW q, InZone(cfg, 7, q), r # q
        PROVE  r.at + s <= q.at \/ q.at + q.size <= r.at
    <3>1. PICK j \in 0 .. n - 1 : q = Region(z + j * s, s, 1)
      BY <2>1, <2>8
    <3>2. i # j /\ j \in Nat /\ j * s \in Nat
      BY <2>2, <2>8, <3>1
    <3>3. q.at = z + j * s /\ q.size = s
      BY <3>1 DEF Region
    <3>4. i * s + s <= j * s \/ j * s + s <= i * s
      BY <2>3, <3>2, RowsApart
    <3>5. PICK v \in Nat : v = j * s
      BY <3>2
    <3> QED  BY <2>4, <2>6, <3>3, <3>4, <3>5
  <2> QED  BY <1>3, <1>4, <1>7, <2>4, <2>7, <2>8
<1>8. k \in 0 .. 5 \/ k = 6 \/ k = 7
  OBVIOUS
<1> QED  BY <1>5, <1>6, <1>7, <1>8


\* The segment of two peers, for every configuration its header accepts: no
\* struct overlaps another, each is aligned and inside the file, the last ends
\* where the file does, and, where a link fits its slot, no link of the free list
\* lies over another.
THEOREM SegmentLaidOut ==
    ASSUME NEW cfg \in Segments, SegmentAccepts(cfg)
    PROVE  /\ Apart(SegmentRegions(cfg), SegmentSize(cfg))
           /\ \E r \in SegmentRegions(cfg) : r.at + r.size = SegmentSize(cfg)
           /\ LinksFit(cfg) => Apart(SlabLinks(SegmentOffsets(cfg).slot_data, cfg), SegmentSize(cfg))
<1>1. Apart(SegmentRegions(cfg), SegmentSize(cfg))
  <2>1. ASSUME NEW r \in SegmentRegions(cfg)
        PROVE  r.at % r.align = 0 /\ r.at + r.size <= SegmentSize(cfg)
    <3>1. PICK k \in 0 .. 7 : InZone(cfg, k, r)
      BY RegionsInZones
    <3>2. /\ r.at \in Nat /\ r.size \in Nat /\ r.at % r.align = 0
          /\ r.at + r.size <= Zone(cfg, k + 1)
      BY <3>1, WithinZone
    <3>3. Zone(cfg, k + 1) <= SegmentSize(cfg) /\ Zone(cfg, k + 1) \in Nat /\ SegmentSize(cfg) \in Nat
      <4>1. k + 1 \in 0 .. 8 /\ 8 \in 0 .. 8
        OBVIOUS
      <4>2. Zone(cfg, 8) = SegmentSize(cfg)
        BY DEF Zone
      <4> QED  BY <4>1, <4>2, ZonesInOrder
    <3> QED  BY <3>2, <3>3
  <2>2. ASSUME NEW r \in SegmentRegions(cfg), NEW q \in SegmentRegions(cfg), r # q
        PROVE  r.at + r.size <= q.at \/ q.at + q.size <= r.at
    <3>1. PICK k \in 0 .. 7, l \in 0 .. 7 : InZone(cfg, k, r) /\ InZone(cfg, l, q)
      BY RegionsInZones
    <3>2. /\ r.at \in Nat /\ r.size \in Nat /\ q.at \in Nat /\ q.size \in Nat
          /\ Zone(cfg, k) <= r.at /\ r.at + r.size <= Zone(cfg, k + 1)
          /\ Zone(cfg, l) <= q.at /\ q.at + q.size <= Zone(cfg, l + 1)
      BY <3>1, WithinZone
    <3>3. CASE k = l
      BY <2>2, <3>1, <3>3, WithinZone
    <3>4. ASSUME NEW a \in 0 .. 7, NEW b \in 0 .. 7, a < b
          PROVE  /\ Zone(cfg, a + 1) <= Zone(cfg, b)
                 /\ Zone(cfg, a + 1) \in Nat /\ Zone(cfg, b) \in Nat
      <4>1. a + 1 \in 0 .. 8 /\ b \in 0 .. 8
        OBVIOUS
      <4> QED  BY <3>4, <4>1, ZonesInOrder
    <3>5. CASE k < l
      BY <3>2, <3>4, <3>5
    <3>6. CASE l < k
      BY <3>2, <3>4, <3>6
    <3> QED  BY <3>3, <3>5, <3>6
  <2> QED  BY <2>1, <2>2 DEF Apart
<1>2. PICK n \in Nat, s \in Nat, c \in Nat :
         n = cfg.slot_count /\ s = cfg.slot_size /\ c = cfg.ring_capacity /\ n # 0 /\ s # 0
  BY DEF Segments, SegmentAccepts
<1>3. SegmentOffsets(cfg).slot_data = Zone(cfg, 7)
  BY <1>2 DEF SegmentOffsets, Zone, SegmentHeaderSize, RingHeaderSize, DescSize, DataHeaderSize,
              SlotMetaSize
<1>4. Zone(cfg, 7) \in Nat /\ SegmentSize(cfg) = Zone(cfg, 7) + n * s
  <2>1. Zone(cfg, 8) = SegmentSize(cfg)
    BY DEF Zone
  <2> QED  BY <1>2, <2>1, ZonesInOrder
<1>5. \E r \in SegmentRegions(cfg) : r.at + r.size = SegmentSize(cfg)
  <2>1. n - 1 \in 0 .. n - 1 /\ (n - 1) * s + s = n * s
    BY <1>2
  <2>2. PICK r : r = Region(Zone(cfg, 7) + (n - 1) * s, s, 1)
    OBVIOUS
  <2>3. r \in SegmentRegions(cfg)
    BY <1>2, <1>3, <2>1, <2>2 DEF SegmentRegions
  <2>4. r.at = Zone(cfg, 7) + (n - 1) * s /\ r.size = s
    BY <2>2 DEF Region
  <2>5. (n - 1) * s \in Nat /\ n * s \in Nat
    <3>1. n - 1 \in Nat
      BY <1>2
    <3> QED  BY <3>1
  <2> QED  BY <1>4, <2>1, <2>3, <2>4, <2>5
<1>6. ASSUME LinksFit(cfg)
      PROVE  Apart(SlabLinks(SegmentOffsets(cfg).slot_data, cfg), SegmentSize(cfg))
  <2>1. s >= 4 /\ s % 4 = 0
    BY <1>2, <1>6 DEF LinksFit, LinkSize
  <2>2. PICK w \in Nat : s = 4 * w
    <3>1. s = 4 * (s \div 4) /\ s \div 4 \in Nat
      BY <2>1
    <3> QED  BY <3>1
  <2>3. \A r \in SlabLinks(SegmentOffsets(cfg).slot_data, cfg) :
          \E i \in 0 .. n - 1 : /\ r = Region(Zone(cfg, 7) + i * s, 4, 4)
                                /\ r.at = Zone(cfg, 7) + i * s /\ r.size = 4 /\ r.align = 4
    BY <1>2, <1>3 DEF SlabLinks, LinkSize, Region
  <2>4. Zone(cfg, 7) % 4 = 0
    BY <1>2 DEF Zone, SegmentHeaderSize, RingHeaderSize, DescSize, DataHeaderSize, SlotMetaSize
  <2>5. ASSUME NEW r \in SlabLinks(SegmentOffsets(cfg).slot_data, cfg)
        PROVE  r.at % r.align = 0 /\ r.at + r.size <= SegmentSize(cfg)
    <3>1. PICK i \in 0 .. n - 1 : r.at = Zone(cfg, 7) + i * s /\ r.size = 4 /\ r.align = 4
      BY <2>3
    <3>2. i \in Nat /\ i < n
      OBVIOUS
    <3>3. i * s + s <= n * s
      BY <3>2, RowsApart
    <3>4. PICK v \in Nat : v = i * w
      BY <3>2
    <3>5. i * s = 4 * v
      BY <2>2, <3>2, <3>4
    <3>6. r.at % 4 = 0
      <4>1. \A z, u \in Nat : z % 4 = 0 => (z + 4 * u) % 4 = 0
        OBVIOUS
      <4> QED  BY <1>4, <2>4, <3>1, <3>4, <3>5, <4>1
    <3>7. PICK p \in Nat : p = n * s
      OBVIOUS
    <3>8. r.at + 4 <= SegmentSize(cfg)
      BY <1>4, <2>1, <3>1, <3>3, <3>5, <3>7
    <3> QED  BY <3>1, <3>6, <3>8
  <2>6. ASSUME NEW r \in SlabLinks(SegmentOffsets(cfg).slot_data, cfg),
               NEW q \in SlabLinks(SegmentOffsets(cfg).slot_data, cfg), r # q
        PROVE  r.at + r.size <= q.at \/ q.at + q.size <= r.at
    <3>1. PICK i \in 0 .. n - 1 : /\ r = Region(Zone(cfg, 7) + i * s, 4, 4)
                                  /\ r.at = Zone(cfg, 7) + i * s /\ r.size = 4
      BY <2>3
    <3>2. PICK j \in 0 .. n - 1 : /\ q = Region(Zone(cfg, 7) + j * s, 4, 4)
                                  /\ q.at = Zone(cfg, 7) + j * s /\ q.size = 4
      BY <2>3
    <3>3. i # j /\ i \in Nat /\ j \in Nat
      BY <2>6, <3>1, <3>2
    <3>4. i * s + s <= j * s \/ j * s + s <= i * s
      BY <3>3, RowsApart
    <3>5. PICK v \in Nat, u \in Nat : v = i * s /\ u = j * s
      BY <3>3
    <3> QED  BY <1>4, <2>1, <3>1, <3>2, <3>4, <3>5
  <2> QED  BY <2>5, <2>6 DEF Apart
<1> QED  BY <1>1, <1>5, <1>6

====
