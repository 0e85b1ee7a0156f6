---- MODULE SegmentLayout ----
(***************************************************************************)
(* Where things lie in a shared-memory file.                               *)
(*                                                                         *)
(* The hub (hub_layout.rs): HubOffsets::calculate gives the regions and    *)
(* calculate_initial_hub_size the length of the file, HubHost::create      *)
(* lays peers, rings, classes and extents out by an arithmetic of its own, *)
(* and the allocator finds a slot again from its number.  The segment of   *)
(* two peers (layout.rs) has one calculation for the offsets and another   *)
(* for the size; a ring and a slab of shm-primitives, laid out in a region *)
(* by init, are found again by attach.  Nothing else keeps these           *)
(* calculations together.                                                  *)
(*                                                                         *)
(* A region is [at, size, align]: what is written there as one struct.     *)
(***************************************************************************)
EXTENDS Integers, Sequences, FiniteSets

CONSTANTS
    HubSizeClasses,   \* HUB_SIZE_CLASSES: a sequence of [slot_size, slot_count]
    HubConfigs,       \* the [max_peers, ring_capacity] under check
    SegmentConfigs    \* the [ring_capacity, slot_size, slot_count] under check

ASSUME LayoutAssumption ==
    /\ HubSizeClasses \in Seq([slot_size : Nat \ {0}, slot_count : Nat \ {0}])
    /\ HubConfigs \subseteq [max_peers : Nat, ring_capacity : Nat]
    /\ SegmentConfigs \subseteq [ring_capacity : Nat, slot_size : Nat, slot_count : Nat]

\* size_of the repr(C) structs.  That of SizeClassHeader is 192, with its 16 extents.
MAX_PEERS == 32
HubHeaderSize == 256
PeerEntrySize == 64
RingHeaderSize == 192
DescSize == 64
SizeClassHeaderSize == 192
ExtentHeaderSize == 64
HubSlotMetaSize == 16
SegmentHeaderSize == 128
DataHeaderSize == 64
SlotMetaSize == 8
LinkSize == 4          \* a u32

AlignUp(n, a) == ((n + a - 1) \div a) * a
IsPowerOfTwo(n) == \E k \in 0 .. 30 : n = 2 ^ k
NextPowerOfTwo(n) == CHOOSE p \in {2 ^ k : k \in 0 .. 30} : p >= n /\ p < 2 * n
Region(at, size, align) == [at |-> at, size |-> size, align |-> align]
RingSize(capacity) == RingHeaderSize + capacity * DescSize
Ring(at, capacity) == {Region(at, RingHeaderSize, 64),
                       Region(at + RingHeaderSize, capacity * DescSize, 64)}

-----------------------------------------------------------------------------
(* The hub. *)

ClassCount == Len(HubSizeClasses)

\* HubOffsets::calculate refuses what HubHeader::validate refuses.
CreateAccepts(cfg) == /\ cfg.max_peers # 0 /\ cfg.max_peers <= MAX_PEERS
                      /\ IsPowerOfTwo(cfg.ring_capacity) /\ cfg.ring_capacity # 0
OpenAccepts(cfg) == cfg.max_peers \in 1 .. MAX_PEERS /\ IsPowerOfTwo(cfg.ring_capacity)
\* HubPeer::open
PeerOpens(cfg, peer_id) == OpenAccepts(cfg) /\ peer_id < cfg.max_peers

HubOffsets(cfg) ==
    LET peer_table == AlignUp(HubHeaderSize, 64)
        ring_region == AlignUp(peer_table + cfg.max_peers * PeerEntrySize, 64)
        classes == AlignUp(ring_region + cfg.max_peers * 2 * RingSize(cfg.ring_capacity), 64)
    IN  [header |-> 0, peer_table |-> peer_table, ring_region |-> ring_region,
         size_class_headers |-> classes,
         extent_region |-> AlignUp(classes + ClassCount * SizeClassHeaderSize, 64)]

\* calculate_extent_size
ExtentSize(c) == LET class == HubSizeClasses[c]
                 IN  AlignUp(ExtentHeaderSize + class.slot_count * HubSlotMetaSize
                                 + class.slot_count * class.slot_size, 64)

\* The extents, one for each class, follow one another.
ExtentAt(cfg, c) ==
    LET at[d \in 1 .. ClassCount] == IF d = 1 THEN HubOffsets(cfg).extent_region
                                     ELSE at[d - 1] + ExtentSize(d - 1)
    IN  at[c]
InitialHubSize(cfg) == ExtentAt(cfg, ClassCount) + ExtentSize(ClassCount)

\* What HubHost::create writes, and where.
PeerEntryAt(cfg, i) == HubOffsets(cfg).peer_table + i * PeerEntrySize
SendRingAt(cfg, i) == HubOffsets(cfg).ring_region + i * 2 * RingSize(cfg.ring_capacity)
\* Mutant: the header of the first ring is not counted.
RecvRingAt_NoHeader(cfg, i) == SendRingAt(cfg, i) + cfg.ring_capacity * DescSize
RecvRingAt(cfg, i) == SendRingAt(cfg, i) + RingSize(cfg.ring_capacity)
SizeClassAt(cfg, c) == HubOffsets(cfg).size_class_headers + (c - 1) * SizeClassHeaderSize
MetaOffset == ExtentHeaderSize
DataOffset(c) == ExtentHeaderSize + HubSizeClasses[c].slot_count * HubSlotMetaSize

\* encode_global_index and decode_global_index: the extent, and the slot in it.
SlotsPerExtent(c) == NextPowerOfTwo(HubSizeClasses[c].slot_count)
EncodeGlobalIndex(extent, slot_index, c) == extent * SlotsPerExtent(c) + slot_index
DecodeGlobalIndex(index, c) == [extent |-> index \div SlotsPerExtent(c),
                                slot_index |-> index % SlotsPerExtent(c)]

\* payload_slot of a descriptor, encode_slot_ref and decode_slot_ref: 3 bits of class, 29 bits of index.
SlotRefBits == 29
EncodeSlotRef(c, index) == <<c % 8, index % 2 ^ SlotRefBits>>
DecodeSlotRef(ref) == [class |-> ref[1], index |-> ref[2]]

\* slot_meta and slot_data_ptr, from the number of a slot of extent 0.
SlotMetaAt(cfg, c, index) == ExtentAt(cfg, c) + MetaOffset
                                 + DecodeGlobalIndex(index, c).slot_index * HubSlotMetaSize
SlotDataAt(cfg, c, index) == ExtentAt(cfg, c) + DataOffset(c)
                                 + DecodeGlobalIndex(index, c).slot_index * HubSizeClasses[c].slot_size

HubRegions(cfg) ==
    {Region(0, HubHeaderSize, 64)}
    \cup {Region(PeerEntryAt(cfg, i), PeerEntrySize, 64) : i \in 0 .. cfg.max_peers - 1}
    \cup UNION {Ring(SendRingAt(cfg, i), cfg.ring_capacity) \cup Ring(RecvRingAt(cfg, i), cfg.ring_capacity) :
                    i \in 0 .. cfg.max_peers - 1}
    \cup {Region(SizeClassAt(cfg, c), SizeClassHeaderSize, 64) : c \in 1 .. ClassCount}
    \cup {Region(ExtentAt(cfg, c), ExtentHeaderSize, 64) : c \in 1 .. ClassCount}
    \cup UNION {UNION {{Region(SlotMetaAt(cfg, c, s), HubSlotMetaSize, 4),
                        Region(SlotDataAt(cfg, c, s), HubSizeClasses[c].slot_size, 1)} :
                            s \in 0 .. HubSizeClasses[c].slot_count - 1} : c \in 1 .. ClassCount}

HubRegionCount(cfg) ==
    LET slots[c \in 0 .. ClassCount] == IF c = 0 THEN 0
                                        ELSE slots[c - 1] + HubSizeClasses[c].slot_count
    IN  1 + 5 * cfg.max_peers + 2 * ClassCount + 2 * slots[ClassCount]

-----------------------------------------------------------------------------
(* The segment of two peers. *)

SegmentOffsets(cfg) ==
    LET a_to_b == SegmentHeaderSize
        b_to_a == a_to_b + RingHeaderSize + cfg.ring_capacity * DescSize
        data_header == b_to_a + RingHeaderSize + cfg.ring_capacity * DescSize
        slot_meta == data_header + DataHeaderSize
    IN  [header |-> 0, ring_a_to_b |-> a_to_b, ring_b_to_a |-> b_to_a, data_header |-> data_header,
         slot_meta |-> slot_meta, slot_data |-> slot_meta + SlotMetaSize * cfg.slot_count]

\* calculate_segment_size_checked
SegmentSize(cfg) == SegmentHeaderSize + 2 * RingSize(cfg.ring_capacity) + DataHeaderSize
                        + SlotMetaSize * cfg.slot_count + cfg.slot_size * cfg.slot_count

\* SegmentHeader::validate
SegmentAccepts(cfg) == /\ IsPowerOfTwo(cfg.ring_capacity) /\ cfg.ring_capacity # 0
                       /\ cfg.slot_size # 0 /\ cfg.slot_count # 0

SegmentRegions(cfg) ==
    LET o == SegmentOffsets(cfg)
    IN  {Region(o.header, SegmentHeaderSize, 64), Region(o.data_header, DataHeaderSize, 64)}
        \cup Ring(o.ring_a_to_b, cfg.ring_capacity) \cup Ring(o.ring_b_to_a, cfg.ring_capacity)
        \cup {Region(o.slot_meta + i * SlotMetaSize, SlotMetaSize, 4) : i \in 0 .. cfg.slot_count - 1}
        \cup {Region(o.slot_data + i * cfg.slot_size, cfg.slot_size, 1) : i \in 0 .. cfg.slot_count - 1}
SegmentRegionCount(cfg) == 6 + 2 * cfg.slot_count

-----------------------------------------------------------------------------
(* A ring and a slab in a region of memory, from an offset on. *)

RingEntriesAt(at) == at + RingHeaderSize
RingRequired(at, cfg) == RingEntriesAt(at) + cfg.ring_capacity * DescSize
RingInitAccepts(at, cfg, len) ==
    /\ IsPowerOfTwo(cfg.ring_capacity) /\ cfg.ring_capacity > 0
    /\ at % 64 = 0 /\ RingRequired(at, cfg) <= len /\ RingEntriesAt(at) % 64 = 0

\* entry_ptr and SpscRing::attach, which reads the capacity in the header.
RingAttach(at, cfg, len) ==
    IF RingInitAccepts(at, cfg, len)
    THEN {Region(at, RingHeaderSize, 64)}
             \cup {Region(RingEntriesAt(at) + i * DescSize, DescSize, 64) : i \in 0 .. cfg.ring_capacity - 1}
    ELSE {}

\* TreiberSlab::init
SlabOffsets(at, cfg) ==
    LET meta == AlignUp(at + DataHeaderSize, 4)
        slots == AlignUp(meta + cfg.slot_count * SlotMetaSize, 4)
    IN  [slot_meta |-> meta, slot_data |-> slots, end |-> slots + cfg.slot_count * cfg.slot_size]
SlabInitAccepts(at, cfg, len) == /\ cfg.slot_count > 0 /\ cfg.slot_size >= LinkSize
                                 /\ at % 64 = 0 /\ SlabOffsets(at, cfg).end <= len

\* The link of a free slot, a u32 at the start of its data: data_ptr and write_next_free.
SlabLinks(slot_data, cfg) ==
    {Region(slot_data + i * cfg.slot_size, LinkSize, 4) : i \in 0 .. cfg.slot_count - 1}

\* TreiberSlab::attach
SlabAttach(at, cfg, len) ==
    IF SlabInitAccepts(at, cfg, len)
    THEN LET o == SlabOffsets(at, cfg)
         IN  {Region(at, DataHeaderSize, 64)} \cup SlabLinks(o.slot_data, cfg)
                 \cup {Region(o.slot_meta + i * SlotMetaSize, SlotMetaSize, 4) : i \in 0 .. cfg.slot_count - 1}
    ELSE {}

-----------------------------------------------------------------------------
\* Regions are apart from one another, aligned for what is in them, and in the file.
Apart(regions, size) ==
    /\ \A r \in regions : r.at % r.align = 0 /\ r.at + r.size <= size
    /\ \A r, q \in regions : r # q => r.at + r.size <= q.at \/ q.at + q.size <= r.at

\* The hub: no struct overlaps another, every one is aligned and inside the file, and a
\* file that was created can be opened.
HubRegionsApart ==
    \A cfg \in HubConfigs :
        /\ \A peer_id \in 0 .. MAX_PEERS :
              PeerOpens(cfg, peer_id) <=> CreateAccepts(cfg) /\ peer_id < cfg.max_peers
        /\ CreateAccepts(cfg) => /\ Apart(HubRegions(cfg), InitialHubSize(cfg))
                                 /\ Cardinality(HubRegions(cfg)) = HubRegionCount(cfg)

\* The number of a slot and the reference in its link decode to the slot.
IsFoundAgain(c, s, extent) ==
    LET ref == DecodeSlotRef(EncodeSlotRef(c - 1, EncodeGlobalIndex(extent, s, c)))
    IN  ref.class = c - 1 /\ DecodeGlobalIndex(ref.index, c) = [extent |-> extent, slot_index |-> s]
SlotsAreFoundAgain ==
    \A c \in 1 .. ClassCount : \A s \in 0 .. HubSizeClasses[c].slot_count - 1 :
        \A extent \in 0 .. 15 : IsFoundAgain(c, s, extent)

\* A link lies in its slot and aligned.  TreiberSlab::init sees to the first only and
\* SegmentHeader::validate to neither.
LinksFit(cfg) == cfg.slot_size >= LinkSize /\ cfg.slot_size % LinkSize = 0

\* The segment of two peers, and that its two calculations agree on its end.
SegmentRegionsApart ==
    \A cfg \in SegmentConfigs : SegmentAccepts(cfg) =>
        /\ Apart(SegmentRegions(cfg), SegmentSize(cfg))
        /\ Cardinality(SegmentRegions(cfg)) = SegmentRegionCount(cfg)
        /\ \E r \in SegmentRegions(cfg) : r.at + r.size = SegmentSize(cfg)
        /\ LinksFit(cfg) => Apart(SlabLinks(SegmentOffsets(cfg).slot_data, cfg), SegmentSize(cfg))

\* A ring and a slab that share a region, one after the other: attach finds what init laid
\* out, in the length init asked for and in no less.
RegionsAreFoundAgain ==
    \A cfg \in SegmentConfigs, at \in {0, 64} :
        LET ring_end == RingRequired(at, cfg)
            slab_at == AlignUp(ring_end, 64)
            len == SlabOffsets(slab_at, cfg).end
        IN  RingInitAccepts(at, cfg, len) /\ SlabInitAccepts(slab_at, cfg, len) /\ LinksFit(cfg) =>
                /\ Apart(RingAttach(at, cfg, len) \cup SlabAttach(slab_at, cfg, len), len)
                /\ RingAttach(at, cfg, ring_end - 1) = {} /\ SlabAttach(slab_at, cfg, len - 1) = {}
                /\ Cardinality(RingAttach(at, cfg, len)) = 1 + cfg.ring_capacity
                /\ Cardinality(SlabAttach(slab_at, cfg, len)) = 1 + 2 * cfg.slot_count

\* What two processes see of a file is laid out alike and without overlap: two peers'
\* rings, a slot and the metadata of the next, an extent and the end of the file.
LayoutSound == /\ HubRegionsApart /\ SlotsAreFoundAgain
               /\ SegmentRegionsApart /\ RegionsAreFoundAgain
====
