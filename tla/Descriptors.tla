---- MODULE Descriptors ----
(***************************************************************************)
(* The descriptor of a frame, 64 bytes, which four implementations write   *)
(* and read: rapace-core's descriptor.rs, the canonical one of             *)
(* rapace-protocol, the TypeScript msg-desc-hot.ts and the Swift           *)
(* MsgDescHot.swift; its flags; the payload inside it; and the test a      *)
(* receiver can make of it, validation.rs.                                 *)
(*                                                                         *)
(* A table is the spans <<at, width>> of the fields, in the order in which *)
(* the code writes or reads them.  A byte is <<field, k>>: the k-th byte   *)
(* of the value of that field, counted from the least significant.         *)
(***************************************************************************)
EXTENDS Integers, Sequences, FiniteSets

CONSTANTS
    MaxWord,      \* u32::MAX
    DescBounds,   \* values of payload_slot, payload_offset and payload_len under check
    DescLimits    \* the DescriptorLimits under check

ASSUME DescriptorAssumption ==
    /\ MaxWord \in Nat /\ MaxWord > 16
    /\ DescBounds \subseteq 0 .. MaxWord
    /\ DescLimits \subseteq [max_payload_len : 0 .. MaxWord, max_channels : 0 .. MaxWord,
                             slot_count : 0 .. MaxWord, slot_size : 0 .. MaxWord - 1]

DescBytes == 64
INLINE_PAYLOAD_SIZE == 16
INLINE_PAYLOAD_SLOT == MaxWord
FieldNames == <<"msg_id", "channel_id", "method_id", "payload_slot", "payload_generation",
                "payload_offset", "payload_len", "flags", "credit_grant", "deadline_ns", "inline_payload">>

\* MsgDescHot::to_bytes and from_bytes.
RustToBytes ==
    <<<<0, 8>>, <<8, 4>>, <<12, 4>>, <<16, 4>>, <<20, 4>>, <<24, 4>>, <<28, 4>>,
      <<32, 4>>, <<36, 4>>, <<40, 8>>, <<48, 16>>>>
RustFromBytes ==
    <<<<0, 8>>, <<8, 4>>, <<12, 4>>, <<16, 4>>, <<20, 4>>, <<24, 4>>, <<28, 4>>,
      <<32, 4>>, <<36, 4>>, <<40, 8>>, <<48, 16>>>>

\* repr(C): each field at the next multiple of its alignment.
LaidOut(width, align) ==
    LET at[f \in DOMAIN width] ==
            IF f = 1 THEN 0
            ELSE ((at[f - 1] + width[f - 1] + align[f] - 1) \div align[f]) * align[f]
    IN  [f \in DOMAIN width |-> <<at[f], width[f]>>]

\* The struct in shared memory, here and in rapace-protocol.
RustStruct == LaidOut(<<8, 4, 4, 4, 4, 4, 4, 4, 4, 8, 16>>, <<8, 4, 4, 4, 4, 4, 4, 4, 4, 8, 1>>)
ProtocolStruct == LaidOut(<<8, 4, 4, 4, 4, 4, 4, 4, 4, 8, 16>>, <<8, 4, 4, 4, 4, 4, 4, 4, 4, 8, 1>>)

\* rapace_protocol::MsgDescHot::to_bytes and from_bytes.
ProtocolToBytes ==
    <<<<0, 8>>, <<8, 4>>, <<12, 4>>, <<16, 4>>, <<20, 4>>, <<24, 4>>, <<28, 4>>,
      <<32, 4>>, <<36, 4>>, <<40, 8>>, <<48, 16>>>>
ProtocolFromBytes ==
    <<<<0, 8>>, <<8, 4>>, <<12, 4>>, <<16, 4>>, <<20, 4>>, <<24, 4>>, <<28, 4>>,
      <<32, 4>>, <<36, 4>>, <<40, 8>>, <<48, 16>>>>

TsSerialize ==
    <<<<0, 8>>, <<8, 4>>, <<12, 4>>, <<16, 4>>, <<20, 4>>, <<24, 4>>, <<28, 4>>,
      <<32, 4>>, <<36, 4>>, <<40, 8>>, <<48, 16>>>>
TsParse ==
    <<<<0, 8>>, <<8, 4>>, <<12, 4>>, <<16, 4>>, <<20, 4>>, <<24, 4>>, <<28, 4>>,
      <<32, 4>>, <<36, 4>>, <<40, 8>>, <<48, 16>>>>
SwiftSerialize ==
    <<<<0, 8>>, <<8, 4>>, <<12, 4>>, <<16, 4>>, <<20, 4>>, <<24, 4>>, <<28, 4>>,
      <<32, 4>>, <<36, 4>>, <<40, 8>>, <<48, 16>>>>
SwiftParse ==
    <<<<0, 8>>, <<8, 4>>, <<12, 4>>, <<16, 4>>, <<20, 4>>, <<24, 4>>, <<28, 4>>,
      <<32, 4>>, <<36, 4>>, <<40, 8>>, <<48, 16>>>>

\* What is in the 64 bytes after the fields were written in order, and what is read off them.
Written(table) ==
    [i \in 0 .. DescBytes - 1 |->
        LET writers == {f \in DOMAIN table : i \in table[f][1] .. table[f][1] + table[f][2] - 1}
            last == CHOOSE f \in writers : \A g \in writers : g <= f
        IN  IF writers = {} THEN <<"zero", 0>> ELSE <<FieldNames[last], i - table[last][1]>>]
Read(table, bytes) ==
    [f \in DOMAIN table |-> [k \in 0 .. table[f][2] - 1 |-> bytes[table[f][1] + k]]]
Whole(table) == [f \in DOMAIN table |-> [k \in 0 .. table[f][2] - 1 |-> <<FieldNames[f], k>>]]

-----------------------------------------------------------------------------
(* The flags of a frame: the bit of each.  The clients have no RESPONSE, and *)
(* rapace-protocol reserves the bits of CANCEL and METADATA_ONLY.            *)

RustFlags == [DATA |-> 0, CONTROL |-> 1, EOS |-> 2, CANCEL |-> 3, ERROR |-> 4, HIGH_PRIORITY |-> 5,
              CREDITS |-> 6, METADATA_ONLY |-> 7, NO_REPLY |-> 8, RESPONSE |-> 9]
ProtocolFlags == [DATA |-> 0, CONTROL |-> 1, EOS |-> 2, ERROR |-> 4, HIGH_PRIORITY |-> 5,
                  CREDITS |-> 6, NO_REPLY |-> 8, RESPONSE |-> 9]
TsFlags == [DATA |-> 0, CONTROL |-> 1, EOS |-> 2, CANCEL |-> 3, ERROR |-> 4, HIGH_PRIORITY |-> 5,
            CREDITS |-> 6, METADATA_ONLY |-> 7, NO_REPLY |-> 8]
SwiftFlags == [DATA |-> 0, CONTROL |-> 1, EOS |-> 2, CANCEL |-> 3, ERROR |-> 4, HIGH_PRIORITY |-> 5,
               CREDITS |-> 6, METADATA_ONLY |-> 7, NO_REPLY |-> 8]

-----------------------------------------------------------------------------
(* The payload inside the descriptor.  A byte of the payload is a number, 0 the filler. *)

Filled(payload) == [i \in 1 .. INLINE_PAYLOAD_SIZE |-> IF i <= Len(payload) THEN payload[i] ELSE 0]

\* setInlinePayload, which throws for more than fits; the Swift one stops the program.
TsSetInline(desc, payload) ==
    IF Len(payload) > INLINE_PAYLOAD_SIZE THEN desc
    ELSE [desc EXCEPT !.inline_payload = Filled(payload), !.payload_len = Len(payload),
                      !.payload_slot = INLINE_PAYLOAD_SLOT]
SwiftSetInline(desc, payload) ==
    IF Len(payload) > INLINE_PAYLOAD_SIZE THEN desc
    ELSE [desc EXCEPT !.inline_payload = Filled(payload), !.payload_len = Len(payload),
                      !.payload_slot = INLINE_PAYLOAD_SLOT]

\* inline_payload(), which panics beyond the 16 bytes; subarray and prefix stop at them.
InlinePanics(desc) == desc.payload_len > INLINE_PAYLOAD_SIZE
RustInlinePayload(desc) == SubSeq(desc.inline_payload, 1, desc.payload_len)
TsInlinePayload(desc) == SubSeq(desc.inline_payload, 1,
                         IF InlinePanics(desc) THEN INLINE_PAYLOAD_SIZE ELSE desc.payload_len)
SwiftInlinePayload(desc) == SubSeq(desc.inline_payload, 1,
                            IF InlinePanics(desc) THEN INLINE_PAYLOAD_SIZE ELSE desc.payload_len)

NewDesc == [channel_id |-> 0, payload_slot |-> INLINE_PAYLOAD_SLOT, payload_generation |-> 0,
            payload_offset |-> 0, payload_len |-> 0, inline_payload |-> Filled(<<>>)]

-----------------------------------------------------------------------------
(* validate_descriptor *)

SaturatingAdd(a, b) == IF a + b > MaxWord THEN MaxWord ELSE a + b

Valid(desc, limits) ==
    /\ desc.payload_len <= limits.max_payload_len
    /\ desc.channel_id <= limits.max_channels
    /\ desc.payload_slot = INLINE_PAYLOAD_SLOT =>
          /\ desc.payload_len <= INLINE_PAYLOAD_SIZE
          /\ desc.payload_generation = 0 /\ desc.payload_offset = 0
    /\ desc.payload_slot # INLINE_PAYLOAD_SLOT /\ limits.slot_count > 0 =>
          /\ desc.payload_slot < limits.slot_count
          /\ SaturatingAdd(desc.payload_offset, desc.payload_len) <= limits.slot_size

Descs == [channel_id : {0, MaxWord}, payload_slot : DescBounds, payload_generation : {0, 1},
          payload_offset : DescBounds, payload_len : DescBounds, inline_payload : {Filled(<<>>)}]

-----------------------------------------------------------------------------
\* Whoever writes a descriptor, whoever reads it reads every field whole, and so does the
\* host that finds it in a ring as a struct.
TablesAgree ==
    LET written == {RustToBytes, ProtocolToBytes, RustStruct, ProtocolStruct, TsSerialize, SwiftSerialize}
        reads == {RustFromBytes, ProtocolFromBytes, RustStruct, ProtocolStruct, TsParse, SwiftParse}
    IN  \A w \in written, r \in reads : Read(r, Written(w)) = Whole(w)

\* A bit is the same flag to all who name it, and no two flags are one bit.
FlagsAgree ==
    LET tables == {RustFlags, ProtocolFlags, TsFlags, SwiftFlags}
    IN  \A a, b \in tables : \A f \in DOMAIN a, g \in DOMAIN b : f = g <=> a[f] = b[g]

\* A payload set in a descriptor that carried a longer one is read back alone.
InlineIsReplaced ==
    \A first, second \in {[i \in 1 .. n |-> n] : n \in {1, 5, 16, 17}} :
        LET fits == Len(second) <= INLINE_PAYLOAD_SIZE
            kept == IF Len(first) <= INLINE_PAYLOAD_SIZE THEN first ELSE <<>>
            ts == TsSetInline(TsSetInline(NewDesc, first), second)
            swift == SwiftSetInline(SwiftSetInline(NewDesc, first), second)
        IN  /\ TsInlinePayload(ts) = IF fits THEN second ELSE kept
            /\ SwiftInlinePayload(ts) = TsInlinePayload(ts) /\ RustInlinePayload(ts) = TsInlinePayload(ts)
            /\ swift = ts

\* What passes validation is inside the descriptor, or inside a slot that exists, to the
\* edges of u32.
ValidIsInside ==
    \A desc \in Descs, limits \in DescLimits : Valid(desc, limits) =>
        IF desc.payload_slot = INLINE_PAYLOAD_SLOT THEN ~InlinePanics(desc)
        ELSE limits.slot_count > 0 => /\ desc.payload_slot < limits.slot_count
                                      /\ desc.payload_offset + desc.payload_len <= limits.slot_size

\* A descriptor means the same to all who share it, and one that is accepted can be read.
DescriptorsSound == TablesAgree /\ FlagsAgree /\ InlineIsReplaced /\ ValidIsInside
====
