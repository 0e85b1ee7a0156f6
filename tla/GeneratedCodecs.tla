---- MODULE GeneratedCodecs ----
(***************************************************************************)
(* What the generated TypeScript and Swift clients put on the wire for the *)
(* arguments of a method and read back of its reply.  The generators walk  *)
(* the shapes of the registry and write calls of the PostcardEncoder and   *)
(* the PostcardDecoder; an operator here is one function of a generator    *)
(* with the run-time calls it writes, and gives the bytes that come of     *)
(* executing them.  The format they must meet is Postcard, which the Rust  *)
(* side takes from facet-postcard.                                         *)
(*                                                                         *)
(* A shape is [def, name, of]: "scalar" with its name; "option" and "list" *)
(* <<item>>; "array" <<item>>; "map" <<key, value>>; "struct" and "tuple"  *)
(* their fields; "enum" its variants, each a sequence of fields; "unit".   *)
(* A value is an integer, a Boolean, the bytes of a string or a float, <<>> *)
(* or <<v>> for an option, the sequence of items or fields, <<tag, fields>> *)
(* for an enum with tags from 0.                                           *)
(***************************************************************************)
EXTENDS Integers, Sequences
LOCAL INSTANCE SequencesExt

CONSTANTS
    WordBits,     \* 64, the bits of the longest integer
    SafeBits,     \* 53: a JavaScript number is exact below 2^SafeBits
    IntBits,      \* the widths of "u16", "u32" and "u64", the signed ones the same
    Methods,      \* the unary methods under check: [args, returns]
    MaxSample     \* the values tried for each of them

ASSUME CodecAssumption ==
    /\ {WordBits, SafeBits, MaxSample} \subseteq Nat
    /\ IntBits \in [{"u16", "u32", "u64"} -> 8 .. WordBits]
    /\ IntBits["u64"] = WordBits /\ IntBits["u32"] <= SafeBits

StringTypes == {"String", "str", "CowStr"}
UnsignedTypes == {"u16", "u32", "u64"}
SignedTypes == {"i16", "i32", "i64"}

\* The code writes no call here, or one that does not compile: nothing is encoded.
Hole == -1
IsWhole(bytes) == \A i \in DOMAIN bytes : bytes[i] # Hole

Is(shape, names) == shape.def = "scalar" /\ shape.name \in names
IsNamed(shape) == shape.def \in {"struct", "enum"}

-----------------------------------------------------------------------------
(* Postcard, the reference. *)

\* The shortest number in base 128, least digit first, all but the last marked.
PostcardVarint(n) ==
    LET size == CHOOSE k \in 1 .. WordBits : n < 128 ^ k /\ (k > 1 => n >= 128 ^ (k - 1))
    IN  [d \in 1 .. size |-> ((n \div 128 ^ (d - 1)) % 128) + (IF d < size THEN 128 ELSE 0)]

RECURSIVE Postcard(_, _)
Postcard(shape, v) ==
    LET each(of) == FlattenSeq([i \in DOMAIN v |-> Postcard(of, v[i])])
        fields(of, w) == FlattenSeq([f \in DOMAIN of |-> Postcard(of[f], w[f])])
    IN  CASE Is(shape, {"bool"}) -> <<IF v THEN 1 ELSE 0>>
          [] Is(shape, {"u8", "i8"}) -> <<v % 256>>
          [] Is(shape, UnsignedTypes) -> PostcardVarint(v)
          [] Is(shape, SignedTypes) -> PostcardVarint(IF v < 0 THEN -2 * v - 1 ELSE 2 * v)
          [] Is(shape, {"f32", "f64"}) -> v
          [] Is(shape, StringTypes) -> PostcardVarint(Len(v)) \o v
          [] shape.def = "option" -> IF v = <<>> THEN <<0>> ELSE <<1>> \o each(shape.of[1])
          [] shape.def = "list" -> PostcardVarint(Len(v)) \o each(shape.of[1])
          [] shape.def = "array" -> each(shape.of[1])
          [] shape.def \in {"struct", "tuple"} -> fields(shape.of, v)
          [] shape.def = "enum" -> PostcardVarint(v[1]) \o fields(shape.of[v[1] + 1], v[2])
          [] shape.def = "unit" -> <<>>

\* The service macro: no argument, the argument, or the tuple of them.
RequestShape(args) ==
    CASE Len(args) = 0 -> [def |-> "unit", name |-> "()", of |-> <<>>]
      [] Len(args) = 1 -> args[1]
      [] OTHER -> [def |-> "tuple", name |-> "(", of |-> args]

-----------------------------------------------------------------------------
(* collect_types, which the Swift generator has word for word: the types a    *)
(* file defines, each name once, the first shape that bears it.               *)

RECURSIVE CollectTypes(_, _)
CollectTypes(shape, types) ==
    LET all(of, known) == FoldLeft(LAMBDA acc, s : CollectTypes(s, acc), known, of)
        nested == IF shape.def = "enum" THEN all(FlattenSeq(shape.of), types)
                                        ELSE all(shape.of, types)
        known(ts) == \E i \in DOMAIN ts : ts[i].name = shape.name
    IN  IF known(types) THEN types
        ELSE IF IsNamed(shape) /\ ~known(nested) THEN Append(nested, shape)
        ELSE nested

\* generate_from_registry
GeneratedTypes ==
    FoldLeft(LAMBDA acc, m : CollectTypes(m.returns, CollectTypes(RequestShape(m.args), acc)),
             <<>>, Methods)

\* The code that "encode" or "decode" before a type's name calls.
Generated(shape) ==
    LET types == GeneratedTypes
    IN  types[CHOOSE i \in DOMAIN types : types[i].name = shape.name]

-----------------------------------------------------------------------------
(* Varints, written and read the same way by both libraries. *)

Varint[n \in Nat] == IF n < 128 THEN <<n>> ELSE <<128 + (n % 128)>> \o Varint[n \div 128]

\* (v << 1) ^ (v >> 63) and back.
ZigZag(v) == IF v < 0 THEN -2 * v - 1 ELSE 2 * v
UnZigZag_OffByOne(n) == IF n % 2 = 0 THEN n \div 2 ELSE -(n \div 2)
UnZigZag(n) == IF n % 2 = 0 THEN n \div 2 ELSE -(n \div 2) - 1

Failed == [status |-> "failed", value |-> <<>>, rest |-> <<>>]
Undecoded == [status |-> "hole", value |-> <<>>, rest |-> <<>>]
Decoded(v, rest) == [status |-> "ok", value |-> v, rest |-> rest]
Mapped(r, F(_)) == IF r.status = "ok" THEN [r EXCEPT !.value = F(r.value)] ELSE r

\* ByteReader; prefix and dropFirst of a Swift Data stop at its end instead.
ReadBytes(n, bytes) ==
    IF n > Len(bytes) THEN Failed
    ELSE Decoded(SubSeq(bytes, 1, n), SubSeq(bytes, n + 1, Len(bytes)))
ReadByte(bytes) == Mapped(ReadBytes(1, bytes), Head)
TakePrefix(n, bytes) ==
    LET m == IF n > Len(bytes) THEN Len(bytes) ELSE n
    IN  Decoded(SubSeq(bytes, 1, m), SubSeq(bytes, m + 1, Len(bytes)))

\* decodeVarint: an eleventh byte is refused; what the tenth holds beyond the word is
\* kept by a BigInt and shifted out of a UInt64.
RECURSIVE VarintFrom(_, _, _)
VarintFrom(bytes, shift, n) ==
    IF bytes = <<>> \/ shift >= WordBits THEN Failed
    ELSE LET more == n + (Head(bytes) % 128) * 2 ^ shift
         IN  IF Head(bytes) < 128 THEN Decoded(more, Tail(bytes))
             ELSE VarintFrom(Tail(bytes), shift + 7, more)
TsVarintFrom(bytes) == VarintFrom(bytes, 0, 0)
SwiftVarintFrom(bytes) == Mapped(VarintFrom(bytes, 0, 0), LAMBDA n : n % 2 ^ WordBits)

\* decodeVarintNumber and decodeSignedVarintNumber
TsNumber(r) == IF r.status = "ok" /\ (r.value >= 2 ^ SafeBits \/ r.value <= -(2 ^ SafeBits))
               THEN Failed ELSE r

\* Decode one after the other, each with its own decoder.
InTurn(Decode(_, _), of, bytes) ==
    FoldLeft(LAMBDA acc, s : IF acc.status # "ok" THEN acc
                             ELSE Mapped(Decode(s, acc.rest), LAMBDA v : Append(acc.value, v)),
             Decoded(<<>>, bytes), of)
Times(n, shape) == [i \in 1 .. n |-> shape]

-----------------------------------------------------------------------------
(* TypeScript: the PostcardEncoder, then the code generated to call it. *)

TsMethod(name) ==
    CASE name \in StringTypes -> "string"
      [] name \in UnsignedTypes \cup SignedTypes \cup {"bool", "u8", "i8", "f32", "f64"} -> name
      [] OTHER -> "u8"

TsCall(method, v) ==
    CASE method = "string" -> Varint[Len(v)] \o v
      [] method = "bool" -> <<IF v THEN 1 ELSE 0>>
      [] method = "u8" -> <<v % 256>>
      [] method = "i8" -> <<IF v < 0 THEN v + 256 ELSE v>>
      [] method \in UnsignedTypes -> Varint[v]
      [] method \in SignedTypes -> Varint[ZigZag(v)]
      [] method \in {"f32", "f64"} -> v

\* option and array, given what the generated code encodes of each item.
TsOption(items) == IF items = <<>> THEN <<0>> ELSE <<1>> \o items[1]
TsArray(items) == Varint[Len(items)] \o FlattenSeq(items)
TsDiscriminant(tag) == Varint[tag]

RECURSIVE TsField(_, _), TsInline(_, _)

\* generate_struct and generate_enum: the bodies of encodeName.
TsFields(of, v) == FlattenSeq([f \in DOMAIN of |-> TsField(of[f], v[f])])
TsNamed(shape, v) ==
    IF shape.def = "struct" THEN TsFields(shape.of, v)
    ELSE TsDiscriminant(v[1]) \o TsFields(shape.of[v[1] + 1], v[2])

\* generate_encode_expr_inline: an item of an option or a list.
TsInline(shape, v) ==
    CASE shape.def = "scalar" -> TsCall(TsMethod(shape.name), v)
      [] IsNamed(shape) -> TsNamed(Generated(shape), v)
      [] OTHER -> <<Hole>>

\* generate_encode_field
TsField(shape, v) ==
    LET items == [i \in DOMAIN v |-> TsInline(shape.of[1], v[i])]
    IN  CASE shape.def = "option" -> TsOption(items)
          [] shape.def = "list" /\ Is(shape.of[1], {"u8"}) -> Varint[Len(v)] \o v
          [] shape.def = "list" /\ ~Is(shape.of[1], {"u8"}) -> TsArray(items)
          [] OTHER -> TsInline(shape, v)

\* generate_method: several arguments are each written with u64.
TsRequest(args, v) ==
    CASE Len(args) = 0 -> <<>>
      [] Len(args) = 1 -> TsField(RequestShape(args), v[1])
      [] OTHER -> FlattenSeq([i \in DOMAIN args |->
                     IF Is(args[i], UnsignedTypes \cup {"u8"}) THEN Varint[v[i]] ELSE <<Hole>>])

\* PostcardDecoder
TsRead(method, bytes) ==
    CASE method = "string" -> LET size == TsNumber(TsVarintFrom(bytes))
                              IN  IF size.status = "ok" THEN ReadBytes(size.value, size.rest) ELSE size
      [] method = "bool" -> Mapped(ReadByte(bytes), LAMBDA b : b # 0)
      [] method = "u8" -> ReadByte(bytes)
      [] method = "i8" -> Mapped(ReadByte(bytes), LAMBDA b : IF b > 127 THEN b - 256 ELSE b)
      [] method \in {"u16", "u32"} -> TsNumber(TsVarintFrom(bytes))
      [] method \in {"i16", "i32"} -> TsNumber(Mapped(TsVarintFrom(bytes), UnZigZag))
      [] method = "u64" -> TsVarintFrom(bytes)
      [] method = "i64" -> Mapped(TsVarintFrom(bytes), UnZigZag)
      [] method = "f32" -> ReadBytes(4, bytes)
      [] method = "f64" -> ReadBytes(8, bytes)

\* option and array, given what the generated code decodes after the tag or the length.
TsReadOption(tag, some) ==
    IF tag.status # "ok" THEN tag
    ELSE IF tag.value = 0 THEN Decoded(<<>>, tag.rest)
    ELSE Mapped(some, LAMBDA v : <<v>>)
TsReadArray(size, items) == IF size.status = "ok" THEN items ELSE size
TsReadDiscriminant(bytes) == TsNumber(TsVarintFrom(bytes))

\* generate_decode_expr, and the bodies of decodeName.
RECURSIVE TsDecode(_, _)
TsDecodeNamed(shape, bytes) ==
    IF shape.def = "struct" THEN InTurn(TsDecode, shape.of, bytes)
    ELSE LET tag == TsReadDiscriminant(bytes)
         IN  IF tag.status # "ok" THEN tag
             ELSE IF tag.value >= Len(shape.of) THEN Failed
             ELSE Mapped(InTurn(TsDecode, shape.of[tag.value + 1], tag.rest), LAMBDA w : <<tag.value, w>>)
TsDecode(shape, bytes) ==
    CASE shape.def = "unit" -> Decoded(<<>>, bytes)
      [] shape.def = "option" ->
            LET tag == ReadByte(bytes) IN TsReadOption(tag, TsDecode(shape.of[1], tag.rest))
      [] shape.def = "list" ->
            LET size == TsNumber(TsVarintFrom(bytes))
            IN  TsReadArray(size, IF Is(shape.of[1], {"u8"}) THEN ReadBytes(size.value, size.rest)
                                  ELSE InTurn(TsDecode, Times(size.value, shape.of[1]), size.rest))
      [] shape.def = "scalar" -> TsRead(TsMethod(shape.name), bytes)
      [] IsNamed(shape) -> TsDecodeNamed(Generated(shape), bytes)
      [] OTHER -> Undecoded

-----------------------------------------------------------------------------
(* Swift: which encode a value's static type selects, then the generated code. *)

\* scalar_to_swift, where PostcardEncoder has an encode for the type.
SwiftType(name) ==
    CASE name \in StringTypes -> "string"
      [] name = "i128" -> "i64"
      [] name = "u128" -> "u64"
      [] OTHER -> name
SwiftEncodes == {"string", "bool", "u8", "i8", "f32", "f64"} \cup UnsignedTypes \cup SignedTypes

SwiftCall(name, v) ==
    LET type == SwiftType(name)
    IN  CASE type \notin SwiftEncodes -> <<Hole>>
          [] type = "string" -> Varint[Len(v)] \o v
          [] type = "bool" -> <<IF v THEN 1 ELSE 0>>
          [] type \in {"u8", "i8"} -> <<v % 256>>
          [] type \in UnsignedTypes -> Varint[v]
          [] type \in SignedTypes -> Varint[ZigZag(v)]
          [] type \in {"f32", "f64"} -> v

RECURSIVE SwiftValue(_, _)

\* generate_struct and generate_enum: encode(to:), which the item of a container calls.
SwiftFields(of, v) == FlattenSeq([f \in DOMAIN of |-> SwiftValue(of[f], v[f])])
SwiftNamed(shape, v) ==
    IF shape.def = "struct" THEN SwiftFields(shape.of, v)
    ELSE Varint[v[1]] \o SwiftFields(shape.of[v[1] + 1], v[2])
SwiftItem(shape, v) ==
    CASE shape.def = "scalar" -> SwiftCall(shape.name, v)
      [] IsNamed(shape) -> SwiftNamed(Generated(shape), v)
      [] OTHER -> <<Hole>>
SwiftList(shape, v) == Varint[Len(v)] \o FlattenSeq([i \in DOMAIN v |-> SwiftItem(shape, v[i])])

\* encoder.encode(expr) alone: [UInt8] and [String] are the arrays it takes.
SwiftEncode(shape, v) ==
    IF shape.def \in {"list", "array"}
    THEN IF Is(shape.of[1], {"u8"} \cup StringTypes) THEN SwiftList(shape.of[1], v) ELSE <<Hole>>
    ELSE SwiftItem(shape, v)

\* generate_encode_value
SwiftValue(shape, v) ==
    CASE shape.def = "option" -> IF v = <<>> THEN <<0>> ELSE <<1>> \o SwiftItem(shape.of[1], v[1])
      [] shape.def = "list" -> SwiftList(shape.of[1], v)
      [] OTHER -> SwiftEncode(shape, v)

\* generate_method
SwiftRequest(args, v) ==
    IF Len(args) = 1 THEN SwiftValue(RequestShape(args), v[1])
    ELSE FlattenSeq([i \in DOMAIN args |-> SwiftEncode(args[i], v[i])])

\* Each option declares optTag in the scope it is decoded in: two of them do not compile.
RECURSIVE OptTags(_), SwiftCompiles(_)
TagsOf(of) == FoldLeft(LAMBDA sum, s : sum + OptTags(s), 0, of)
OptTags(shape) ==
    CASE shape.def = "option" -> 1 [] shape.def = "struct" -> TagsOf(shape.of) [] OTHER -> 0
SwiftCompiles(shape) ==
    LET scope(of) == TagsOf(of) <= 1 /\ \A f \in DOMAIN of : SwiftCompiles(of[f])
    IN  IF shape.def = "enum" THEN \A i \in DOMAIN shape.of : scope(shape.of[i])
        ELSE scope(shape.of)

SwiftRead(name, bytes) ==
    CASE name \in StringTypes -> LET size == SwiftVarintFrom(bytes)
                                 IN  IF size.status = "ok" THEN TakePrefix(size.value, size.rest) ELSE size
      [] name = "bool" -> Mapped(ReadByte(bytes), LAMBDA b : b # 0)
      [] name = "u8" -> ReadByte(bytes)
      [] name = "i8" -> Mapped(ReadByte(bytes), LAMBDA b : IF b > 127 THEN b - 256 ELSE b)
      [] name \in UnsignedTypes ->
            LET n == SwiftVarintFrom(bytes)
            IN  IF n.status = "ok" /\ n.value >= 2 ^ IntBits[name] THEN Failed ELSE n
      [] name \in SignedTypes -> Mapped(SwiftVarintFrom(bytes), UnZigZag)
      [] name = "f32" -> TakePrefix(4, bytes)
      [] name = "f64" -> TakePrefix(8, bytes)
      [] OTHER -> Undecoded

\* generate_decode_value
RECURSIVE SwiftDecode(_, _)
SwiftDecode(shape, bytes) ==
    CASE shape.def = "option" ->
            LET tag == ReadByte(bytes)
            IN  IF tag.status # "ok" THEN tag
                ELSE IF tag.value = 0 THEN Decoded(<<>>, tag.rest)
                ELSE Mapped(SwiftDecode(shape.of[1], tag.rest), LAMBDA v : <<v>>)
      [] shape.def = "list" ->
            LET size == SwiftVarintFrom(bytes)
            IN  IF size.status # "ok" THEN size
                ELSE IF Is(shape.of[1], {"u8"}) THEN TakePrefix(size.value, size.rest)
                ELSE InTurn(SwiftDecode, Times(size.value, shape.of[1]), size.rest)
      [] shape.def = "scalar" -> SwiftRead(shape.name, bytes)
      [] shape.def = "struct" -> InTurn(SwiftDecode, shape.of, bytes)
      [] shape.def = "enum" ->
            LET tag == SwiftVarintFrom(bytes)
            IN  IF tag.status # "ok" THEN tag
                ELSE IF tag.value >= Len(shape.of) THEN Failed
                ELSE Mapped(InTurn(SwiftDecode, shape.of[tag.value + 1], tag.rest), LAMBDA w : <<tag.value, w>>)
      [] OTHER -> Undecoded

\* generate_decode_return: a list as the whole reply is not implemented.
SwiftReturn(shape, bytes) ==
    CASE shape.def = "unit" -> Decoded(<<>>, bytes)
      [] shape.def = "list" \/ ~SwiftCompiles(shape) -> Undecoded
      [] OTHER -> SwiftDecode(shape, bytes)

-----------------------------------------------------------------------------
(* The values tried: the i-th of a shape, such that parts vary independently. *)

Pick(i, from) == from[(i % Len(from)) + 1]
Samples(name) ==
    CASE name = "bool" -> <<FALSE, TRUE>>
      [] name = "u8" -> <<0, 1, 127, 128, 255>>
      [] name = "i8" -> <<0, 1, -1, 127, -128>>
      [] name \in StringTypes -> <<<<>>, <<104, 105>>, Times(127, 97), Times(128, 98)>>
      [] name = "f32" -> <<Times(4, 0), <<0, 0, 128, 63>>, Times(4, 255)>>
      [] name = "f64" -> <<Times(8, 0), Times(8, 255)>>
      [] name \in UnsignedTypes -> <<0, 1, 127, 128, 2 ^ (IntBits[name] - 1), 2 ^ IntBits[name] - 1>>
      [] name \in SignedTypes ->
            LET half == 2 ^ (IntBits[[i16 |-> "u16", i32 |-> "u32", i64 |-> "u64"][name]] - 1)
            IN  <<0, 1, -1, 63, 64, -64, -65, half - 1, -half>>

RECURSIVE Sample(_, _)
SampleAll(of, i) == [f \in DOMAIN of |-> Sample(of[f], (i \div f) + f)]
Sample(shape, i) ==
    CASE shape.def = "unit" -> <<>>
      [] shape.def = "scalar" -> Pick(i, Samples(shape.name))
      [] shape.def = "option" -> IF i % 3 = 0 THEN <<>> ELSE <<Sample(shape.of[1], i \div 3)>>
      [] shape.def = "list" -> [n \in 1 .. i % 4 |-> Sample(shape.of[1], (i \div 4) + n)]
      [] shape.def = "array" -> [n \in 1 .. 2 |-> Sample(shape.of[1], i + n)]
      [] shape.def \in {"struct", "tuple"} -> SampleAll(shape.of, i)
      [] shape.def = "enum" -> <<i % Len(shape.of),
                                 SampleAll(shape.of[(i % Len(shape.of)) + 1], i \div Len(shape.of))>>

\* A request is what the Rust server decodes, and a reply it encoded is decoded to the
\* value and nothing is left, wherever the generator wrote code that builds.
CodecsAgree ==
    \A m \in DOMAIN Methods, i \in 0 .. MaxSample :
        LET args == Methods[m].args
            given == SampleAll(args, i)
            asked == FlattenSeq([a \in DOMAIN args |-> Postcard(args[a], given[a])])
            answer == Sample(Methods[m].returns, i)
            reply == Postcard(Methods[m].returns, answer)
            right(bytes) == IsWhole(bytes) => bytes = asked
            same(r) == r.status # "hole" => r = Decoded(answer, <<>>)
        IN  /\ right(TsRequest(args, given)) /\ right(SwiftRequest(args, given))
            /\ same(TsDecode(Methods[m].returns, reply))
            /\ same(SwiftReturn(Methods[m].returns, reply))
====
