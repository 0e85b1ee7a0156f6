---- MODULE MCClientCalls ----
(***************************************************************************)
(* Two callers of a TypeScript or a Swift client; the descriptors they put *)
(* on the wire; the frames of channel 0; and generated code for a service  *)
(* of nine methods.                                                        *)
(***************************************************************************)
EXTENDS ClientCalls, Descriptors, ControlFrames, GeneratedCodecs
CONSTANTS c1, c2

\* The edges of the slots, of the inline payload and of a word of 8 bits.
MCDescBounds == {0, 1, 15, 16, 17, 99, 100, 101, 254, 255}
MCDescLimits == [max_payload_len : {16, 100, 255}, max_channels : {10, 255},
                 slot_count : {0, 1, 100}, slot_size : {0, 16, 100, 254}]

\* The ids of one, two and five bytes, and the largest an i32 holds.
MCControlIds == {0, 1, 2, 3, 4, 127, 128, 300, 2147483647}

\* A word of 15 bits takes three bytes as a varint, the last of them half outside it.
MCIntBits == [u16 |-> 9, u32 |-> 12, u64 |-> 15]

Scalar(name) == [def |-> "scalar", name |-> name, of |-> <<>>]
OptionOf(shape) == [def |-> "option", name |-> "Option", of |-> <<shape>>]
ListOf(shape) == [def |-> "list", name |-> "Vec", of |-> <<shape>>]
Struct(name, fields) == [def |-> "struct", name |-> name, of |-> fields]
Enum(name, variants) == [def |-> "enum", name |-> name, of |-> variants]

Point == Struct("Point", <<Scalar("i32"), Scalar("i64"), Scalar("i8")>>)
Stat == Struct("Stat", <<Scalar("u64"), OptionOf(Scalar("String")), ListOf(Point), ListOf(Scalar("u8"))>>)
Shape == Enum("Shape", <<<<>>, <<Point>>, <<Scalar("u16"), Scalar("bool"), ListOf(Scalar("String"))>>>>)
Mixed == Struct("Mixed", <<Scalar("u8"), Scalar("u32"), Scalar("i16"), Scalar("f32"), Scalar("f64"),
                           ListOf(Shape), OptionOf(Stat)>>)
Twice == Struct("Twice", <<OptionOf(Scalar("u8")), OptionOf(Scalar("u16"))>>)
Deep == ListOf(ListOf(Scalar("u32")))

\* The last two are where a generator leaves a hole.
MCMethods == <<
    [args |-> <<>>, returns |-> [def |-> "unit", name |-> "()", of |-> <<>>]],
    [args |-> <<Mixed>>, returns |-> Mixed],
    [args |-> <<Stat>>, returns |-> Stat],
    [args |-> <<Shape>>, returns |-> Shape],
    [args |-> <<OptionOf(Shape)>>, returns |-> OptionOf(Mixed)],
    [args |-> <<ListOf(Stat)>>, returns |-> ListOf(Shape)],
    [args |-> <<Scalar("u64"), Scalar("u32")>>, returns |-> Scalar("i64")],
    [args |-> <<Scalar("String"), Point>>, returns |-> Twice],
    [args |-> <<Deep>>, returns |-> Deep]>>

\* The frames a client takes off the stream are those the server put on it; their
\* descriptors and inline payloads, the frames of channel 0 and the ids of methods mean
\* the same to all who write and read them.
FramesReadAlike == FramesInOrder /\ DescriptorsSound /\ ControlFramesSound

\* A caller gets the answer to its own call; its arguments are what the server decodes and
\* the answer is the value the server encoded.
AnswersReadAlike == OwnAnswers /\ CodecsAgree
====
