---- MODULE ControlFrames ----
(***************************************************************************)
(* What travels on channel 0 and the ids methods are called by: the verbs, *)
(* the handshake and the payloads of rapace-protocol, who writes and reads *)
(* them (rapace-core's session.rs and control.rs, rapace's session.rs),    *)
(* and the four implementations of compute_method_id.                      *)
(*                                                                         *)
(* Payloads are in the Postcard format (facet-postcard): a u32 is a        *)
(* varint, a variant its index, an option or a list starts with a tag or   *)
(* a length, and a struct is its fields.  A byte is a number.              *)
(***************************************************************************)
EXTENDS Integers, Sequences
LOCAL INSTANCE SequencesExt

CONSTANTS
    ControlIds,            \* channel ids and amounts of bytes under check, u32
    InlineSize,            \* INLINE_PAYLOAD_SIZE
    HashBits,              \* 64, the width of the hash
    FnvOffset, FnvPrime,   \* the two numbers of FNV-1a, in that width
    NameBytes              \* bytes of the names under check: no dot, which is 46

ASSUME ControlAssumption ==
    /\ ControlIds \subseteq Nat /\ InlineSize \in Nat
    /\ HashBits \in Nat /\ HashBits % 2 = 0
    /\ {FnvOffset, FnvPrime} \subseteq 0 .. 2 ^ HashBits - 1
    /\ NameBytes \subseteq (0 .. 255) \ {46}

Nowhere == "nowhere"

\* A varint and its value; 128 ^ 4 is the last digit of a u32.
WordBytes[n \in Nat] == IF n < 128 THEN <<n>> ELSE <<128 + (n % 128)>> \o WordBytes[n \div 128]
WordValue(bytes) == FoldRight(LAMBDA byte, above : (byte % 128) + 128 * above, bytes, 0)

\* The first varint of a payload and what follows it.
HasWord(bytes) == \E i \in DOMAIN bytes : bytes[i] < 128
WordEnd(bytes) == CHOOSE i \in DOMAIN bytes : bytes[i] < 128 /\ \A j \in 1 .. i - 1 : bytes[j] >= 128
FirstWord(bytes) == WordValue(SubSeq(bytes, 1, WordEnd(bytes)))
AfterWord(bytes) == SubSeq(bytes, WordEnd(bytes) + 1, Len(bytes))

-----------------------------------------------------------------------------
(* The verbs, and the frame every one of them travels in. *)

ControlVerb == [HELLO |-> 0, OPEN_CHANNEL |-> 1, CLOSE_CHANNEL |-> 2, CANCEL_CHANNEL |-> 3,
                GRANT_CREDITS |-> 4, PING |-> 5, PONG |-> 6, GO_AWAY |-> 7]

ControlFrame(verb, payload) ==
    [channel_id |-> 0, flags |-> {"CONTROL"}, method_id |-> ControlVerb[verb], payload |-> payload]

-----------------------------------------------------------------------------
(* The handshake.  A Hello is kept as its record: both sides decode it. *)

Roles == {"Initiator", "Acceptor"}
Features == {"ATTACHED_STREAMS", "CALL_ENVELOPE", "CREDIT_FLOW_CONTROL", "RAPACE_PING",
             "WEBTRANSPORT_MULTI_STREAM", "WEBTRANSPORT_DATAGRAMS"}
Required == {"ATTACHED_STREAMS", "CALL_ENVELOPE"}
DefaultLimits == [max_payload_size |-> 1024 * 1024, max_channels |-> 0, max_pending_calls |-> 0]

\* Hello::default, and what send_hello fills in.
DefaultHello ==
    [version |-> <<1, 0>>, role |-> "Initiator", required |-> Required,
     supported |-> Required \cup {"CREDIT_FLOW_CONTROL", "RAPACE_PING"},
     limits |-> DefaultLimits, methods |-> <<>>]
SendHello(role) ==
    ControlFrame("HELLO", [version |-> <<1, 0>>, role |-> role, required |-> Required,
                           supported |-> Required \cup {"CREDIT_FLOW_CONTROL", "RAPACE_PING"},
                           limits |-> DefaultLimits, methods |-> <<>>])

\* recv_hello: what it asks of the first frame, of the peer's role, version and features.
AcceptsHello(role, frame) ==
    /\ frame.channel_id = 0 /\ "CONTROL" \in frame.flags
    /\ frame.method_id = ControlVerb["HELLO"]
    /\ frame.payload.role = (IF role = "Initiator" THEN "Acceptor" ELSE "Initiator")
    /\ frame.payload.version[1] = 1
    /\ Required \subseteq frame.payload.supported

-----------------------------------------------------------------------------
(* The payloads RpcSession writes: the structs of rapace-protocol.  Variants *)
(* go by their index, which starts at 0 whatever number the enum gives them. *)

ChannelKinds == <<"Call", "Stream", "Tunnel">>
CancelReasons == <<"ClientCancel", "DeadlineExceeded", "ResourceExhausted",
                   "ProtocolViolation", "Unauthenticated", "PermissionDenied">>
VariantOf(x, variants) == (CHOOSE i \in DOMAIN variants : variants[i] = x) - 1

\* attach None, no metadata, no credits
OpenChannel(ch, purpose) ==
    ControlFrame("OPEN_CHANNEL", WordBytes[ch] \o <<VariantOf(purpose, ChannelKinds), 0, 0, 0>>)
CancelChannel(ch, reason) ==
    ControlFrame("CANCEL_CHANNEL", WordBytes[ch] \o <<VariantOf(reason, CancelReasons)>>)
GrantCredits(ch, bytes) == ControlFrame("GRANT_CREDITS", WordBytes[ch] \o WordBytes[bytes])
Ping(payload) == ControlFrame("PING", payload)
Pong(payload) == ControlFrame("PONG", payload)

\* handle_control_frame: the frames it sends in answer.
ControlAnswers(frame) ==
    IF frame.method_id = ControlVerb["PING"] THEN {Pong(frame.payload)}
    ELSE IF frame.method_id = ControlVerb["OPEN_CHANNEL"] /\ FirstWord(frame.payload) = 0
    THEN {CancelChannel(0, "ProtocolViolation")} ELSE {}

-----------------------------------------------------------------------------
(* The payloads the channel session reads: variants of ControlPayload, in    *)
(* the form its own tests write.                                             *)

PayloadVariants == <<"OpenChannel", "CloseChannel", "CancelChannel", "GrantCredits", "Ping", "Pong">>
AsControlPayload(variant, frame) ==
    [frame EXCEPT !.payload = <<VariantOf(variant, PayloadVariants)>> \o @]

\* process_control_frame: the variant the verb asks for, and both of its numbers.
SessionReads(frame) ==
    LET bytes == frame.payload
        body == AfterWord(bytes)
        whole(variant) ==
            /\ HasWord(bytes) /\ FirstWord(bytes) = VariantOf(variant, PayloadVariants)
            /\ HasWord(body) /\ HasWord(AfterWord(body))
        second == FirstWord(AfterWord(body))
    IN  IF frame.method_id = ControlVerb["CANCEL_CHANNEL"]
           /\ whole("CancelChannel") /\ second < Len(CancelReasons)
        THEN <<"cancel_channel", FirstWord(body)>>
        ELSE IF frame.method_id = ControlVerb["GRANT_CREDITS"] /\ whole("GrantCredits")
        THEN <<"grant_credits", FirstWord(body), second>>
        ELSE Nowhere

-----------------------------------------------------------------------------
(* compute_method_id of rapace-protocol, of the service macro, of the       *)
(* TypeScript and of the Swift client: FNV-1a, folded to half its width.    *)

Half == 2 ^ (HashBits \div 2)
Xor[a, b \in Nat] == IF a + b = 0 THEN 0 ELSE ((a + b) % 2) + 2 * Xor[a \div 2, b \div 2]
Hashed(hash, bytes) ==
    FoldLeft(LAMBDA h, byte : (Xor[h, byte] * FnvPrime) % 2 ^ HashBits, hash, bytes)
FullName(service, method) == service \o <<46>> \o method

ProtocolMethodId(service, method) ==
    LET hash == Hashed(Hashed(Hashed(FnvOffset, service), <<46>>), method)
    IN  Xor[hash \div Half, hash] % Half
MacroMethodId(service, method) ==
    LET hash == Hashed(Hashed(Hashed(FnvOffset, service), <<46>>), method)
    IN  Xor[hash \div Half, hash] % Half
TsMethodId(service, method) ==
    LET hash == Hashed(FnvOffset, FullName(service, method))
    IN  Xor[hash \div Half, hash % Half]
SwiftMethodId(service, method) ==
    LET hash == Hashed(FnvOffset, FullName(service, method))
    IN  Xor[hash \div Half, hash] % Half

\* computeMethodIdFromFullName throws unless there is one dot.
TsMethodIdFromFullName(name) ==
    LET dots == {i \in DOMAIN name : name[i] = 46}
        at == CHOOSE i \in dots : TRUE
    IN  IF dots = {} \/ \E i, j \in dots : i # j THEN Nowhere
        ELSE TsMethodId(SubSeq(name, 1, at - 1), SubSeq(name, at + 1, Len(name)))

Names == UNION {[1 .. n -> NameBytes] : n \in 1 .. 2}

-----------------------------------------------------------------------------
WirePayloads ==
    {CancelChannel(ch, r) : ch \in ControlIds, r \in {CancelReasons[i] : i \in DOMAIN CancelReasons}}
    \cup {GrantCredits(ch, n) : ch \in ControlIds, n \in ControlIds}

\* Two sessions meet in a handshake exactly when their roles differ, and the Hello
\* rapace-protocol gives by default is the one an initiator sends.
HandshakeSound ==
    /\ \A mine, theirs \in Roles : AcceptsHello(mine, SendHello(theirs)) <=> mine # theirs
    /\ SendHello("Initiator") = ControlFrame("HELLO", DefaultHello)

\* The payloads written with expect("payload should fit inline") do, for every id; and no
\* answer to a control frame is answered in turn.
AnswersEnd ==
    LET written == {Ping([i \in 1 .. 8 |-> b]) : b \in {0, 255}} \cup WirePayloads \cup
                   {OpenChannel(ch, ChannelKinds[k]) : ch \in ControlIds, k \in DOMAIN ChannelKinds}
    IN  \A f \in written :
           /\ Len(f.payload) <= InlineSize
           /\ \A g \in ControlAnswers(f) : Len(g.payload) <= InlineSize /\ ControlAnswers(g) = {}

\* The channel session acts on what was meant or not at all: it reads the form its tests
\* write, and never takes the struct RpcSession sends for something else.
ControlNotMisread ==
    /\ \A ch \in ControlIds, r \in DOMAIN CancelReasons :
           SessionReads(AsControlPayload("CancelChannel", CancelChannel(ch, CancelReasons[r])))
               = <<"cancel_channel", ch>>
    /\ \A ch, n \in ControlIds :
           SessionReads(AsControlPayload("GrantCredits", GrantCredits(ch, n)))
               = <<"grant_credits", ch, n>>
    /\ \A f \in WirePayloads : SessionReads(f) = Nowhere

\* A method has one id, whoever computes it.
MethodIdsAgree ==
    \A service, method \in Names :
        LET mid == ProtocolMethodId(service, method)
        IN  /\ MacroMethodId(service, method) = mid
            /\ TsMethodId(service, method) = mid /\ SwiftMethodId(service, method) = mid
            /\ TsMethodIdFromFullName(FullName(service, method)) = mid

ControlFramesSound == HandshakeSound /\ AnswersEnd /\ ControlNotMisread /\ MethodIdsAgree

\* Refuted: a channel session understands the control payloads of the wire.
WireIsUnderstood == \A f \in WirePayloads : SessionReads(f) # Nowhere
====
