---- MODULE TypedCalls ----
(***************************************************************************)
(* What #[rapace::service] generates (rapace-macros/src/lib.rs): a client  *)
(* and a server for each trait, the server's entry in the registry of its  *)
(* process, the dispatcher of a session that serves one trait, and the     *)
(* dispatcher of a cell that serves several (rapace-cell/src/lib.rs).      *)
(*                                                                         *)
(* A call is a unary call or a stream.  It crosses the session of the      *)
(* client (call_pooled, start_streaming_call_pooled), the demux loop of    *)
(* the server, which takes the dispatcher in place at that moment and      *)
(* spawns a task, the generated code in the task, and the way back.  The   *)
(* session itself is modelled in RpcSession: here a connection is up, the  *)
(* frames of one call arrive in order, and those of two calls in any.      *)
(*                                                                         *)
(* The services are external: a handler returns, panics, yields items or   *)
(* an error.  A payload is the method whose value it encodes.              *)
(***************************************************************************)
EXTENDS Registry

CONSTANTS
    Procs, ServerProc,    \* processes, each with a registry of its own
    Hashes,               \* the hashes under check: functions of two names to Ids
    Calls,
    Errors,               \* the errors a service may yield: see ErrorType
    MaxItems, MaxSets     \* bounds: items of a stream, dispatchers set

ErrorCode == [Ok |-> 0, Cancelled |-> 1, DeadlineExceeded |-> 2, InvalidArgument |-> 3,
    NotFound |-> 4, AlreadyExists |-> 5, PermissionDenied |-> 6, ResourceExhausted |-> 7,
    FailedPrecondition |-> 8, Aborted |-> 9, OutOfRange |-> 10, Unimplemented |-> 11,
    Internal |-> 12, Unavailable |-> 13, DataLoss |-> 14, PeerDied |-> 100,
    SessionClosed |-> 101, ValidationFailed |-> 102, StaleGeneration |-> 103]

Codes == DOMAIN ErrorCode

\* error_code of rapace-protocol: the numbers of the specification. The sessions use ErrorCode.
ProtocolErrorCode == [Ok |-> 0, Cancelled |-> 1, Unknown |-> 2, InvalidArgument |-> 3,
    DeadlineExceeded |-> 4, NotFound |-> 5, AlreadyExists |-> 6, PermissionDenied |-> 7,
    ResourceExhausted |-> 8, FailedPrecondition |-> 9, Aborted |-> 10, OutOfRange |-> 11,
    Unimplemented |-> 12, Internal |-> 13, Unavailable |-> 14, DataLoss |-> 15,
    Unauthenticated |-> 16, IncompatibleSchema |-> 17, ProtocolError |-> 50,
    InvalidFrame |-> 51, InvalidChannel |-> 52, InvalidMethod |-> 53, DecodeError |-> 54,
    EncodeError |-> 55]

ErrorType == [kind : {"Status"}, code : Codes] \cup
             [kind : {"Transport", "Cancelled", "DeadlineExceeded", "Serialize", "Deserialize"}]
Status(code) == [kind |-> "Status", code |-> code]

ASSUME TypedCallsAssumption ==
    /\ IsFiniteSet(Services) /\ Nothing \notin Services \cup Methods \cup (Names \X MethodNames)
    /\ \A s \in Services : Trait[s] \in Seq([name : MethodNames, streaming : BOOLEAN])
    /\ ServerProc \in Procs
    /\ Hashes \subseteq [Names \X MethodNames -> Ids] /\ \A h \in Hashes : Compiles(h)
    /\ Errors \subseteq ErrorType
    /\ MaxItems \in Nat /\ MaxSets \in Nat

VARIABLES
    hash,            \* the hash, one of Hashes
    registry,        \* per process: ServiceRegistry::global()
    live,            \* the services of ServerProc whose new() has returned
    dispatcher,      \* of the server's session
    sets,            \* how often it was set
    client,          \* per call: the call at the client
    requests,        \* calls whose request is on its way, in order
    task,            \* per call: the task that serves it
    down,            \* per call: its frames on their way back
    chunks           \* per call: the frames in the tunnel of a stream

vars == <<hash, registry, live, dispatcher, sets, client, requests, task, down, chunks>>
serverVars == <<registry, live, dispatcher, sets>>

NoDispatcher == [kind |-> "none"]
Serving(s) == [kind |-> "service", service |-> s]
Cell(table) == [kind |-> "cell", table |-> table]

\* Frames: DATA, the response of a unary call (DATA, EOS, RESPONSE), ERROR with EOS, EOS.
Item(m, n) == [kind |-> "item", by |-> m, n |-> n, eos |-> FALSE]
Answer(m) == [kind |-> "item", by |-> m, n |-> 1, eos |-> TRUE]
Failure(code) == [kind |-> "error", code |-> code, eos |-> TRUE]
End == [kind |-> "end", eos |-> TRUE]

Init ==
    /\ hash \in Hashes
    /\ registry = [p \in Procs |-> Empty]
    /\ live = {} /\ dispatcher = NoDispatcher /\ sets = 0
    /\ client = [c \in Calls |-> [pc |-> "idle", method |-> Nothing, id |-> Nothing,
                               got |-> <<>>, open |-> FALSE]]
    /\ requests = <<>>
    /\ task = [c \in Calls |-> [pc |-> "none", via |-> NoDispatcher, arm |-> Nothing,
                             streams |-> FALSE, said |-> <<>>]]
    /\ down = [c \in Calls |-> <<>>] /\ chunks = [c \in Calls |-> <<>>]

Id(m) == IdOf(hash, m)
IsStream(c) == Streaming(client[c].method)

-----------------------------------------------------------------------------
(* The server's process. *)

\* x_register called by hand, under the write lock of with_global_mut.
Register(p, s) ==
    /\ registry' = [registry EXCEPT ![p] = Registered(hash, @, s)]
    /\ UNCHANGED <<hash, live, dispatcher, sets, client, requests, task, down, chunks>>

\* Mutant: the OnceLock is set although x_register panicked.
NewServer_SetAnyway(s) ==
    /\ s \notin live
    /\ registry' = [registry EXCEPT ![ServerProc] = Registered(hash, @, s)]
    /\ live' = live \cup {s}
    /\ UNCHANGED <<hash, dispatcher, sets, client, requests, task, down, chunks>>

\* XServer::new: __auto_register through a OnceLock, which stays unset when
\* x_register panics; the panic leaves new(), and there is no server.
NewServer(s) ==
    /\ s \notin live
    /\ registry' = [registry EXCEPT ![ServerProc] = Registered(hash, @, s)]
    /\ live' = IF Collides(hash, registry[ServerProc], s) THEN live ELSE live \cup {s}
    /\ UNCHANGED <<hash, dispatcher, sets, client, requests, task, down, chunks>>

SetDispatcher(d) ==
    /\ sets < MaxSets
    /\ dispatcher' = d /\ sets' = sets + 1
    /\ UNCHANGED <<hash, registry, live, client, requests, task, down, chunks>>

\* serve() and set_dispatcher(server.into_session_dispatcher(..))
ServeOne(s) == s \in live /\ SetDispatcher(Serving(s))

\* DispatcherBuilder: add_service panics on an id that is taken; then there is no dispatcher.
MethodIds(s) == {Id(<<s, i>>) : i \in DOMAIN Trait[s]}
Table(S) == [id \in Ids |-> IF \E s \in S : id \in MethodIds(s)
                            THEN CHOOSE s \in S : id \in MethodIds(s) ELSE Nothing]
ServeCell(S) ==
    /\ S # {} /\ S \subseteq live
    /\ \A s, t \in S : s # t => MethodIds(s) \cap MethodIds(t) = {}
    /\ SetDispatcher(Cell(Table(S)))

-----------------------------------------------------------------------------
(* The generated client. *)

\* The id a client sends: XClient has it compiled in; XRegistryClient::new takes
\* it from a registry and panics unless it finds every method of the service.
Resolves(p, s) == \A i \in DOMAIN Trait[s] : ResolveMethodId(hash, registry[p], s, i) # Nothing
ClientIds(m) == {Id(m)} \cup {ResolveMethodId(hash, registry[p], m[1], m[2]) :
                                 p \in {p \in Procs : Resolves(p, m[1])}}

Sends(c, m, id) ==
    /\ client[c].pc = "idle"
    /\ client' = [client EXCEPT ![c] = [pc |-> "waiting", method |-> m, id |-> id,
                                        got |-> <<>>, open |-> Streaming(m)]]
    /\ requests' = Append(requests, c)
    /\ UNCHANGED <<hash, serverVars, task, down, chunks>>

\* A method of XClient: a unary one waits for its answer, a streaming one has its
\* tunnel in the session's map before the request leaves.
CallUnary(c, m, id) == ~Streaming(m) /\ Sends(c, m, id)
CallStream(c, m, id) == Streaming(m) /\ Sends(c, m, id)

\* What the client makes of a payload: its own method decodes, another may not.
Decoded(c, f) == IF f.by = client[c].method THEN {f} ELSE {f, Failure("Internal")}

\* Mutant: from_u32 without the codes of rapace itself.
FromU32_NoRapace(value) == IF value > 14 THEN "Internal"
                           ELSE CHOOSE c \in Codes : ErrorCode[c] = value

\* ErrorCode::from_u32 and parse_error_payload: a number, back to a code.
FromU32(value) == IF \E c \in Codes : ErrorCode[c] = value
                  THEN CHOOSE c \in Codes : ErrorCode[c] = value ELSE "Internal"
ParseError(f) == Failure(FromU32(f.code))

\* The demux loop of the client, for a unary call: a frame without RESPONSE,
\* as an error frame is, belongs to no pending call and is no DATA: skipped.
ReceiveAnswer(c) ==
    /\ client[c].pc # "idle" /\ ~IsStream(c) /\ down[c] # <<>>
    /\ down' = [down EXCEPT ![c] = Tail(@)]
    /\ IF Head(down[c]).kind = "item" /\ client[c].pc = "waiting"
       THEN \E r \in Decoded(c, Head(down[c])) :
                client' = [client EXCEPT ![c].pc = "done", ![c].got = <<r>>]
       ELSE UNCHANGED client
    /\ UNCHANGED <<hash, serverVars, requests, task, chunks>>

\* call_pooled's time-out: DeadlineExceeded.
CallTimeout(c) ==
    /\ client[c].pc = "waiting" /\ ~IsStream(c)
    /\ client' = [client EXCEPT ![c].pc = "timedOut"]
    /\ UNCHANGED <<hash, serverVars, requests, task, down, chunks>>

\* ... and for a stream: the tunnel takes the frame, and goes with its EOS.
RouteChunk(c) ==
    /\ client[c].open /\ down[c] # <<>>
    /\ down' = [down EXCEPT ![c] = Tail(@)]
    /\ chunks' = [chunks EXCEPT ![c] = Append(@, Head(down[c]))]
    /\ client' = [client EXCEPT ![c].open = ~Head(down[c]).eos]
    /\ UNCHANGED <<hash, serverVars, requests, task>>

\* A poll of the stream (unfold over the tunnel's receiver).
NextItem(c) ==
    /\ client[c].pc = "waiting" /\ IsStream(c)
    /\ \/ /\ chunks[c] # <<>>
          /\ LET f == Head(chunks[c])
             IN  \/ /\ f.kind = "error"
                    /\ client' = [client EXCEPT ![c].got = Append(@, ParseError(f))]
                 \/ /\ f.kind = "end"
                    /\ client' = [client EXCEPT ![c].pc = "done"]
                 \/ /\ f.kind = "item"
                    /\ \E r \in Decoded(c, f) : client' = [client EXCEPT ![c].got = Append(@, r)]
          /\ chunks' = [chunks EXCEPT ![c] = Tail(@)]
       \/ /\ chunks[c] = <<>> /\ ~client[c].open
          /\ client' = [client EXCEPT ![c].pc = "done"]
          /\ UNCHANGED chunks
    /\ UNCHANGED <<hash, serverVars, requests, task, down>>

-----------------------------------------------------------------------------
(* The server: its demux loop, and the task it spawns for a request. *)

Demux ==
    /\ requests # <<>>
    /\ LET c == Head(requests)
       IN  task' = [task EXCEPT ![c].via = dispatcher,
                                ![c].pc = IF dispatcher = NoDispatcher THEN "dropped" ELSE "spawned"]
    /\ requests' = Tail(requests)
    /\ UNCHANGED <<hash, serverVars, client, down, chunks>>

\* start_streaming_call sets NO_REPLY, call does not.
NoReply(c) == IsStream(c)

\* Mutant: a failed dispatch_streaming is left to run(), which is silent on NO_REPLY.
Ends_ErrorsToRun(c, pc, arm, streams, frame, said) ==
    /\ task' = [task EXCEPT ![c].pc = pc, ![c].arm = arm, ![c].streams = streams,
                            ![c].said = said]
    /\ down' = [down EXCEPT ![c] = IF NoReply(c) /\ (~streams \/ frame.kind = "error") THEN @
                                   ELSE Append(@, frame)]

\* The reply of a task, or its error: the dispatcher of a streaming method sends
\* its own frames, run() sends the others, and sends none on NO_REPLY.
Ends(c, pc, arm, streams, frame, said) ==
    /\ task' = [task EXCEPT ![c].pc = pc, ![c].arm = arm, ![c].streams = streams,
                            ![c].said = said]
    /\ down' = [down EXCEPT ![c] = IF NoReply(c) /\ ~streams THEN @ ELSE Append(@, frame)]

\* [code: u32][len][message]: every error that is no status becomes a code.
CodeOf(e) == IF e.kind = "Status" THEN ErrorCode[e.code]
             ELSE IF e.kind \in {"Cancelled", "DeadlineExceeded"} THEN ErrorCode[e.kind]
             ELSE ErrorCode["Internal"]
ErrorFrame(e) == Failure(CodeOf(e))

\* What the service meant by an error.
Meant(e) == Failure(IF e.kind = "Status" THEN e.code
                    ELSE IF e.kind \in {"Cancelled", "DeadlineExceeded"} THEN e.kind
                    ELSE "Internal")

Fails(c, pc, arm, streams, e) ==
    Ends(c, pc, arm, streams, ErrorFrame(e), Append(task[c].said, Meant(e)))

\* __is_streaming_method_id asks the registry, not the trait.
IsStreamingId(id) == LET m == MethodById(registry[ServerProc], id)
                     IN  m # Nothing /\ Streaming(m)

\* The match arms of XServer::dispatch and dispatch_streaming.
ArmOf(s, id) == IF \E i \in DOMAIN Trait[s] : Id(<<s, i>>) = id
                THEN <<s, CHOOSE i \in DOMAIN Trait[s] : Id(<<s, i>>) = id>> ELSE Nothing

\* The server a dispatcher hands a request to; a cell goes through ServiceDispatch.
TargetOf(via, id) == IF via.kind = "service" THEN via.service ELSE via.table[id]

\* First poll of the task: into_session_dispatcher, or the closure of DispatcherBuilder.
Start(c) ==
    /\ task[c].pc = "spawned"
    /\ LET id == client[c].id
           via == task[c].via
           s == TargetOf(via, id)
           arm == IF s = Nothing THEN Nothing ELSE ArmOf(s, id)
           streams == via.kind = "service" /\ IsStreamingId(id)
       IN  IF streams /\ ~NoReply(c)
           THEN Fails(c, "done", Nothing, streams, Status("InvalidArgument"))
           ELSE IF arm = Nothing
           THEN Fails(c, "done", Nothing, streams, Status("Unimplemented"))
           ELSE IF Streaming(arm) /\ ~streams
           THEN Fails(c, "done", arm, streams, Status("Internal"))
           ELSE \/ /\ task' = [task EXCEPT ![c].pc = "running", ![c].arm = arm,
                                           ![c].streams = streams]
                   /\ UNCHANGED down
                \/ /\ arm # client[c].method        \* its arguments may not decode
                   /\ Fails(c, "done", arm, streams, Status("InvalidArgument"))
    /\ UNCHANGED <<hash, serverVars, client, requests, chunks>>

Runs(c) == task[c].pc = "running"
taskFrame == <<hash, serverVars, client, requests, chunks>>
Here(c, pc, frame, said) == Ends(c, pc, task[c].arm, task[c].streams, frame, said)

\* A unary handler returns, and its result is encoded.
HandlerReturns(c) ==
    /\ Runs(c) /\ ~Streaming(task[c].arm)
    /\ Here(c, "done", Answer(task[c].arm), <<Answer(task[c].arm)>>)
    /\ UNCHANGED taskFrame

\* A result or an item is not encoded: the `?` after postcard_to_pooled_buf.
EncodeFails(c) ==
    /\ Runs(c)
    /\ LET e == [kind |-> "Serialize"]
       IN  Here(c, "done", ErrorFrame(e), Append(task[c].said, Meant(e)))
    /\ UNCHANGED taskFrame

\* run() turns a panic into an error, which is not sent on NO_REPLY.
HandlerPanics(c) ==
    /\ Runs(c)
    /\ task' = [task EXCEPT ![c].pc = "panicked"]
    /\ down' = [down EXCEPT ![c] = IF NoReply(c) THEN @
                                   ELSE Append(@, ErrorFrame(Status("Internal")))]
    /\ UNCHANGED taskFrame

\* The loop of a streaming arm: an item, an error, the end.
YieldItem(c) ==
    /\ Runs(c) /\ Streaming(task[c].arm) /\ Len(task[c].said) < MaxItems
    /\ LET item == Item(task[c].arm, Len(task[c].said) + 1)
       IN  Here(c, "running", item, Append(task[c].said, item))
    /\ UNCHANGED taskFrame

YieldError(c, e) ==
    /\ Runs(c) /\ Streaming(task[c].arm)
    /\ Here(c, "done", ErrorFrame(e), Append(task[c].said, Meant(e)))
    /\ UNCHANGED taskFrame

FinishStream(c) ==
    /\ Runs(c) /\ Streaming(task[c].arm)
    /\ Here(c, "done", End, task[c].said)
    /\ UNCHANGED taskFrame

-----------------------------------------------------------------------------
ServerStep == \/ \E p \in Procs, s \in Services : Register(p, s)
              \/ \E s \in Services : NewServer(s) \/ ServeOne(s)
              \/ \E S \in SUBSET Services : ServeCell(S)
ClientStep(c) == \/ \E m \in Methods : \E id \in ClientIds(m) : CallUnary(c, m, id) \/ CallStream(c, m, id)
                 \/ ReceiveAnswer(c) \/ CallTimeout(c) \/ RouteChunk(c) \/ NextItem(c)
Handler(c) == \/ HandlerReturns(c) \/ EncodeFails(c) \/ HandlerPanics(c)
              \/ YieldItem(c) \/ FinishStream(c) \/ \E e \in Errors : YieldError(c, e)

Next == \/ ServerStep \/ Demux
        \/ \E c \in Calls : ClientStep(c) \/ Start(c) \/ Handler(c)

Spec == Init /\ [][Next]_vars

\* Spawned tasks run, handlers come to an end, both loops go on, the client polls.
FairSpec == Spec /\ \A c \in Calls : /\ WF_vars(Start(c)) /\ WF_vars(Handler(c))
                                    /\ WF_vars(RouteChunk(c)) /\ WF_vars(NextItem(c))

-----------------------------------------------------------------------------
Results == [kind : {"item"}, by : Methods, n : 1 .. MaxItems + 1, eos : BOOLEAN] \cup
           [kind : {"error"}, code : Codes, eos : {TRUE}]
Dispatchers == {NoDispatcher} \cup {Serving(s) : s \in Services} \cup
               {Cell(t) : t \in [Ids -> Services \cup {Nothing}]}

\* The type invariant.
TypeOK ==
    /\ hash \in Hashes /\ registry \in [Procs -> RegistryType]
    /\ live \subseteq Services /\ dispatcher \in Dispatchers /\ sets \in 0 .. MaxSets
    /\ client \in [Calls -> [pc : {"idle", "waiting", "done", "timedOut"},
                             method : Methods \cup {Nothing}, id : Ids \cup {Nothing},
                             got : Seq(Results), open : BOOLEAN]]
    /\ requests \in Seq(Calls)

\* Whoever asks the registry about a service that has a server gets that service's
\* methods: by id (the dispatcher and has_method), by name (XRegistryClient), and in
\* the list of introspection.  Registration is one panic away from half a service.
RegistryFaithful ==
    \A s \in live : LET r == registry[ServerProc]
                    IN  /\ \A i \in DOMAIN Trait[s] :
                             /\ MethodById(r, Id(<<s, i>>)) = <<s, i>>
                             /\ ResolveMethodId(hash, r, s, i) = Id(<<s, i>>)
                        /\ \E e \in ListServices(hash, r) :
                             e.name = NameOf[s] /\ {m.id : m \in e.methods} = MethodIds(s)

\* A value comes from the method the client named, when the server's process has a
\* server of that service: whatever ids collide, whatever dispatcher is in place.
RightMethod ==
    \A c \in Calls : \A k \in DOMAIN client[c].got :
        LET r == client[c].got[k]
        IN  r.kind = "item" /\ client[c].method[1] \in live => r.by = client[c].method

\* A stream yields what its service yielded, in order and with the error the service
\* meant, and does not end before all of it.
StreamFaithful ==
    \A c \in Calls :
        client[c].pc # "idle" /\ IsStream(c) /\ task[c].arm = client[c].method =>
            LET got == client[c].got
                said == task[c].said
                Plain(r) == IF r.kind = "error" THEN r.code ELSE r.n
            IN  /\ Len(got) <= Len(said)
                /\ \A k \in DOMAIN got : got[k].kind = said[k].kind /\ Plain(got[k]) = Plain(said[k])
                /\ client[c].pc = "done" => Len(got) = Len(said)

\* A stream taken up by a dispatcher of its own service comes to an end at the client,
\* unless the handler panics: also when an item cannot be encoded.
TakenUp(c) == /\ client[c].pc = "waiting" /\ IsStream(c)
               /\ task[c].pc \in {"spawned", "running", "done"}
               /\ task[c].via = Serving(client[c].method[1])
StreamsEnd == \A c \in Calls : TakenUp(c) ~> (client[c].pc = "done" \/ task[c].pc = "panicked")

\* Refuted: the same of a stream a cell has in its table (METHOD_IDS lists streaming
\* methods, ServiceDispatch has no streaming arm, and NO_REPLY drops the error).
InTable(c) == /\ client[c].pc = "waiting" /\ IsStream(c)
              /\ task[c].pc \in {"spawned", "running", "done"} /\ task[c].via.kind = "cell"
              /\ task[c].via.table[client[c].id] = client[c].method[1]
CellStreamsEnd == \A c \in Calls : InTable(c) ~> (client[c].pc = "done" \/ task[c].pc = "panicked")

\* Refuted: a code has one number, as ErrorCode's comment says in naming gRPC.
CodesMeanTheSame ==
    \A c \in Codes \cap DOMAIN ProtocolErrorCode : ErrorCode[c] = ProtocolErrorCode[c]

\* Refuted: what introspection lists can be called through the dispatcher in place.
ListedIsServed ==
    dispatcher.kind = "cell" =>
        \A e \in ListServices(hash, registry[ServerProc]) :
            \A m \in e.methods : dispatcher.table[m.id] # Nothing
====
