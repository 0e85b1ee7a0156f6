---- MODULE RpcSession ----
(***************************************************************************)
(* Two RpcSessions (rust/rapace-core/src/session.rs) joined by a           *)
(* MemTransport pair: the Hello exchange, the demux loop run(), unary      *)
(* calls with their PendingGuard and time-out, server-streaming calls with *)
(* their tunnel receiver, the spawned handlers, close() and the end of a   *)
(* peer.                                                                   *)
(*                                                                         *)
(* A task step goes from one await or lock to the next.  Frames are told   *)
(* apart by their flags, which kind stands for:                            *)
(*   hello, open, cancel   CONTROL, on channel 0; about is the channel     *)
(*   request               DATA | EOS                                      *)
(*   stream_request        DATA | EOS | NO_REPLY                           *)
(*   response              DATA | EOS | RESPONSE                           *)
(*   error                 ERROR | EOS                                     *)
(*   item, end             DATA, EOS                                       *)
(* of is the task the frame was made for: the payload, as far as anybody   *)
(* looks at it.                                                            *)
(***************************************************************************)
EXTENDS Naturals, Sequences, FiniteSets

CONSTANTS Sides,           \* the two sessions
          Initiator,       \* the one in Sides that says Hello first
          Callers,         \* tasks that make one call() each
          Streamers,       \* tasks that make one start_streaming_call() each
          Home,            \* [Callers \cup Streamers -> Sides]
          MaxPending,      \* RAPACE_MAX_PENDING
          WireCapacity,    \* CHANNEL_CAPACITY of MemTransport
          TunnelCapacity,  \* the buffer of a tunnel receiver
          Items,           \* how many items a streaming handler sends
          IdSpace,         \* 2^32: channel ids are counted modulo IdSpace
          MayClose,        \* the sides whose application may call close()
          MayExit          \* the sides whose process may end

Tasks == Callers \cup Streamers

ASSUME SessionAssumption ==
    /\ IsFiniteSet(Sides) /\ Cardinality(Sides) = 2 /\ Initiator \in Sides
    /\ Callers \cap Streamers = {}
    /\ Home \in [Tasks -> Sides]
    /\ {MaxPending, WireCapacity, TunnelCapacity} \subseteq Nat \ {0}
    /\ Items \in Nat
    /\ IdSpace \in Nat /\ IdSpace % 2 = 0
    /\ MayClose \subseteq Sides /\ MayExit \subseteq Sides

Peer(x) == CHOOSE y \in Sides : y # x

VARIABLES
    wire,      \* [Sides -> Seq(frame)]: the frames on their way to each side
    closed,    \* the sides whose transport was closed
    gone,      \* the sides that no longer exist
    run_pc,    \* [Sides -> where run() is]
    cur,       \* [Sides -> the frame run() is handling, or <<>>]
    via,       \* [Sides -> the tunnel it is being routed to, or {}]
    ready,     \* the sides whose handshake_complete is set
    next_id,   \* [Sides -> next_channel_id]
    pending,   \* [Sides -> the callers with a waiter in the map]
    tunnels,   \* [Sides -> the streamers with a sender in the map]
    open_channels,
    handlers,  \* [Sides -> the dispatches under way]
    pc, chan,  \* of every task: where it is, and its channel
    inbox,     \* [Tasks -> Seq(frame)]: its oneshot or its tunnel receiver
    executed,  \* [Tasks -> Nat]: history: how often its request was dispatched
    got        \* [Tasks -> Seq]: history: what it was answered

run_vars == <<run_pc, cur, via>>
task_vars == <<pc, chan, inbox, got>>
vars == <<wire, closed, gone, run_pc, cur, via, ready, next_id, pending, tunnels,
          open_channels, handlers, pc, chan, inbox, executed, got>>

Frame(kind, c, t) == [kind |-> kind, chan |-> c, of |-> t, n |-> 0]
ItemFrame(c, t, i) == [kind |-> "item", chan |-> c, of |-> t, n |-> i]
Control(kind, c) == [kind |-> kind, chan |-> 0, of |-> c, n |-> 0]

\* The entry of a map for channel c, as a set.
On(map, c) == {t \in map : chan[t] = c}

Init ==
    /\ wire = [x \in Sides |-> <<>>]
    /\ closed = {} /\ gone = {}
    /\ run_pc = [x \in Sides |-> IF x = Initiator THEN "say_hello" ELSE "recv_hello"]
    /\ cur = [x \in Sides |-> <<>>]
    /\ via = [x \in Sides |-> {}]
    /\ ready = {}
    /\ next_id = [x \in Sides |-> IF x = Initiator THEN 1 ELSE 2]
    /\ pending = [x \in Sides |-> {}]
    /\ tunnels = [x \in Sides |-> {}]
    /\ open_channels = [x \in Sides |-> {}]
    /\ handlers = [x \in Sides |-> {}]
    /\ pc = [t \in Tasks |-> "idle"]
    /\ chan = [t \in Tasks |-> 0]
    /\ inbox = [t \in Tasks |-> <<>>]
    /\ executed = [t \in Tasks |-> 0]
    /\ got = [t \in Tasks |-> <<>>]

-----------------------------------------------------------------------------
(* MemTransport *)

\* send_frame looks at closed, then waits for room; a send that was waiting when
\* close() was called still goes through, so closed alone does not forbid it.
CanSend(x) ==
    /\ x \notin gone /\ Peer(x) \notin gone
    /\ Len(wire[Peer(x)]) < WireCapacity
SendFails(x) == x \notin gone /\ (x \in closed \/ Peer(x) \in gone)
Put(x, f) == wire' = [wire EXCEPT ![Peer(x)] = Append(@, f)]

\* recv_frame looks at closed once, before it waits for a frame.
HasFrame(x) == x \notin gone /\ wire[x] # <<>>
RecvFails(x) == x \notin gone /\ wire[x] = <<>> /\ Peer(x) \in gone
Take(x) == wire' = [wire EXCEPT ![x] = Tail(@)]

\* close() by the application.
Close(x) ==
    /\ x \in MayClose \ (closed \cup gone)
    /\ closed' = closed \cup {x}
    /\ UNCHANGED <<wire, gone, run_vars, ready, next_id, pending, tunnels, open_channels,
                   handlers, task_vars, executed>>

\* Process x exits: its tasks are no more, and its ends of the two channels drop.
Exit(x) ==
    /\ x \in MayExit \ gone
    /\ gone' = gone \cup {x}
    /\ wire' = [wire EXCEPT ![x] = <<>>]
    /\ UNCHANGED <<closed, run_vars, ready, next_id, pending, tunnels, open_channels,
                   handlers, task_vars, executed>>

-----------------------------------------------------------------------------
(* run(): perform_handshake *)

GotoRun(x, step) == run_pc' = [run_pc EXCEPT ![x] = step]

\* The acceptor is ready once its own Hello is sent.
SayHello(x) ==
    /\ run_pc[x] = "say_hello"
    /\ CanSend(x)
    /\ Put(x, Control("hello", 0))
    /\ GotoRun(x, IF x = Initiator THEN "recv_hello" ELSE "recv")
    /\ ready' = IF x = Initiator THEN ready ELSE ready \cup {x}
    /\ UNCHANGED <<closed, gone, cur, via, next_id, pending, tunnels, open_channels,
                   handlers, task_vars, executed>>

\* The initiator is ready once the peer's Hello has come.
HearHello(x) ==
    /\ run_pc[x] = "await_hello"
    /\ HasFrame(x)
    /\ Head(wire[x]).kind = "hello"
    /\ Take(x)
    /\ GotoRun(x, IF x = Initiator THEN "recv" ELSE "say_hello")
    /\ ready' = IF x = Initiator THEN ready \cup {x} ELSE ready
    /\ UNCHANGED <<closed, gone, cur, via, next_id, pending, tunnels, open_channels,
                   handlers, task_vars, executed>>

\* handshake_complete stays false: those who wait for it go on waiting.
HandshakeFails(x) ==
    /\ \/ run_pc[x] = "say_hello" /\ SendFails(x)
       \/ run_pc[x] = "await_hello" /\ RecvFails(x)
    /\ closed' = closed \cup {x}
    /\ GotoRun(x, "ended")
    /\ UNCHANGED <<wire, gone, cur, via, ready, next_id, pending, tunnels, open_channels,
                   handlers, task_vars, executed>>

-----------------------------------------------------------------------------
(* run(): the demux loop *)

\* Where recv_frame finds the transport closed, run() ends.
RecvBegin(x) ==
    /\ run_pc[x] \in {"recv", "recv_hello"} /\ x \notin gone
    /\ GotoRun(x, IF x \in closed THEN "ended"
                  ELSE IF run_pc[x] = "recv" THEN "wait" ELSE "await_hello")
    /\ UNCHANGED <<wire, closed, gone, cur, via, ready, next_id, pending, tunnels,
                   open_channels, handlers, task_vars, executed>>

RecvFrame(x) ==
    /\ run_pc[x] = "wait"
    /\ HasFrame(x)
    /\ Take(x)
    /\ cur' = [cur EXCEPT ![x] = Head(wire[x])]
    /\ GotoRun(x, "route")
    /\ UNCHANGED <<closed, gone, via, ready, next_id, pending, tunnels, open_channels,
                   handlers, task_vars, executed>>

\* Mutant of RecvClosed: a receive that fails is tried again.
RecvClosedRetried(x) ==
    /\ run_pc[x] = "wait"
    /\ RecvFails(x)
    /\ GotoRun(x, "recv")
    /\ UNCHANGED <<wire, closed, gone, cur, via, ready, next_id, pending, tunnels,
                   open_channels, handlers, task_vars, executed>>

RecvClosed(x) ==
    /\ run_pc[x] = "wait"
    /\ RecvFails(x)
    /\ GotoRun(x, "ended")
    /\ UNCHANGED <<wire, closed, gone, cur, via, ready, next_id, pending, tunnels,
                   open_channels, handlers, task_vars, executed>>

Routing(x) == run_pc[x] = "route" /\ x \notin gone
Tunnelled(x) == On(tunnels[x], cur[x].chan) # {}
Handled(x) == GotoRun(x, "recv") /\ cur' = [cur EXCEPT ![x] = <<>>]

\* try_route_to_tunnel: take a clone of the sender.
RouteToTunnel(x) ==
    /\ Routing(x) /\ Tunnelled(x)
    /\ via' = [via EXCEPT ![x] = On(tunnels[x], cur[x].chan)]
    /\ GotoRun(x, "tunnel")
    /\ UNCHANGED <<wire, closed, gone, cur, ready, next_id, pending, tunnels,
                   open_channels, handlers, task_vars, executed>>

\* The receiver of the task has not been dropped.
Listening(t) == pc[t] \in {"send_open", "send_request", "receiving", "await"}

\* Mutant of DeliverToTunnel: a frame the receiver has no room for is dropped.
DeliverToTunnelOrDrop(x) ==
    /\ run_pc[x] = "tunnel" /\ x \notin gone
    /\ \E t \in via[x] :
          /\ inbox' = IF Listening(t) /\ Len(inbox[t]) < TunnelCapacity
                      THEN [inbox EXCEPT ![t] = Append(@, cur[x])] ELSE inbox
          /\ tunnels' = IF Listening(t) /\ cur[x].kind = "item" THEN tunnels
                        ELSE [tunnels EXCEPT ![x] = @ \ On(@, cur[x].chan)]
    /\ via' = [via EXCEPT ![x] = {}]
    /\ Handled(x)
    /\ UNCHANGED <<wire, closed, gone, ready, next_id, pending, open_channels, handlers,
                   pc, chan, got, executed>>

\* ... and wait for room in it.  A dropped receiver, or EOS, ends the tunnel.
DeliverToTunnel(x) ==
    /\ run_pc[x] = "tunnel" /\ x \notin gone
    /\ \E t \in via[x] :
          /\ Listening(t) => Len(inbox[t]) < TunnelCapacity
          /\ inbox' = IF Listening(t) THEN [inbox EXCEPT ![t] = Append(@, cur[x])] ELSE inbox
          /\ tunnels' = IF Listening(t) /\ cur[x].kind = "item" THEN tunnels
                        ELSE [tunnels EXCEPT ![x] = @ \ On(@, cur[x].chan)]
    /\ via' = [via EXCEPT ![x] = {}]
    /\ Handled(x)
    /\ UNCHANGED <<wire, closed, gone, ready, next_id, pending, open_channels, handlers,
                   pc, chan, got, executed>>

\* try_route_to_pending; a response nobody waits for is dropped.
RouteResponse(x) ==
    /\ Routing(x) /\ ~Tunnelled(x) /\ cur[x].kind = "response"
    /\ LET waiter == On(pending[x], cur[x].chan)
       IN  /\ pending' = [pending EXCEPT ![x] = @ \ waiter]
           /\ inbox' = [t \in Tasks |-> IF t \in waiter /\ Listening(t)
                                        THEN <<cur[x]>> ELSE inbox[t]]
    /\ Handled(x)
    /\ UNCHANGED <<wire, closed, gone, via, ready, next_id, tunnels, open_channels,
                   handlers, pc, chan, got, executed>>

\* handle_control_frame: OpenChannel is noted, Hello and CancelChannel are not.
RouteControl(x) ==
    /\ Routing(x) /\ ~Tunnelled(x) /\ cur[x].kind \in {"hello", "open", "cancel"}
    /\ open_channels' = IF cur[x].kind = "open"
                        THEN [open_channels EXCEPT ![x] = @ \cup {cur[x].of}]
                        ELSE open_channels
    /\ Handled(x)
    /\ UNCHANGED <<wire, closed, gone, via, ready, next_id, pending, tunnels, handlers,
                   task_vars, executed>>

\* A frame without the DATA flag that was not routed yet is passed over.
SkipNonData(x) ==
    /\ Routing(x) /\ ~Tunnelled(x) /\ cur[x].kind \in {"error", "end"}
    /\ Handled(x)
    /\ UNCHANGED <<wire, closed, gone, via, ready, next_id, pending, tunnels,
                   open_channels, handlers, task_vars, executed>>

DataForHandler(x) ==
    Routing(x) /\ ~Tunnelled(x) /\ cur[x].kind \in {"request", "stream_request", "item"}

\* Data on a channel that the peer never opened: send_cancel_channel, in the loop.
RejectUnopened(x) ==
    /\ DataForHandler(x)
    /\ cur[x].chan \notin open_channels[x]
    /\ GotoRun(x, "cancel")
    /\ UNCHANGED <<wire, closed, gone, cur, via, ready, next_id, pending, tunnels,
                   open_channels, handlers, task_vars, executed>>

SendCancel(x) ==
    /\ run_pc[x] = "cancel"
    /\ \/ CanSend(x) /\ Put(x, Control("cancel", cur[x].chan))
       \/ SendFails(x) /\ UNCHANGED wire
    /\ Handled(x)
    /\ UNCHANGED <<closed, gone, via, ready, next_id, pending, tunnels, open_channels,
                   handlers, task_vars, executed>>

Dispatch(x) ==
    /\ DataForHandler(x)
    /\ cur[x].chan \in open_channels[x]
    /\ handlers' = [handlers EXCEPT ![x] = @ \cup
                       {[chan |-> cur[x].chan, of |-> cur[x].of, n |-> 0,
                         no_reply |-> cur[x].kind = "stream_request"]}]
    /\ executed' = [executed EXCEPT ![cur[x].of] = @ + 1]
    /\ Handled(x)
    /\ UNCHANGED <<wire, closed, gone, via, ready, next_id, pending, tunnels,
                   open_channels, task_vars>>

-----------------------------------------------------------------------------
(* The tasks run() spawns for the handlers *)

\* The frame goes out, or the handler ends with a warning.
HandlerSends(x, h, f, rest) ==
    /\ h \in handlers[x]
    /\ \/ CanSend(x) /\ Put(x, f)
          /\ handlers' = [handlers EXCEPT ![x] = (@ \ {h}) \cup rest]
       \/ SendFails(x) /\ UNCHANGED wire
          /\ handlers' = [handlers EXCEPT ![x] = @ \ {h}]
    /\ UNCHANGED <<closed, gone, run_vars, ready, next_id, pending, tunnels, open_channels,
                   task_vars, executed>>

Reply(x, h) == ~h.no_reply /\ HandlerSends(x, h, Frame("response", h.chan, h.of), {})

\* The handler returned Err or panicked, or the stream ended with an error: an
\* ERROR frame without RESPONSE.
ReplyError(x, h) == HandlerSends(x, h, Frame("error", h.chan, h.of), {})

\* dispatch_streaming of the generated server: the items, then EOS.
StreamItem(x, h) ==
    /\ h.no_reply /\ h.n < Items
    /\ HandlerSends(x, h, ItemFrame(h.chan, h.of, h.n + 1), {[h EXCEPT !.n = @ + 1]})
StreamEnd(x, h) ==
    /\ h.no_reply /\ h.n = Items
    /\ HandlerSends(x, h, Frame("end", h.chan, h.of), {})

\* A streaming handler panics: run() sends nothing for a request with NO_REPLY.
StreamPanics(x, h) ==
    /\ h \in handlers[x] /\ x \notin gone
    /\ h.no_reply
    /\ handlers' = [handlers EXCEPT ![x] = @ \ {h}]
    /\ UNCHANGED <<wire, closed, gone, run_vars, ready, next_id, pending, tunnels,
                   open_channels, task_vars, executed>>

-----------------------------------------------------------------------------
(* call() *)

Goto(t, step) == pc' = [pc EXCEPT ![t] = step]
At(t, step) == pc[t] = step /\ Home[t] \notin gone

\* Mutant of NextId: the counter is not advanced.
NextIdStuck(i) == i

NextId(i) == (i + 2) % IdSpace

\* The generated client takes a channel id, and call() waits for the handshake.
CallBegin(t) ==
    /\ t \in Callers /\ At(t, "idle")
    /\ chan' = [chan EXCEPT ![t] = next_id[Home[t]]]
    /\ next_id' = [next_id EXCEPT ![Home[t]] = NextId(@)]
    /\ Goto(t, "await_ready")
    /\ UNCHANGED <<wire, closed, gone, run_vars, ready, pending, tunnels, open_channels,
                   handlers, inbox, got, executed>>

\* register_pending; the map has one waiter for a channel.
Register(t) ==
    /\ t \in Callers /\ At(t, "await_ready")
    /\ Home[t] \in ready
    /\ \/ /\ Cardinality(pending[Home[t]]) < MaxPending
          /\ pending' = [pending EXCEPT ![Home[t]] = (@ \ On(@, chan[t])) \cup {t}]
          /\ Goto(t, "send_open")
       \/ /\ Cardinality(pending[Home[t]]) >= MaxPending
          /\ Goto(t, "gave_up")
          /\ UNCHANGED pending
    /\ UNCHANGED <<wire, closed, gone, run_vars, ready, next_id, tunnels, open_channels,
                   handlers, chan, inbox, got, executed>>

\* One send of a task: on to the next step, or out by the way of failure.
TaskSends(t, f, then, otherwise) ==
    /\ \/ CanSend(Home[t]) /\ Put(Home[t], f) /\ Goto(t, then)
       \/ SendFails(Home[t]) /\ Goto(t, otherwise) /\ UNCHANGED wire
    /\ UNCHANGED <<closed, gone, run_vars, ready, next_id, pending, tunnels, open_channels,
                   handlers, chan, inbox, got, executed>>

CallSendOpen(t) ==
    /\ t \in Callers /\ At(t, "send_open")
    /\ TaskSends(t, Control("open", chan[t]), "send_request", "unwind")

CallSendRequest(t) ==
    /\ t \in Callers /\ At(t, "send_request")
    /\ TaskSends(t, Frame("request", chan[t], t), "await", "unwind")

CallAnswered(t) ==
    /\ t \in Callers /\ At(t, "await")
    /\ inbox[t] # <<>>
    /\ got' = [got EXCEPT ![t] = <<Head(inbox[t]).of>>]
    /\ inbox' = [inbox EXCEPT ![t] = <<>>]
    /\ Goto(t, "answered")
    /\ UNCHANGED <<wire, closed, gone, run_vars, ready, next_id, pending, tunnels,
                   open_channels, handlers, chan, executed>>

LeaveCall(t) ==
    /\ Goto(t, "unwind")
    /\ UNCHANGED <<wire, closed, gone, run_vars, ready, next_id, pending, tunnels,
                   open_channels, handlers, chan, inbox, got, executed>>

\* Mutant of CallTimeout: a call whose waiter is still in the map waits on.
CallTimeoutUnarmed(t) ==
    t \in Callers /\ At(t, "await") /\ inbox[t] = <<>> /\ t \notin pending[Home[t]] /\ LeaveCall(t)

\* RAPACE_CALL_TIMEOUT_MS, which covers the wait for the answer only.  ("Response
\* channel closed" needs a second waiter on the channel: ids that wrap.)
CallTimeout(t) == t \in Callers /\ At(t, "await") /\ inbox[t] = <<>> /\ LeaveCall(t)

\* The caller drops the future at one of its awaits.
CallDropped(t) ==
    t \in Callers /\ (\E s \in {"send_open", "send_request", "await"} : At(t, s)) /\ LeaveCall(t)

\* Mutant of Unwind: there is no guard.
UnwindWithoutGuard(t) ==
    /\ t \in Callers /\ At(t, "unwind")
    /\ inbox' = [inbox EXCEPT ![t] = <<>>]
    /\ Goto(t, "gave_up")
    /\ UNCHANGED <<wire, closed, gone, run_vars, ready, next_id, pending, tunnels,
                   open_channels, handlers, chan, got, executed>>

\* Drop of PendingGuard: whatever waiter the channel has is removed.
Unwind(t) ==
    /\ t \in Callers /\ At(t, "unwind")
    /\ pending' = [pending EXCEPT ![Home[t]] = @ \ On(@, chan[t])]
    /\ inbox' = [inbox EXCEPT ![t] = <<>>]
    /\ Goto(t, "gave_up")
    /\ UNCHANGED <<wire, closed, gone, run_vars, ready, next_id, tunnels, open_channels,
                   handlers, chan, got, executed>>

-----------------------------------------------------------------------------
(* start_streaming_call() and the receiver it returns *)

\* wait_ready, then next_channel_id and register_tunnel.
StreamBegin(t) ==
    /\ t \in Streamers /\ At(t, "idle")
    /\ Home[t] \in ready
    /\ chan' = [chan EXCEPT ![t] = next_id[Home[t]]]
    /\ next_id' = [next_id EXCEPT ![Home[t]] = NextId(@)]
    /\ tunnels' = [tunnels EXCEPT ![Home[t]] = @ \cup {t}]
    /\ Goto(t, "send_open")
    /\ UNCHANGED <<wire, closed, gone, run_vars, ready, pending, open_channels, handlers,
                   inbox, got, executed>>

\* Mutant of StreamSendOpen: the channel is not opened first.
StreamSendOpenOmitted(t) ==
    /\ t \in Streamers /\ At(t, "send_open")
    /\ Goto(t, "send_request")
    /\ UNCHANGED <<wire, closed, gone, run_vars, ready, next_id, pending, tunnels,
                   open_channels, handlers, chan, inbox, got, executed>>

\* A failed send drops the receiver but leaves the sender in the map.
StreamSendOpen(t) ==
    /\ t \in Streamers /\ At(t, "send_open")
    /\ TaskSends(t, Control("open", chan[t]), "send_request", "gave_up")

StreamSendRequest(t) ==
    /\ t \in Streamers /\ At(t, "send_request")
    /\ TaskSends(t, Frame("stream_request", chan[t], t), "receiving", "gave_up")

StreamReceive(t) ==
    /\ t \in Streamers /\ At(t, "receiving")
    /\ inbox[t] # <<>>
    /\ inbox' = [inbox EXCEPT ![t] = Tail(@)]
    /\ \/ /\ Head(inbox[t]).kind = "item"
          /\ got' = [got EXCEPT ![t] = Append(@, Head(inbox[t]).n)]
          /\ UNCHANGED pc
       \/ /\ Head(inbox[t]).kind # "item"
          /\ Goto(t, IF Head(inbox[t]).kind = "end" THEN "answered" ELSE "failed")
          /\ UNCHANGED got
    /\ UNCHANGED <<wire, closed, gone, run_vars, ready, next_id, pending, tunnels,
                   open_channels, handlers, chan, executed>>

\* The application drops the receiver: nobody is told.
StreamDropped(t) ==
    /\ t \in Streamers /\ At(t, "receiving")
    /\ inbox' = [inbox EXCEPT ![t] = <<>>]
    /\ Goto(t, "gave_up")
    /\ UNCHANGED <<wire, closed, gone, run_vars, ready, next_id, pending, tunnels,
                   open_channels, handlers, chan, got, executed>>

-----------------------------------------------------------------------------
RunStep(x) ==
    \/ SayHello(x) \/ HearHello(x) \/ HandshakeFails(x)
    \/ RecvBegin(x) \/ RecvFrame(x) \/ RecvClosed(x)
    \/ RouteToTunnel(x) \/ DeliverToTunnel(x) \/ RouteResponse(x) \/ RouteControl(x)
    \/ SkipNonData(x) \/ RejectUnopened(x) \/ SendCancel(x) \/ Dispatch(x)

HandlerStep(x, h) ==
    \/ Reply(x, h) \/ ReplyError(x, h)
    \/ StreamItem(x, h) \/ StreamEnd(x, h) \/ StreamPanics(x, h)

CallStep(t) ==
    \/ Register(t) \/ CallSendOpen(t) \/ CallSendRequest(t) \/ CallAnswered(t)
    \/ CallTimeout(t) \/ Unwind(t)

StreamStep(t) == StreamSendOpen(t) \/ StreamSendRequest(t) \/ StreamReceive(t)

Next ==
    \/ \E x \in Sides : Close(x) \/ Exit(x) \/ RunStep(x)
    \/ \E x \in Sides : \E h \in handlers[x] : HandlerStep(x, h)
    \/ \E t \in Callers : CallBegin(t) \/ CallStep(t) \/ CallDropped(t)
    \/ \E t \in Streamers : StreamBegin(t) \/ StreamStep(t) \/ StreamDropped(t)

Spec == Init /\ [][Next]_vars

\* The runtime keeps polling run() and the calls, timers fire, and a stream that
\* was not dropped is read.  Handlers need not finish.
FairSpec ==
    /\ Spec
    /\ \A x \in Sides : WF_vars(RunStep(x))
    /\ \A t \in Callers : WF_vars(CallStep(t))
    /\ \A t \in Streamers : WF_vars(StreamStep(t))

-----------------------------------------------------------------------------
(* Properties *)

Ids == 0 .. IdSpace - 1
Kinds == {"hello", "open", "cancel", "request", "stream_request", "response",
          "error", "item", "end"}
Frames == [kind : Kinds, chan : Ids, of : Tasks \cup Ids, n : 0 .. Items]

\* Every variable stays within its type, and no queue exceeds its capacity.
TypeOK ==
    /\ \A x \in Sides : wire[x] \in Seq(Frames) /\ Len(wire[x]) <= WireCapacity
    /\ closed \subseteq Sides /\ gone \subseteq Sides /\ ready \subseteq Sides
    /\ run_pc \in [Sides -> {"say_hello", "recv_hello", "await_hello", "recv", "wait",
                             "route", "tunnel", "cancel", "ended"}]
    /\ \A x \in Sides : cur[x] \in Frames \cup {<<>>} /\ via[x] \subseteq Streamers
    /\ next_id \in [Sides -> Ids]
    /\ \A x \in Sides : pending[x] \subseteq Callers /\ Cardinality(pending[x]) <= MaxPending
    /\ \A x \in Sides : tunnels[x] \subseteq Streamers /\ open_channels[x] \subseteq Ids
    /\ \A x \in Sides : handlers[x] \subseteq
                            [chan : Ids, of : Tasks, n : 0 .. Items, no_reply : BOOLEAN]
    /\ pc \in [Tasks -> {"idle", "await_ready", "send_open", "send_request", "await",
                         "unwind", "receiving", "answered", "gave_up", "failed"}]
    /\ chan \in [Tasks -> Ids]
    /\ \A t \in Tasks : inbox[t] \in Seq(Frames) /\ Len(inbox[t]) <= TunnelCapacity
    /\ executed \in [Tasks -> Nat]

\* Every call is one of RpcCalls: its handler runs at most once, and it gets
\* the answer to its own request whatever else is on the wire.
Calls == INSTANCE RpcCalls
    WITH phase <- [t \in Callers |->
                     CASE pc[t] \in {"idle", "await_ready"} -> "new"
                       [] pc[t] = "answered" -> "answered"
                       [] pc[t] \in {"unwind", "gave_up"} -> "given_up"
                       [] OTHER -> "called"],
         executed <- [t \in Callers |-> executed[t]],
         answer <- [t \in Callers |-> {got[t][i] : i \in DOMAIN got[t]}]

CallsAreCorrelated == Calls!Spec

\* The map of waiters holds the calls under way that have no answer yet, and
\* nothing else: PendingGuard leaves no waiter behind and takes nobody else's.
PendingExact ==
    \A t \in Callers :
        /\ t \in pending[Home[t]] =>
              pc[t] \in {"send_open", "send_request", "await", "unwind"} /\ inbox[t] = <<>>
        /\ pc[t] \in {"send_open", "send_request", "await"} /\ inbox[t] = <<>> =>
              t \in pending[Home[t]]

\* A stream hands out the items of its own handler in order, none missing, and
\* ends only after the last one.
StreamInOrder ==
    \A t \in Streamers : /\ got[t] = [i \in 1 .. Len(got[t]) |-> i]
                         /\ pc[t] = "answered" => Len(got[t]) = Items

\* No request is rejected, since its OpenChannel precedes it; what is rejected are
\* the items of a stream whose receiver was dropped.
OnlyAbandonedRejected ==
    \A x \in Sides : run_pc[x] = "cancel" =>
        cur[x].kind = "item" /\ pc[cur[x].of] = "gave_up"

\* A call that got past register_pending ends, though the handler may hang, the
\* peer exit, its own side close, or a stream of the same session be dropped.
\* (Where the peer closes and does not exit, a send into a full wire never ends.)
EveryCallEnds ==
    \A t \in Callers :
        pc[t] = "send_open" ~> pc[t] \in {"answered", "gave_up"} \/ Home[t] \in gone

\* When its peer has exited, run() comes to an end.
PeerExitEndsRun ==
    \A x \in Sides : Peer(x) \in gone ~> run_pc[x] = "ended" \/ x \in gone

\* "If a service handler panics, without this the client can hang forever": once
\* the loop is done with an ERROR frame, the call it answers has it.
ErrorReachesCaller ==
    [][\A x \in Sides :
          cur[x] # <<>> /\ cur[x].kind = "error" /\ cur'[x] = <<>> =>
              \A t \in On(pending[x], cur[x].chan) : inbox'[t] # <<>>]_vars

\* "The run() loop will exit once the transport is closed and all pending frames
\* are processed."
CloseEndsRun == \A x \in Sides : x \in closed ~> run_pc[x] = "ended"

\* The two loops never wait for each other to read.
LoopsNotStuck ==
    ~ \A x \in Sides : run_pc[x] = "cancel" /\ Len(wire[Peer(x)]) = WireCapacity
====
