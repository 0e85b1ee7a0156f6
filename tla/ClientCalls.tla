---- MODULE ClientCalls ----
(***************************************************************************)
(* The clients in other languages: TypeScript over a WebSocket             *)
(* (typescript/src/rapace/client.ts and transport.ts) and Swift over TCP   *)
(* (swift/Sources/Rapace/RapaceClient.swift, Transport/TCPConnection.swift).*)
(* Both number their calls, keep a map of calls that wait, and have a loop *)
(* that reads frames off a byte stream and settles the call a frame names. *)
(*                                                                         *)
(* TypeScript runs on an event loop: an event handler and the microtasks   *)
(* it wakes run before the next event.  The Swift client is an actor: its  *)
(* methods interleave at each await.                                       *)
(*                                                                         *)
(* A frame is two units on the stream, its head (length and descriptor)    *)
(* and its body, which arrive together or apart.  The server is external:  *)
(* it answers requests in any order, adds frames nobody asked for and      *)
(* frames too short for a descriptor, and goes away at any time.           *)
(***************************************************************************)
EXTENDS Integers, Sequences, FiniteSets, SequencesExt

CONSTANTS
    Kinds,        \* the clients under check, of {"ts", "swift"}
    Callers,      \* each makes one call
    Nobody,       \* the addressee of a frame no call waits for
    MaxOdd        \* bound on unasked and short frames

ASSUME ClientAssumption ==
    /\ Kinds \subseteq {"ts", "swift"} /\ Kinds # {}
    /\ Nobody \notin Callers /\ MaxOdd \in Nat

Answers == [of : Callers, msgId : 1 .. Cardinality(Callers), what : {"ok", "error"}]
Stray == [of |-> Nobody, msgId |-> 0, what |-> "ok"]
Short == [of |-> Nobody, msgId |-> 0, what |-> "short"]
Torn == [of |-> Nobody, msgId |-> 0, what |-> "torn"]  \* halves of two frames
AllFrames == Answers \cup {Stray, Short}

VARIABLES
    kind,                   \* which client this is
    state, id, result,      \* per caller: idle, waiting, done; its msgId; its outcome
    settled,                \* how often its promise or continuation was resumed
    toSend,                 \* callers whose frame is still to be handed to the socket
    nextMsgId, pending,     \* the ids in the map of waiting calls
    running,                \* not `closed` (TypeScript), isRunning (Swift)
    loop,                   \* "on"; "ended" by an error; "left" through its condition
    socket,                 \* "open", "closed" by this side, "gone": onclose has fired
    closing,                \* the steps of Swift's close()
    buf,                    \* pendingData, or the head read by receive(exactly: 4)
    queue,                  \* receiveQueue, the frame given to the waiter included
    conn,                   \* "up"; "fin": the server closed; "lost"
    reqs, wire,             \* requests at the server, units on their way back
    sent, handled,          \* the frames the server sent, those the loop consumed
    odd,
    loopWasOn               \* the callers that registered while the loop ran

app == <<state, id, result, settled, pending>>
net == <<conn, reqs, wire, sent, odd>>
vars == <<kind, app, toSend, nextMsgId, running, loop, socket, closing, buf, queue,
          net, handled, loopWasOn>>

Units(f) == <<[frame |-> f, part |-> "head"], [frame |-> f, part |-> "body"]>>
AllUnits == [frame : AllFrames, part : {"head", "body"}]
\* What a reader makes of two units in a row.
FrameOf(u, v) ==
    IF u.part = "head" /\ v.part = "body" /\ u.frame = v.frame THEN u.frame ELSE Torn

TypeOK ==
    /\ kind \in Kinds
    /\ state \in [Callers -> {"idle", "waiting", "done"}]
    /\ id \in [Callers -> 0 .. Cardinality(Callers)]
    /\ result \in [Callers -> Callers \cup {"none", "error", "failed", "closed"}]
    /\ settled \in [Callers -> Nat]
    /\ toSend \subseteq Callers
    /\ nextMsgId \in 1 .. Cardinality(Callers) + 1
    /\ pending \subseteq 1 .. Cardinality(Callers)
    /\ running \in BOOLEAN
    /\ loop \in {"on", "ended", "left"}
    /\ socket \in {"open", "closed", "gone"}
    /\ closing \in {"no", "connection", "pending", "done"}
    /\ buf \in Seq(AllUnits) /\ Len(buf) <= 1
    /\ queue \in Seq(AllFrames \cup {Torn})
    /\ conn \in {"up", "fin", "lost"}
    /\ reqs \subseteq Callers
    /\ wire \in Seq(AllUnits)
    /\ sent \in Seq(AllFrames)
    /\ handled \in Seq(AllFrames \cup {Torn})
    /\ odd \in 0 .. MaxOdd
    /\ loopWasOn \subseteq Callers

Init ==
    /\ kind \in Kinds
    /\ state = [c \in Callers |-> "idle"]
    /\ id = [c \in Callers |-> 0]
    /\ result = [c \in Callers |-> "none"]
    /\ settled = [c \in Callers |-> 0]
    /\ toSend = {} /\ nextMsgId = 1 /\ pending = {}
    /\ running = TRUE /\ loop = "on" /\ socket = "open" /\ closing = "no"
    /\ buf = <<>> /\ queue = <<>>
    /\ conn = "up" /\ reqs = {} /\ wire = <<>>
    /\ sent = <<>> /\ handled = <<>> /\ odd = 0
    /\ loopWasOn = {}

-----------------------------------------------------------------------------
(* Settling calls.                                                          *)

\* The entries of the map with these ids are settled, each with its outcome,
\* and removed.  A promise settled again ignores it, and a call that threw
\* before it awaited its promise is done already.
Settle(ids, outcome) ==
    LET S == {c \in Callers : id[c] \in ids \cap pending}
        W == {c \in S : state[c] = "waiting"}
    IN  /\ state' = [c \in Callers |-> IF c \in W THEN "done" ELSE state[c]]
        /\ result' = [c \in Callers |-> IF c \in W THEN outcome[c] ELSE result[c]]
        /\ settled' = [c \in Callers |-> IF c \in S THEN settled[c] + 1 ELSE settled[c]]
        /\ pending' = pending \ ids
        /\ UNCHANGED id

\* Mutant: the map is not cleared.
RejectAllKeeping(r) ==
    LET S == {c \in Callers : id[c] \in pending}
    IN  /\ state' = [c \in Callers |-> IF c \in S THEN "done" ELSE state[c]]
        /\ result' = [c \in Callers |-> IF c \in S THEN r ELSE result[c]]
        /\ settled' = [c \in Callers |-> IF c \in S THEN settled[c] + 1 ELSE settled[c]]
        /\ UNCHANGED <<id, pending>>

RejectAll(r) == Settle(pending, [c \in Callers |-> r])

\* A frame too short ends in `continue` (Swift), one with an id nobody waits
\* for is ignored.
HandleFrame(f) ==
    /\ Settle(IF f.what \in {"ok", "error"} THEN {f.msgId} ELSE {},
              [c \in Callers |-> IF f.what = "error" THEN "error" ELSE f.of])
    /\ handled' = Append(handled, f)

-----------------------------------------------------------------------------
(* call()                                                                   *)

Register(c) ==
    /\ id' = [id EXCEPT ![c] = nextMsgId]
    /\ nextMsgId' = nextMsgId + 1
    /\ pending' = pending \cup {nextMsgId}
    /\ loopWasOn' = IF loop = "on" THEN loopWasOn \cup {c} ELSE loopWasOn

\* A send that throws leaves the entry in the map.
CallTs(c) ==
    /\ kind = "ts" /\ state[c] = "idle"
    /\ IF running
       THEN /\ Register(c)
            /\ IF socket # "open"
               THEN /\ state' = [state EXCEPT ![c] = "done"]
                    /\ result' = [result EXCEPT ![c] = "failed"]
                    /\ UNCHANGED toSend
               ELSE /\ state' = [state EXCEPT ![c] = "waiting"]
                    /\ toSend' = toSend \cup {c}
                    /\ UNCHANGED result
       ELSE /\ state' = [state EXCEPT ![c] = "done"]
            /\ result' = [result EXCEPT ![c] = "closed"]
            /\ UNCHANGED <<id, nextMsgId, pending, toSend, loopWasOn>>
    /\ UNCHANGED <<kind, settled, running, loop, socket, closing, buf, queue, net, handled>>

\* The call does not ask whether the client still runs.
CallSwift(c) ==
    /\ kind = "swift" /\ state[c] = "idle"
    /\ Register(c)
    /\ state' = [state EXCEPT ![c] = "waiting"]
    /\ toSend' = toSend \cup {c}
    /\ UNCHANGED <<kind, result, settled, running, loop, socket, closing, buf, queue,
                   net, handled>>

\* The microtask after `await connectionPromise`: a socket that is closing
\* takes the bytes and throws them away.
SendTs(c) ==
    /\ kind = "ts" /\ c \in toSend
    /\ toSend' = toSend \ {c}
    /\ reqs' = IF socket = "open" /\ conn = "up" THEN reqs \cup {c} ELSE reqs
    /\ UNCHANGED <<kind, app, nextMsgId, running, loop, socket, closing, buf, queue,
                   conn, wire, sent, odd, handled, loopWasOn>>

\* The task call() spawned.
SendSwift(c) ==
    /\ kind = "swift" /\ c \in toSend
    /\ socket = "open"
    /\ toSend' = toSend \ {c}
    /\ reqs' = IF conn = "up" THEN reqs \cup {c} ELSE reqs
    /\ UNCHANGED <<kind, app, nextMsgId, running, loop, socket, closing, buf, queue,
                   conn, wire, sent, odd, handled, loopWasOn>>

SendError(c) ==
    /\ kind = "swift" /\ c \in toSend
    /\ socket # "open" \/ conn # "up"
    /\ toSend' = toSend \ {c}
    /\ Settle({id[c]}, [o \in Callers |-> "failed"])
    /\ UNCHANGED <<kind, nextMsgId, running, loop, socket, closing, buf, queue, net,
                   handled, loopWasOn>>

-----------------------------------------------------------------------------
(* The server and the network: external.                                    *)

Put(f) == wire' = wire \o Units(f) /\ sent' = Append(sent, f)

Answer(c) ==
    /\ conn = "up" /\ c \in reqs
    /\ reqs' = reqs \ {c}
    /\ \E w \in {"ok", "error"} : Put([of |-> c, msgId |-> id[c], what |-> w])
    /\ UNCHANGED <<kind, app, toSend, nextMsgId, running, loop, socket, closing, buf, queue,
                   conn, odd, handled, loopWasOn>>

OddFrame ==
    /\ conn = "up" /\ odd < MaxOdd
    /\ odd' = odd + 1
    /\ \E f \in {Stray, Short} : Put(f)
    /\ UNCHANGED <<kind, app, toSend, nextMsgId, running, loop, socket, closing, buf, queue,
                   conn, reqs, handled, loopWasOn>>

\* What is on its way still arrives, or is cut short anywhere.
Disconnect ==
    /\ conn = "up"
    /\ \/ conn' = "fin" /\ UNCHANGED wire
       \/ conn' = "lost" /\ \E n \in 0 .. Len(wire) : wire' = SubSeq(wire, 1, n)
    /\ UNCHANGED <<kind, app, toSend, nextMsgId, running, loop, socket, closing, buf, queue,
                   reqs, sent, odd, handled, loopWasOn>>

-----------------------------------------------------------------------------
(* TypeScript: WebSocketTransport and the receive loop.                     *)

\* The next event waits for the microtasks: the loop drains the queue.
BetweenEvents == kind = "ts" /\ (queue # <<>> => loop # "on")

\* Mutant: half a frame at the end of a message is forgotten.
RestForgotten(us) == <<>>

\* The frames of a run of units, as the loop of handleMessage finds them, and
\* what is left of it.
Parse(us) == [i \in 1 .. Len(us) \div 2 |-> FrameOf(us[2 * i - 1], us[2 * i])]
Rest(us) == SubSeq(us, 2 * (Len(us) \div 2) + 1, Len(us))

\* One message of any number of units.  A short frame closes the transport;
\* frames before it are in the queue by then, and if the loop was waiting for
\* them its waiter is served, otherwise its waiter is rejected.
OnMessage ==
    /\ BetweenEvents /\ socket = "open"
    /\ \E n \in 1 .. Len(wire) :
        LET us == buf \o SubSeq(wire, 1, n)
            fs == Parse(us)
            good == SelectInSeq(fs, LAMBDA f : f.what = "short") - 1   \* -1: all of them
        IN  /\ wire' = SubSeq(wire, n + 1, Len(wire))
            /\ IF good = -1
               THEN /\ queue' = queue \o fs
                    /\ buf' = Rest(us)
                    /\ UNCHANGED <<app, loop, socket>>
               ELSE /\ queue' = queue \o SubSeq(fs, 1, good)
                    /\ socket' = "closed"
                    /\ buf' = <<>>
                    /\ IF good = 0 /\ loop = "on"
                       THEN RejectAll("failed") /\ loop' = "ended"
                       ELSE UNCHANGED <<app, loop>>
    /\ UNCHANGED <<kind, toSend, nextMsgId, running, closing, conn, reqs, sent, odd,
                   handled, loopWasOn>>

\* Mutant: the waiters are left waiting.
OnCloseSilently ==
    /\ BetweenEvents /\ socket # "gone"
    /\ socket = "closed" \/ (conn # "up" /\ wire = <<>>)
    /\ socket' = "gone"
    /\ UNCHANGED <<kind, app, loop, toSend, nextMsgId, running, closing, buf, queue, net, handled,
                   loopWasOn>>

\* Close of the WebSocket, after its last message: waiters are rejected, and
\* the loop, if it waits, rejects the calls.
OnClose ==
    /\ BetweenEvents /\ socket # "gone"
    /\ socket = "closed" \/ (conn # "up" /\ wire = <<>>)
    /\ socket' = "gone"
    /\ IF loop = "on"
       THEN /\ loop' = "ended"
            /\ IF running THEN RejectAll("failed") ELSE UNCHANGED app
       ELSE UNCHANGED <<app, loop>>
    /\ UNCHANGED <<kind, toSend, nextMsgId, running, closing, buf, queue, net, handled,
                   loopWasOn>>

\* One turn of the loop: the frame recv() returned, then the while condition.
\* A loop that leaves through the condition rejects nothing.
LoopTurn ==
    /\ kind = "ts" /\ loop = "on" /\ queue # <<>>
    /\ HandleFrame(Head(queue))
    /\ queue' = Tail(queue)
    /\ loop' = IF running /\ socket = "open" THEN "on" ELSE "left"
    /\ UNCHANGED <<kind, toSend, nextMsgId, running, socket, closing, buf, net, loopWasOn>>

CloseTs ==
    /\ kind = "ts" /\ running
    /\ running' = FALSE
    /\ socket' = IF socket = "open" THEN "closed" ELSE socket
    /\ RejectAll("closed")
    /\ UNCHANGED <<kind, toSend, nextMsgId, loop, closing, buf, queue, net, handled, loopWasOn>>

-----------------------------------------------------------------------------
(* Swift: readLoop() and close().                                           *)

CanReceive == kind = "swift" /\ loop = "on" /\ socket = "open"

ReadHead ==
    /\ CanReceive /\ buf = <<>> /\ wire # <<>>
    /\ buf' = <<Head(wire)>>
    /\ wire' = Tail(wire)
    /\ UNCHANGED <<kind, app, toSend, nextMsgId, running, loop, socket, closing, queue,
                   conn, reqs, sent, odd, handled, loopWasOn>>

ReadBody ==
    /\ CanReceive /\ buf # <<>> /\ wire # <<>>
    /\ HandleFrame(FrameOf(Head(buf), Head(wire)))
    /\ buf' = <<>>
    /\ wire' = Tail(wire)
    /\ loop' = IF running THEN "on" ELSE "left"
    /\ UNCHANGED <<kind, toSend, nextMsgId, running, socket, closing, queue,
                   conn, reqs, sent, odd, loopWasOn>>

ReadFails ==
    /\ kind = "swift" /\ loop = "on"
    /\ socket # "open" \/ conn = "lost" \/ (conn = "fin" /\ wire = <<>>)
    /\ RejectAll("failed")
    /\ loop' = "ended"
    /\ UNCHANGED <<kind, toSend, nextMsgId, running, socket, closing, buf, queue, net,
                   handled, loopWasOn>>

CloseBegin ==
    /\ kind = "swift" /\ closing = "no"
    /\ running' = FALSE
    /\ closing' = "connection"
    /\ UNCHANGED <<kind, app, toSend, nextMsgId, loop, socket, buf, queue, net, handled, loopWasOn>>

CloseConnection ==
    /\ closing = "connection"
    /\ socket' = "closed"
    /\ closing' = "pending"
    /\ UNCHANGED <<kind, app, toSend, nextMsgId, running, loop, buf, queue, net, handled, loopWasOn>>

CloseFailsPending ==
    /\ closing = "pending"
    /\ closing' = "done"
    /\ RejectAll("closed")
    /\ UNCHANGED <<kind, toSend, nextMsgId, running, loop, socket, buf, queue, net, handled, loopWasOn>>

-----------------------------------------------------------------------------
Client ==
    \/ \E c \in Callers : SendTs(c) \/ SendSwift(c) \/ SendError(c)
    \/ OnMessage \/ OnClose \/ LoopTurn
    \/ ReadHead \/ ReadBody \/ ReadFails
    \/ CloseConnection \/ CloseFailsPending

Next ==
    \/ \E c \in Callers : CallTs(c) \/ CallSwift(c) \/ Answer(c)
    \/ OddFrame \/ Disconnect \/ CloseTs \/ CloseBegin
    \/ Client

\* The runtime of the client goes on with what can go on; nothing is asked of
\* the server, of the network or of the application.
FairSpec == Init /\ [][Next]_vars /\ WF_vars(Client)

-----------------------------------------------------------------------------
\* The loop consumes the frames of the server whole and in order, however the
\* stream cuts them (transport.ts:91, RapaceClient.swift:72).
FramesInOrder == IsPrefix(handled, sent)

\* A call that ends with an answer ends with the answer to its own request
\* (client.ts:185, RapaceClient.swift:91).
OwnAnswers == \A c \in Callers : result[c] \in Callers => result[c] = c

\* A caller that waits is in the map and not settled yet, and nothing is
\* settled twice, which for a CheckedContinuation is a trap
\* (RapaceClient.swift:39): whichever of the answer, the failed send, the end
\* of the loop and close() comes first takes the entry out.
SettledOnce ==
    \A c \in Callers :
        /\ settled[c] <= 1
        /\ state[c] = "waiting" => settled[c] = 0 /\ id[c] \in pending

\* Once it is answered, or the connection or the client is closed, a call that
\* waits ends (client.ts:159, RapaceClient.swift:126, 57).  Left out are a
\* Swift call made after the loop has ended, and the calls that wait when the
\* TypeScript loop leaves through its condition: both wait for ever.
CallsEnd ==
    \A c \in Callers :
        (/\ state[c] = "waiting"
         /\ c \in loopWasOn
         /\ conn # "up" \/ ~running \/ \E i \in DOMAIN sent : sent[i].of = c)
        ~> (state[c] = "done" \/ (kind = "ts" /\ loop = "left"))

\* Fails: the same without what it leaves out.
EveryCallEnds ==
    \A c \in Callers : (state[c] = "waiting" /\ conn # "up") ~> (state[c] = "done")

\* Fails: a call that found the transport closed threw and left its promise in
\* the map (client.ts:246); close() rejects it though nobody can handle that.
NoUnhandledRejection ==
    [][\A c \in Callers : state[c] = "done" => settled'[c] = settled[c]]_vars
====
