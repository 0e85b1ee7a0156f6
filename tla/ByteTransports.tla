---- MODULE ByteTransports ----
(***************************************************************************)
(* The transports over a byte stream (rust/rapace-core/src/transport/      *)
(* stream.rs) and over a WebSocket (transport/websocket.rs, on tokio and   *)
(* in the browser): one direction of a connection, side A sending, side B  *)
(* receiving in a loop, as the session does.                               *)
(*                                                                         *)
(* stream: send_frame writes length, descriptor and payload under a lock,  *)
(*   each write an await at which the future may be dropped; close() only  *)
(*   sets a flag, dropping the transport ends the stream.                  *)
(* native: send_frame puts the frame into a queue, a writer task carries   *)
(*   it to the socket, a reader task from the socket to a second queue;    *)
(*   the tasks own a part of the transport, so that dropping it ends       *)
(*   nothing; close() sends a message.                                     *)
(* wasm: send_frame hands the frame to the browser; recv_frame polls what  *)
(*   the event handlers collected.                                         *)
(***************************************************************************)
EXTENDS Integers, Sequences, FiniteSets, SequencesExt

CONSTANTS
    Links,        \* the pairs of kinds to check: <<A's kind, B's kind>>
    Tasks,        \* tasks of A, one send_frame each
    WithBody,     \* those whose frame has a payload
    NoTask,
    CLOSE,        \* OutMsg::Close, and the close frame it becomes
    StreamCap,    \* units the byte stream takes before a write waits
    QueueCap,     \* room in the queues of the native transport, 64 in the code
    Cancels,      \* may a send_frame be dropped while it waits?
    Breaks        \* may the connection break?

ASSUME ByteAssumption ==
    /\ Links \subseteq {<<"stream", "stream">>, <<"native", "native">>,
                        <<"wasm", "native">>, <<"native", "wasm">>}
    /\ WithBody \subseteq Tasks /\ NoTask \notin Tasks /\ CLOSE \notin Tasks
    /\ StreamCap \in Nat \ {0} /\ QueueCap \in Nat \ {0}
    /\ Cancels \in BOOLEAN /\ Breaks \in BOOLEAN

\* The parts of a frame on the byte stream, in the order of the writes.
Parts(t) == IF t \in WithBody THEN <<"len", "desc", "body">> ELSE <<"len", "desc">>

VARIABLES
    link,
    pc, returned,        \* per task of A
    lock,                \* the writer's mutex
    accepted,            \* tasks in the order their frames got their place
    cut,                 \* tasks dropped with their frame half written
    closedA, droppedA, closeMark, closeSent,
    out, writer,         \* the native queue to the writer task; "on", "off"
    transit,             \* units or messages between the ends
    broken,
    in, reader,          \* what the reader task or the handlers collected
    closedB, byB,        \* B's flag, and whether B itself set it
    answered,            \* has the close frame of B reached A?
    rpc, read,           \* the receiving loop, the units of the frame it reads
    got, outcome

aSide == <<pc, returned, lock, accepted, cut, out, writer>>
ends == <<closedA, droppedA, closeMark, closeSent, closedB, byB, answered>>
bSide == <<in, reader, rpc, read, got, outcome>>
linkVars == <<link, aSide, ends, transit, broken, bSide>>

A == link[1]
B == link[2]
NoMark == -1                       \* close() was not called

LinkTypeOK ==
    /\ link \in Links
    /\ pc \in [Tasks -> {"idle", "lock", "len", "desc", "body", "flush", "queue", "done"}]
    /\ returned \in [Tasks -> {"none", "ok", "closed", "io", "cancelled"}]
    /\ lock \in Tasks \cup {NoTask}
    /\ accepted \in Seq(Tasks)
    /\ cut \subseteq Tasks
    /\ out \in Seq(Tasks \cup {CLOSE}) /\ Len(out) <= QueueCap
    /\ writer \in {"on", "off"} /\ reader \in {"on", "off"}
    /\ transit \in Seq(Tasks \cup {CLOSE} \cup (Tasks \X {"len", "desc", "body"}))
    /\ in \in Seq(Tasks)
    /\ B = "native" => Len(in) <= QueueCap
    /\ closeMark \in {NoMark} \cup (0 .. Len(accepted))
    /\ {closedA, droppedA, closeSent, closedB, byB, answered, broken} \subseteq BOOLEAN
    /\ rpc \in {"idle", "wait", "read", "lost", "ended"}
    /\ read \in Seq(Tasks \X {"len", "desc", "body"})
    /\ got \in Seq(Tasks)
    /\ outcome \in {"none", "closed", "io"}

LinkInit ==
    /\ link \in Links
    /\ pc = [t \in Tasks |-> "idle"]
    /\ returned = [t \in Tasks |-> "none"]
    /\ lock = NoTask /\ accepted = <<>> /\ cut = {}
    /\ closedA = FALSE /\ droppedA = FALSE /\ closeMark = NoMark /\ closeSent = FALSE
    /\ out = <<>> /\ writer = "on"
    /\ transit = <<>> /\ broken = FALSE
    /\ in = <<>> /\ reader = "on"
    /\ closedB = FALSE /\ byB = FALSE /\ answered = FALSE
    /\ rpc = "idle" /\ read = <<>> /\ got = <<>> /\ outcome = "none"

End(t, r) == /\ pc' = [pc EXCEPT ![t] = "done"]
             /\ returned' = [returned EXCEPT ![t] = r]

-----------------------------------------------------------------------------
(* send_frame                                                               *)

\* The flag is looked at once, before the first await.
SendStart(t) ==
    /\ pc[t] = "idle" /\ ~droppedA
    /\ IF closedA
       THEN End(t, "closed") /\ UNCHANGED <<accepted, transit>>
       ELSE CASE A = "stream" -> /\ pc' = [pc EXCEPT ![t] = "lock"]
                                 /\ UNCHANGED <<returned, accepted, transit>>
              [] A = "native" -> /\ pc' = [pc EXCEPT ![t] = "queue"]
                                 /\ UNCHANGED <<returned, accepted, transit>>
              [] A = "wasm"   -> IF broken \/ answered
                                 THEN /\ End(t, IF answered THEN "closed" ELSE "io")
                                      /\ UNCHANGED <<accepted, transit>>
                                 ELSE /\ End(t, "ok")
                                      /\ accepted' = Append(accepted, t)
                                      /\ transit' = Append(transit, t)
    /\ UNCHANGED <<link, lock, cut, out, writer, ends, broken, bSide>>

LockWriter(t) ==
    /\ pc[t] = "lock" /\ lock = NoTask
    /\ lock' = t
    /\ pc' = [pc EXCEPT ![t] = "len"]
    /\ UNCHANGED <<link, returned, accepted, cut, out, writer, ends, transit, broken, bSide>>

\* The part after p, or the flush.
After(t, p) == LET i == SelectInSeq(Parts(t), LAMBDA q : q = p)
               IN  IF i < Len(Parts(t)) THEN Parts(t)[i + 1] ELSE "flush"

\* Mutant: each write takes the lock for itself.
WritePartUnlocking(t) ==
    /\ pc[t] \in {"len", "desc", "body"} /\ ~broken
    /\ Len(transit) < StreamCap
    /\ transit' = Append(transit, <<t, pc[t]>>)
    /\ accepted' = IF pc[t] = "len" THEN Append(accepted, t) ELSE accepted
    /\ pc' = [pc EXCEPT ![t] = After(t, pc[t])]
    /\ lock' = NoTask
    /\ UNCHANGED <<link, returned, cut, out, writer, ends, broken, bSide>>

WritePart(t) ==
    /\ pc[t] \in {"len", "desc", "body"} /\ ~broken
    /\ Len(transit) < StreamCap
    /\ transit' = Append(transit, <<t, pc[t]>>)
    /\ accepted' = IF pc[t] = "len" THEN Append(accepted, t) ELSE accepted
    /\ pc' = [pc EXCEPT ![t] = After(t, pc[t])]
    /\ UNCHANGED <<link, returned, lock, cut, out, writer, ends, broken, bSide>>

WriteFails(t) ==
    /\ pc[t] \in {"len", "desc", "body", "flush"} /\ broken
    /\ End(t, "io")
    /\ lock' = NoTask
    /\ UNCHANGED <<link, accepted, cut, out, writer, ends, transit, broken, bSide>>

Flush(t) ==
    /\ pc[t] = "flush" /\ ~broken
    /\ End(t, "ok")
    /\ lock' = NoTask
    /\ UNCHANGED <<link, accepted, cut, out, writer, ends, transit, broken, bSide>>

\* The future is dropped at an await: the lock is released, what was written
\* stays written.
Cancel(t) ==
    /\ Cancels
    /\ pc[t] \in {"lock", "len", "desc", "body", "flush", "queue"}
    /\ End(t, "cancelled")
    /\ cut' = IF pc[t] \in {"desc", "body"} THEN cut \cup {t} ELSE cut
    /\ lock' = IF lock = t THEN NoTask ELSE lock
    /\ UNCHANGED <<link, accepted, out, writer, ends, transit, broken, bSide>>

\* A place in the queue; a writer that is gone has dropped its end.
Queue(t) ==
    /\ pc[t] = "queue"
    /\ IF writer = "off"
       THEN End(t, "closed") /\ UNCHANGED <<accepted, out>>
       ELSE /\ Len(out) < QueueCap
            /\ End(t, "ok")
            /\ accepted' = Append(accepted, t)
            /\ out' = Append(out, t)
    /\ UNCHANGED <<link, lock, cut, writer, ends, transit, broken, bSide>>

\* The writer task.  A write to a socket that is closed or broken fails; then
\* the task sets the flag and ends, and the rest of the queue with it.
WriterTakes ==
    /\ A = "native" /\ writer = "on" /\ out # <<>>
    /\ IF broken \/ answered
       THEN /\ writer' = "off" /\ out' = <<>>
            /\ closedA' = TRUE
            /\ UNCHANGED transit
       ELSE /\ out' = Tail(out)
            /\ transit' = Append(transit, Head(out))
            /\ IF Head(out) = CLOSE
               THEN writer' = "off" /\ closedA' = TRUE
               ELSE UNCHANGED <<writer, closedA>>
    /\ UNCHANGED <<link, pc, returned, lock, accepted, cut, droppedA, closeMark, closeSent,
                   closedB, byB, answered, broken, bSide>>

-----------------------------------------------------------------------------
(* The ends of the connection.                                              *)

\* close(): a full queue has no room for the message.
CloseA ==
    /\ ~droppedA /\ closeMark = NoMark
    /\ closedA' = TRUE
    /\ closeMark' = Len(accepted)
    /\ out' = IF A = "native" /\ writer = "on" /\ Len(out) < QueueCap
              THEN Append(out, CLOSE) ELSE out
    /\ transit' = IF A = "wasm" /\ ~broken THEN Append(transit, CLOSE) ELSE transit
    /\ closeSent' = (A = "wasm" \/ out' # out)
    /\ UNCHANGED <<link, pc, returned, lock, accepted, cut, writer, droppedA, closedB, byB,
                   answered, broken, bSide>>

\* The last handle is dropped; a send in progress holds one.
DropA ==
    /\ ~droppedA /\ \A t \in Tasks : pc[t] \in {"idle", "done"}
    /\ droppedA' = TRUE
    /\ UNCHANGED <<link, aSide, closedA, closeMark, closeSent, closedB, byB, answered, transit,
                   broken, bSide>>

\* B closes while it receives.
CloseB ==
    /\ ~byB
    /\ closedB' = TRUE /\ byB' = TRUE
    /\ UNCHANGED <<link, aSide, closedA, droppedA, closeMark, closeSent, answered, transit,
                   broken, bSide>>

\* The close frame of B arrives: A's reader task sets the flag and ends.
AnswerA ==
    /\ byB /\ ~answered /\ B # "stream"
    /\ answered' = TRUE
    /\ closedA' = (closedA \/ A = "native")
    /\ UNCHANGED <<link, aSide, droppedA, closeMark, closeSent, closedB, byB, transit,
                   broken, bSide>>

Break ==
    /\ Breaks /\ ~broken
    /\ broken' = TRUE
    /\ \E n \in 0 .. Len(transit) : transit' = SubSeq(transit, 1, n)
    /\ UNCHANGED <<link, aSide, ends, bSide>>

-----------------------------------------------------------------------------
(* recv_frame, the reader task and the event handlers.                      *)

RecvStart ==
    /\ rpc = "idle"
    /\ IF closedB
       THEN rpc' = "ended" /\ outcome' = "closed"
       ELSE /\ rpc' = IF B = "stream" THEN "read" ELSE "wait"
            /\ UNCHANGED outcome
    /\ UNCHANGED <<link, aSide, ends, transit, broken, in, reader, read, got>>

\* What recv_frame reads is taken for the next part of a frame.  When it is
\* something else the receiver takes descriptors for lengths and payloads for
\* descriptors: whatever it does from then on, it is lost.
NextPart(us) ==
    IF read = <<>> THEN us[2] = "len"
    ELSE us = <<read[1][1], Parts(read[1][1])[Len(read) + 1]>>

ReadPart ==
    /\ rpc = "read" /\ transit # <<>>
    /\ transit' = Tail(transit)
    /\ LET u == Head(transit)
           t == u[1]
           whole == Len(read) + 1 = Len(Parts(t))
       IN  IF NextPart(u)
           THEN /\ read' = IF whole THEN <<>> ELSE Append(read, u)
                /\ got' = IF whole THEN Append(got, t) ELSE got
                /\ rpc' = IF whole THEN "idle" ELSE "read"
           ELSE rpc' = "lost" /\ UNCHANGED <<read, got>>
    /\ UNCHANGED <<link, aSide, ends, broken, in, reader, outcome>>

\* Mutant: the end of the stream is Closed wherever it comes.
ReadEndsClosed ==
    /\ rpc = "read" /\ transit = <<>>
    /\ droppedA \/ broken
    /\ rpc' = "ended" /\ outcome' = "closed"
    /\ UNCHANGED <<link, aSide, ends, transit, broken, in, reader, read, got>>

\* End of the stream: Closed where a length was to come, Io inside a frame.
ReadEnds ==
    /\ rpc = "read" /\ transit = <<>>
    /\ droppedA \/ broken
    /\ rpc' = "ended"
    /\ \/ read = <<>> /\ outcome' = "closed"
       \/ (read # <<>> \/ broken) /\ outcome' = "io"
    /\ UNCHANGED <<link, aSide, ends, transit, broken, in, reader, read, got>>

\* Mutant: a message that finds the queue full is dropped.
ReaderDropsWhenFull ==
    /\ B # "stream" /\ reader = "on" /\ transit # <<>>
    /\ transit' = Tail(transit)
    /\ IF Head(transit) = CLOSE
       THEN /\ reader' = "off"
            /\ closedB' = (closedB \/ B = "native")
            /\ UNCHANGED in
       ELSE /\ in' = IF Len(in) < QueueCap THEN Append(in, Head(transit)) ELSE in
            /\ UNCHANGED <<reader, closedB>>
    /\ UNCHANGED <<link, aSide, closedA, droppedA, closeMark, closeSent, byB, answered,
                   broken, rpc, read, got, outcome>>

\* The reader task waits for room; the handlers of the browser have no bound.
ReaderTakes ==
    /\ B # "stream" /\ reader = "on" /\ transit # <<>>
    /\ transit' = Tail(transit)
    /\ IF Head(transit) = CLOSE
       THEN /\ reader' = "off"
            /\ closedB' = (closedB \/ B = "native")
            /\ UNCHANGED in
       ELSE /\ B = "native" => Len(in) < QueueCap
            /\ in' = Append(in, Head(transit))
            /\ UNCHANGED <<reader, closedB>>
    /\ UNCHANGED <<link, aSide, closedA, droppedA, closeMark, closeSent, byB, answered,
                   broken, rpc, read, got, outcome>>

ReaderFails ==
    /\ B # "stream" /\ reader = "on" /\ transit = <<>> /\ broken
    /\ reader' = "off"
    /\ closedB' = (closedB \/ B = "native")
    /\ UNCHANGED <<link, aSide, closedA, droppedA, closeMark, closeSent, byB, answered, transit,
                   broken, in, rpc, read, got, outcome>>

\* In the browser an error goes before the messages that came ahead of it.
SocketError == B = "wasm" /\ reader = "off" /\ broken

RecvTake ==
    /\ rpc = "wait" /\ in # <<>> /\ ~SocketError
    /\ in' = Tail(in)
    /\ got' = Append(got, Head(in))
    /\ rpc' = "idle"
    /\ UNCHANGED <<link, aSide, ends, transit, broken, reader, read, outcome>>

RecvEnds ==
    /\ rpc = "wait" /\ reader = "off"
    /\ in = <<>> \/ SocketError
    /\ rpc' = "ended"
    /\ outcome' = IF SocketError THEN "io" ELSE "closed"
    /\ UNCHANGED <<link, aSide, ends, transit, broken, in, reader, read, got>>

-----------------------------------------------------------------------------
Work ==
    \/ \E t \in Tasks : LockWriter(t) \/ WritePart(t) \/ WriteFails(t) \/ Flush(t) \/ Queue(t)
    \/ WriterTakes \/ AnswerA
    \/ RecvStart \/ ReadPart \/ ReadEnds \/ ReaderTakes \/ ReaderFails \/ RecvTake \/ RecvEnds

LinkNext ==
    \/ \E t \in Tasks : SendStart(t) \/ Cancel(t)
    \/ CloseA \/ DropA \/ CloseB \/ Break
    \/ Work

\* Tasks that can go on go on; nothing is asked of the applications.
LinkSpec == LinkInit /\ [][LinkNext]_linkVars
FairLinkSpec == LinkSpec /\ WF_linkVars(Work)

-----------------------------------------------------------------------------
\* Frames arrive whole, once, and in the order they got their place on the
\* connection, whoever sends beside (stream.rs:128, websocket.rs:249), and a
\* receiver loses the boundaries of frames only when a send was dropped with
\* its frame half written (stream.rs:130).
FramesIntact ==
    /\ IsPrefix(got, accepted)
    /\ rpc = "lost" => cut # {}

\* The receiver that is told Closed has had every frame accepted before the
\* sender closed or ended (stream.rs:159, websocket.rs:583).  Left out is the
\* native WebSocket: its recv_frame looks at the flag the reader task sets
\* before it looks at the frames that came ahead of the close (websocket.rs:258).
ClosedIsComplete ==
    outcome = "closed" /\ ~byB /\ ~broken /\ B # "native" =>
        IsPrefix(SubSeq(accepted, 1, IF closeMark = NoMark THEN Len(accepted) ELSE closeMark),
                 got)

\* Did A both close and drop its transport, and was there room for the close?
\* A byte stream is ended by the drop alone, a WebSocket by close() alone.
Finished == droppedA /\ closeMark # NoMark /\ (A # "stream" => closeSent)

\* A frame whose send returned Ok arrives or the receiver is told the end, and
\* the receiver is told when the sender has finished or the connection breaks
\* (stream.rs:159, websocket.rs:131, websocket.rs:263).
EndsAreTold ==
    LET Told == rpc \in {"ended", "lost"} \/ byB
    IN  /\ \A t \in Tasks : returned[t] = "ok" ~> (t \in ToSet(got) \/ Told)
        /\ (Finished \/ broken) ~> Told

\* Fails for the native WebSocket as B: frames ahead of the close are lost.
EveryCloseIsComplete ==
    outcome = "closed" /\ ~byB /\ ~broken =>
        IsPrefix(SubSeq(accepted, 1, IF closeMark = NoMark THEN Len(accepted) ELSE closeMark),
                 got)

\* Fails for the native WebSocket as A: its tasks keep the connection.
DropIsTold == droppedA ~> (rpc \in {"ended", "lost"} \/ byB)

\* Fails for the byte stream, and for a native WebSocket with a full queue.
CloseIsTold == (closeMark # NoMark) ~> (rpc \in {"ended", "lost"} \/ byB)
====
