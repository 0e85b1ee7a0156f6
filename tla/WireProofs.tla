---- MODULE WireProofs ----
(***************************************************************************)
(* The two ends of a connection whose links the project models apart.      *)
(*                                                                         *)
(* The transports over a byte stream and a WebSocket, for any number of    *)
(* senders, any sizes of the queues and any of the pairs of ends: frames   *)
(* arrive whole and in order, and the receiver that is told Closed has     *)
(* had all of them.  The argument places every message and every written   *)
(* part: what is received, read, collected, on the connection and queued   *)
(* is, in this order, the line of the frames as they were accepted.        *)
(*                                                                         *)
(* The TypeScript and the Swift client, for every number of callers: no    *)
(* call is settled twice, and none that waits is ever missing from the     *)
(* map.  Nothing is assumed of the frames: the argument is about the map   *)
(* alone.                                                                  *)
(***************************************************************************)
EXTENDS ClientCalls, ByteTransports, TLAPS, SequenceTheorems

-----------------------------------------------------------------------------
(* The inductive invariant of a connection *)

\* A frame gets its place once, when its send has gone past the queue or the
\* length; what is received are the frames that got a place first.
Placed == {"desc", "body", "flush", "done"}
Order ==
    /\ \A i \in 1 .. Len(accepted) : pc[accepted[i]] \in Placed
    /\ \A i, j \in 1 .. Len(accepted) : accepted[i] = accepted[j] => i = j
    /\ Len(got) <= Len(accepted)
    /\ \A i \in 1 .. Len(got) : got[i] = accepted[i]

\* Where sends can be on a byte stream, and on a WebSocket.
Writing == {"len", "desc", "body", "flush"}
Sends ==
    /\ A = "stream" <=> B = "stream"
    /\ A = "stream" => /\ \A t \in Tasks : pc[t] \in {"idle", "lock", "done"} \cup Writing
                       /\ \A t \in Tasks : pc[t] \in Writing <=> lock = t
                       /\ \A t \in Tasks : pc[t] = "body" => t \in WithBody
    /\ A = "native" => \A t \in Tasks : pc[t] \in {"idle", "queue", "done"}
    /\ A = "wasm" => \A t \in Tasks : pc[t] \in {"idle", "done"}
    /\ droppedA => \A t \in Tasks : pc[t] \in {"idle", "done"}

\* The messages after those received, on the connection and in the queue.  CLOSE
\* is the last on the connection, at the place where close() was called.
Passed == Len(got) + Len(in)
Beyond == Passed + Len(transit)
IsFrame(line, m, n) == m # CLOSE /\ n \in 1 .. Len(line) /\ m = line[n]
IsClose(mark, m, n) == m = CLOSE /\ mark = n - 1
Collected == \A i \in 1 .. Len(in) : IsFrame(accepted, in[i], Len(got) + i)
OnTheWay ==
    \A i \in 1 .. Len(transit) :
        \/ IsFrame(accepted, transit[i], Passed + i)
        \/ /\ IsClose(closeMark, transit[i], Passed + i) /\ i = Len(transit)
           /\ A = "native" => writer = "off"
Queued ==
    A = "native" /\ writer = "on" /\ ~broken =>
        /\ \A i \in 1 .. Len(out) :
             \/ IsFrame(accepted, out[i], Beyond + i) \/ IsClose(closeMark, out[i], Beyond + i)
             \/ \E j \in 1 .. i - 1 : out[j] = CLOSE
        /\ Len(accepted) = Beyond + Len(out) \/ \E j \in 1 .. Len(out) : out[j] = CLOSE
Browsing ==
    A = "wasm" => /\ closedA <=> closeMark # NoMark
                  /\ ~closedA /\ ~broken => Len(accepted) = Beyond
ReadOut ==
    reader = "off" /\ ~broken => /\ transit = <<>> /\ Passed = closeMark
                                 /\ A = "native" => writer = "off"
Messages ==
    A # "stream" => /\ rpc \in {"idle", "wait", "ended"} /\ read = <<>>
                    /\ Collected /\ OnTheWay /\ Queued /\ Browsing /\ ReadOut

\* The end of a unit's frame, and the unit after it.
Unit == Tasks \X {"len", "desc", "body"}
EndsFrame(u) == u[2] = "body" \/ (u[2] = "desc" /\ u[1] \notin WithBody)
Over(c, u) == EndsFrame(u) \/ u[1] \in c
PartAfter(t, p) ==
    IF p = "len" THEN "desc" ELSE IF p = "desc" /\ t \in WithBody THEN "body" ELSE "flush"
FirstOf(line, u, n) == n \in 1 .. Len(line) /\ u = <<line[n], "len">>
Follows(line, c, u, v) ==
    \/ v[1] = u[1] /\ v[2] = PartAfter(u[1], u[2])
    \/ Over(c, u) /\ \E n \in 1 .. Len(line) - 1 : u[1] = line[n] /\ FirstOf(line, v, n + 1)

\* What the receiver has of a frame.
Reading ==
    \/ read = <<>>
    \/ /\ Len(got) < Len(accepted)
       /\ LET t == accepted[Len(got) + 1]
          IN  /\ read[1] = <<t, "len">>
              /\ \/ Len(read) = 1
                 \/ t \in WithBody /\ Len(read) = 2 /\ read[2] = <<t, "desc">>

\* As long as the receiver is not lost, each unit is the one after the one before.
First ==
    transit # <<>> =>
        IF read = <<>> THEN FirstOf(accepted, transit[1], Len(got) + 1)
        ELSE Follows(accepted, cut, read[Len(read)], transit[1])
Chained ==
    /\ \A i \in 1 .. Len(transit) : transit[i] \in Unit
    /\ \A i \in 1 .. Len(transit) - 1 : Follows(accepted, cut, transit[i], transit[i + 1])

\* The unit that was written last, and who goes on after it.
Newest == IF transit # <<>> THEN transit[Len(transit)] ELSE read[Len(read)]
MidFrame(t) == pc[t] \in {"desc", "body"}
Tip ==
    IF transit = <<>> /\ read = <<>>
    THEN Len(accepted) = Len(got) /\ \A t \in Tasks : ~MidFrame(t)
    ELSE /\ accepted # <<>> /\ Newest[1] = accepted[Len(accepted)]
         /\ \/ \E t \in Tasks : /\ MidFrame(t) /\ Newest[1] = t
                                /\ pc[t] = PartAfter(t, Newest[2])
            \/ Over(cut, Newest) /\ \A t \in Tasks : ~MidFrame(t)

StreamUnits ==
    A = "stream" => /\ rpc # "wait" /\ (rpc = "lost" => cut # {})
                    /\ rpc # "lost" => Reading /\ First /\ Chained /\ (~broken => Tip)

\* Being told Closed.
ClosedIsLast ==
    /\ outcome # "none" => rpc = "ended"
    /\ closedB => byB \/ B = "native"
    /\ outcome = "closed" /\ ~byB /\ ~broken =>
         /\ B = "wasm" => reader = "off" /\ in = <<>>
         /\ B = "stream" => droppedA /\ Len(got) = Len(accepted)

LinkInv == LinkTypeOK /\ Order /\ Sends /\ Messages /\ StreamUnits /\ ClosedIsLast

-----------------------------------------------------------------------------
(* Sequences *)

\* A sequence with an element more.
LEMMA Longer ==
    ASSUME NEW S, NEW q \in Seq(S), NEW x \in S
    PROVE  /\ Append(q, x) \in Seq(S) /\ Len(q) \in Nat /\ Len(Append(q, x)) = Len(q) + 1
           /\ \A i \in 1 .. Len(q) : Append(q, x)[i] = q[i]
           /\ Append(q, x)[Len(q) + 1] = x
  OBVIOUS

\* A sequence without its first.
LEMMA Shorter ==
    ASSUME NEW S, NEW q \in Seq(S), q # <<>>
    PROVE  /\ Head(q) = q[1] /\ q[1] \in S /\ Tail(q) \in Seq(S)
           /\ Len(q) \in Nat \ {0} /\ Len(Tail(q)) = Len(q) - 1
           /\ \A i \in 1 .. Len(q) - 1 : Tail(q)[i] = q[i + 1]
  OBVIOUS

\* A sequence without its end.
LEMMA CutShort ==
    ASSUME NEW S, NEW q \in Seq(S), NEW n \in 0 .. Len(q)
    PROVE  /\ SubSeq(q, 1, n) \in Seq(S) /\ Len(SubSeq(q, 1, n)) = n
           /\ \A i \in 1 .. n : SubSeq(q, 1, n)[i] = q[i]
  OBVIOUS

\* A sequence that is the beginning of another.
LEMMA PrefixBy ==
    ASSUME NEW S, NEW q \in Seq(S), NEW r \in Seq(S), Len(q) <= Len(r),
           \A i \in 1 .. Len(q) : q[i] = r[i]
    PROVE  IsPrefix(q, r)
<1>1. PICK n \in Nat : n = Len(q)
  OBVIOUS
<1>2. n \in 0 .. Len(r)
  BY <1>1
<1>3. /\ SubSeq(r, 1, n) \in Seq(S) /\ Len(SubSeq(r, 1, n)) = n
      /\ \A i \in 1 .. n : SubSeq(r, 1, n)[i] = r[i]
  BY <1>2, CutShort
<1>4. n \in 0 .. Len(q)
  BY <1>1
<1>5. /\ SubSeq(q, 1, n) \in Seq(S) /\ Len(SubSeq(q, 1, n)) = n
      /\ \A i \in 1 .. n : SubSeq(q, 1, n)[i] = q[i]
  BY <1>4, CutShort
<1>6. SubSeq(q, 1, n) = SubSeq(r, 1, n)
  BY <1>1, <1>3, <1>5, SeqEqual
<1> QED  BY <1>1, <1>6 DEF IsPrefix

-----------------------------------------------------------------------------
(* The parts of a frame *)

\* The parts of a frame, and which comes after which.
LEMMA PartNumbers ==
    ASSUME NEW t
    PROVE  /\ Len(Parts(t)) = IF t \in WithBody THEN 3 ELSE 2
           /\ Parts(t)[1] = "len" /\ Parts(t)[2] = "desc"
           /\ t \in WithBody => Parts(t)[3] = "body"
  BY DEF Parts

\* Where a part is among them.
LEMMA PartFound ==
    ASSUME NEW k \in Nat, NEW I, I = {k}
    PROVE  Min(I) = k
<1>1. \E x \in I : \A y \in I : x <= y
  OBVIOUS
<1> QED  BY <1>1 DEF Min

\* After(t, p) is the part after p, or the flush.
LEMMA NextParts ==
    ASSUME NEW t, NEW p \in {"len", "desc", "body"}, p = "body" => t \in WithBody
    PROVE  After(t, p) = PartAfter(t, p)
<1> DEFINE I == {i \in 1 .. Len(Parts(t)) : Parts(t)[i] = p}
<1>1. PICK k \in Nat : /\ k = IF p = "len" THEN 1 ELSE IF p = "desc" THEN 2 ELSE 3
  OBVIOUS
<1>2. I = {k}
  BY <1>1, PartNumbers
<1>3. SelectInSeq(Parts(t), LAMBDA q : q = p) = k
  <2>1. Min(I) = k
    BY <1>2, PartFound
  <2>2. I # {}
    BY <1>2
  <2> QED  BY <2>1, <2>2 DEF SelectInSeq
<1>4. After(t, p) = IF k < Len(Parts(t)) THEN Parts(t)[k + 1] ELSE "flush"
  BY <1>3 DEF After
<1> QED  BY <1>1, <1>4, PartNumbers DEF PartAfter

-----------------------------------------------------------------------------
(* The order of frames, and where sends can be *)

\* No frame gets a place, none is received.
LEMMA OrderStays ==
    ASSUME Order, accepted' = accepted, got' = got,
           \A t \in Tasks : pc[t] \in Placed => pc'[t] \in Placed,
           accepted \in Seq(Tasks)
    PROVE  Order'
  BY DEF Order

\* A frame gets its place.
LEMMA OrderGrows ==
    ASSUME Order, NEW t \in Tasks, pc[t] \notin Placed, pc'[t] \in Placed,
           \A u \in Tasks : pc[u] \in Placed => pc'[u] \in Placed,
           accepted \in Seq(Tasks), accepted' = Append(accepted, t), got' = got,
           got \in Seq(Tasks)
    PROVE  Order'
<1>1. PICK n \in Nat : n = Len(accepted)
  OBVIOUS
<1>2. /\ Len(accepted') = n + 1 /\ accepted'[n + 1] = t
      /\ \A i \in 1 .. n : accepted'[i] = accepted[i] /\ accepted[i] \in Tasks
  BY <1>1, Longer
<1>3. \A i \in 1 .. n + 1 : i \in 1 .. n \/ i = n + 1
  OBVIOUS
<1>4. \A i \in 1 .. n : accepted[i] # t
  BY <1>1 DEF Order
<1>5. \A i \in 1 .. n + 1 : pc'[accepted'[i]] \in Placed
  BY <1>1, <1>2, <1>3 DEF Order
<1>6. \A i, j \in 1 .. n + 1 : accepted'[i] = accepted'[j] => i = j
  BY <1>1, <1>2, <1>3, <1>4 DEF Order
<1>7. Len(got) \in Nat /\ Len(got) <= n + 1 /\ \A i \in 1 .. Len(got) : i \in 1 .. n
  BY <1>1 DEF Order
<1> QED  BY <1>1, <1>2, <1>5, <1>6, <1>7 DEF Order

\* The next frame is received.
LEMMA OrderReceived ==
    ASSUME Order, UNCHANGED <<accepted, pc>>, accepted \in Seq(Tasks), got \in Seq(Tasks),
           IsFrame(accepted, accepted[Len(got) + 1], Len(got) + 1),
           got' = Append(got, accepted[Len(got) + 1])
    PROVE  Order'
<1>1. PICK n \in Nat : n = Len(got)
  OBVIOUS
<1>2. n + 1 \in 1 .. Len(accepted) /\ accepted[n + 1] \in Tasks
  BY <1>1 DEF IsFrame
<1>3. /\ Len(got') = n + 1 /\ got'[n + 1] = accepted[n + 1]
      /\ \A i \in 1 .. n : got'[i] = got[i]
  BY <1>1, <1>2, Longer
<1>4. \A i \in 1 .. n + 1 : i \in 1 .. n \/ i = n + 1
  OBVIOUS
<1> QED  BY <1>1, <1>2, <1>3, <1>4 DEF Order

\* The steps that touch neither.
LEMMA OrderIdle ==
    ASSUME LinkInv,
           \/ CloseA \/ DropA \/ CloseB \/ Break \/ WriterTakes \/ AnswerA
           \/ RecvStart \/ ReadEnds \/ ReaderTakes \/ ReaderFails \/ RecvEnds
    PROVE  Order'
<1>1. UNCHANGED <<pc, accepted, got>>
  BY DEF CloseA, DropA, CloseB, Break, WriterTakes, AnswerA, RecvStart, ReadEnds, ReaderTakes,
         ReaderFails, RecvEnds, aSide, bSide
<1> QED  BY <1>1, OrderStays DEF LinkInv, LinkTypeOK

\* The kinds of the ends.
LEMMA EndKinds ==
    ASSUME LinkTypeOK
    PROVE  A \in {"stream", "native", "wasm"} /\ B \in {"stream", "native", "wasm"}
  BY ByteAssumption DEF LinkTypeOK, A, B

\* They stay.
LEMMA EndKindsStay ==
    ASSUME LinkNext
    PROVE  link' = link /\ A' = A /\ B' = B
<1>1. link' = link
  BY DEF LinkNext, Work, SendStart, Cancel, CloseA, DropA, CloseB, Break, LockWriter, WritePart,
         WriteFails, Flush, Queue, WriterTakes, AnswerA, RecvStart, ReadPart, ReadEnds,
         ReaderTakes, ReaderFails, RecvTake, RecvEnds
<1> QED  BY <1>1 DEF A, B

\* A write goes on to the part after.
LEMMA WritesNext ==
    ASSUME LinkInv, NEW t \in Tasks, WritePart(t)
    PROVE  /\ A = "stream" /\ pc[t] \in {"len", "desc", "body"}
           /\ pc[t] = "body" => t \in WithBody
           /\ pc'[t] = PartAfter(t, pc[t])
           /\ \A u \in Tasks \ {t} : pc'[u] = pc[u]
<1>0. pc \in [Tasks -> {"idle", "lock", "len", "desc", "body", "flush", "queue", "done"}]
  BY DEF LinkInv, LinkTypeOK
<1>1. pc[t] \in {"len", "desc", "body"} /\ pc' = [pc EXCEPT ![t] = After(t, pc[t])]
  BY DEF WritePart
<1>2. A = "stream"
  BY <1>1, EndKinds DEF LinkInv, Sends
<1>3. pc[t] = "body" => t \in WithBody
  BY <1>2 DEF LinkInv, Sends
<1>4. After(t, pc[t]) = PartAfter(t, pc[t])
  BY <1>1, <1>3, NextParts
<1> QED  BY <1>0, <1>1, <1>2, <1>3, <1>4

\* The steps of a send.
LEMMA OrderSends ==
    ASSUME LinkInv, NEW t \in Tasks,
           \/ SendStart(t) \/ Cancel(t) \/ LockWriter(t) \/ WritePart(t) \/ WriteFails(t)
           \/ Flush(t) \/ Queue(t)
    PROVE  Order'
<1> USE DEF LinkInv
<1>0. /\ pc \in [Tasks -> {"idle", "lock", "len", "desc", "body", "flush", "queue", "done"}]
      /\ accepted \in Seq(Tasks) /\ got \in Seq(Tasks)
  BY DEF LinkTypeOK
<1>1. got' = got
  BY DEF SendStart, Cancel, LockWriter, WritePart, WriteFails, Flush, Queue, bSide
<1>2. CASE SendStart(t)
  <2>0. A \in {"stream", "native", "wasm"}
    BY ByteAssumption DEF LinkTypeOK, A
  <2>1. \/ accepted' = accepted
        \/ accepted' = Append(accepted, t) /\ End(t, "ok")
    BY <1>2, <2>0 DEF SendStart
  <2>2. pc[t] = "idle" /\ \E q : pc' = [pc EXCEPT ![t] = q]
    BY <1>2, <1>0, <2>0 DEF SendStart, End
  <2>3. CASE accepted' = accepted
    BY <1>0, <1>1, <2>2, <2>3, OrderStays DEF Placed
  <2>4. CASE accepted' = Append(accepted, t) /\ End(t, "ok")
    BY <1>0, <1>1, <2>2, <2>4, OrderGrows DEF Placed, End
  <2> QED  BY <2>1, <2>3, <2>4
<1>3. CASE Cancel(t) \/ WriteFails(t) \/ Flush(t)
  <2>1. accepted' = accepted /\ pc' = [pc EXCEPT ![t] = "done"]
    BY <1>3 DEF Cancel, WriteFails, Flush, End
  <2> QED  BY <1>0, <1>1, <2>1, OrderStays DEF Placed
<1>4. CASE LockWriter(t)
  <2>1. accepted' = accepted /\ pc[t] = "lock" /\ pc' = [pc EXCEPT ![t] = "len"]
    BY <1>4 DEF LockWriter
  <2> QED  BY <1>0, <1>1, <2>1, OrderStays DEF Placed
<1>5. CASE WritePart(t)
  <2>0. pc'[t] = PartAfter(t, pc[t]) /\ \A u \in Tasks \ {t} : pc'[u] = pc[u]
    BY <1>5, WritesNext
  <2>1. pc'[t] \in Placed /\ \A u \in Tasks \ {t} : pc'[u] = pc[u]
    BY <2>0 DEF Placed, PartAfter
  <2>2. CASE pc[t] = "len"
    <3>1. accepted' = Append(accepted, t)
      BY <1>5, <2>2 DEF WritePart
    <3> QED  BY <1>0, <1>1, <2>1, <2>2, <3>1, OrderGrows DEF Placed
  <2>3. CASE pc[t] # "len"
    <3>1. accepted' = accepted
      BY <1>5, <2>3 DEF WritePart
    <3> QED  BY <1>0, <1>1, <2>1, <3>1, OrderStays
  <2> QED  BY <2>2, <2>3
<1>6. CASE Queue(t)
  <2>1. pc[t] = "queue" /\ pc' = [pc EXCEPT ![t] = "done"]
    BY <1>6 DEF Queue, End
  <2>2. accepted' = accepted \/ accepted' = Append(accepted, t)
    BY <1>6 DEF Queue
  <2> QED  BY <1>0, <1>1, <2>1, <2>2, OrderStays, OrderGrows DEF Placed
<1> QED  BY <1>2, <1>3, <1>4, <1>5, <1>6

-----------------------------------------------------------------------------
(* Where sends can be *)

\* No send goes on.
LEMMA SendsStay ==
    ASSUME Sends, UNCHANGED <<link, pc, lock>>,
           droppedA' => droppedA \/ \A t \in Tasks : pc[t] \in {"idle", "done"}
    PROVE  Sends'
  BY DEF Sends, A, B

\* A send goes on.
LEMMA SendMoves ==
    ASSUME Sends, link' = link, droppedA' = droppedA,
           NEW t \in Tasks, NEW q, pc'[t] = q, \A u \in Tasks \ {t} : pc'[u] = pc[u],
           droppedA => q = "done",
           A = "stream" => /\ q \in {"lock", "done"} \cup Writing
                           /\ q \in Writing <=> lock' = t
                           /\ \A u \in Tasks \ {t} : lock' = u <=> lock = u
                           /\ q = "body" => t \in WithBody,
           A = "native" => q \in {"queue", "done"},
           A = "wasm" => q = "done"
    PROVE  Sends'
<1>1. A' = A /\ B' = B
  BY DEF A, B
<1>2. \A u \in Tasks : u = t \/ u \in Tasks \ {t}
  OBVIOUS
<1>3. CASE A = "stream"
  BY <1>1, <1>2, <1>3 DEF Sends
<1>4. CASE A # "stream"
  BY <1>1, <1>2, <1>4 DEF Sends
<1> QED  BY <1>3, <1>4

\* Sends are where they can be.
LEMMA SendsKept ==
    ASSUME LinkInv, LinkNext
    PROVE  Sends'
<1> USE DEF LinkInv
<1>0. /\ pc \in [Tasks -> {"idle", "lock", "len", "desc", "body", "flush", "queue", "done"}]
      /\ lock \in Tasks \cup {NoTask} /\ NoTask \notin Tasks
      /\ A \in {"stream", "native", "wasm"} /\ link' = link
  BY ByteAssumption, EndKinds, EndKindsStay DEF LinkTypeOK
<1>1. CASE DropA
  BY <1>1, SendsStay DEF DropA, aSide
<1>2. CASE \/ CloseA \/ CloseB \/ Break \/ WriterTakes \/ AnswerA \/ RecvStart \/ ReadPart
           \/ ReadEnds \/ ReaderTakes \/ ReaderFails \/ RecvTake \/ RecvEnds
  <2>1. UNCHANGED <<link, pc, lock, droppedA>>
    BY <1>2 DEF CloseA, CloseB, Break, WriterTakes, AnswerA, RecvStart, ReadPart, ReadEnds,
                ReaderTakes, ReaderFails, RecvTake, RecvEnds, aSide, ends
  <2> QED  BY <2>1, SendsStay
<1>3. ASSUME NEW t \in Tasks, SendStart(t)
      PROVE  Sends'
  <2>1. /\ ~droppedA /\ pc[t] = "idle" /\ UNCHANGED <<lock, droppedA>>
    BY <1>3 DEF SendStart, ends
  <2>2. \/ pc' = [pc EXCEPT ![t] = "done"]
        \/ A = "stream" /\ pc' = [pc EXCEPT ![t] = "lock"]
        \/ A = "native" /\ pc' = [pc EXCEPT ![t] = "queue"]
    BY <1>0, <1>3 DEF SendStart, End
  <2>3. A = "stream" => lock # t
    BY <2>1 DEF Sends, Writing
  <2>4. CASE pc' = [pc EXCEPT ![t] = "done"]
    BY <1>0, <2>1, <2>3, <2>4, SendMoves DEF Writing
  <2>5. CASE A = "stream" /\ pc' = [pc EXCEPT ![t] = "lock"]
    BY <1>0, <2>1, <2>3, <2>5, SendMoves DEF Writing
  <2>6. CASE A = "native" /\ pc' = [pc EXCEPT ![t] = "queue"]
    BY <1>0, <2>1, <2>6, SendMoves DEF Writing
  <2> QED  BY <2>2, <2>4, <2>5, <2>6
<1>4. ASSUME NEW t \in Tasks, LockWriter(t)
      PROVE  Sends'
  <2>1. /\ pc[t] = "lock" /\ lock = NoTask /\ lock' = t /\ pc' = [pc EXCEPT ![t] = "len"]
        /\ droppedA' = droppedA
    BY <1>4 DEF LockWriter, ends
  <2>2. ~droppedA /\ A = "stream"
    BY <1>0, <2>1 DEF Sends
  <2> QED  BY <1>0, <2>1, <2>2, SendMoves DEF Writing
<1>5. ASSUME NEW t \in Tasks, WritePart(t)
      PROVE  Sends'
  <2>1. /\ A = "stream" /\ pc[t] \in {"len", "desc", "body"}
        /\ pc[t] = "body" => t \in WithBody
        /\ pc'[t] = PartAfter(t, pc[t])
        /\ \A u \in Tasks \ {t} : pc'[u] = pc[u]
    BY <1>5, WritesNext
  <2>2. UNCHANGED <<lock, droppedA>>
    BY <1>5 DEF WritePart, ends
  <2>3. pc[t] \in Writing
    BY <2>1 DEF Writing
  <2>4. ~droppedA /\ lock = t
    BY <2>1, <2>3 DEF Sends
  <2>5. pc'[t] \in Writing /\ (pc'[t] = "body" => t \in WithBody)
    BY <2>1 DEF PartAfter, Writing
  <2> QED  BY <1>0, <2>1, <2>2, <2>4, <2>5, SendMoves
<1>6. ASSUME NEW t \in Tasks, Cancel(t) \/ WriteFails(t) \/ Flush(t) \/ Queue(t)
      PROVE  Sends'
  <2>1. pc' = [pc EXCEPT ![t] = "done"] /\ droppedA' = droppedA
    BY <1>6 DEF Cancel, WriteFails, Flush, Queue, End, ends
  <2>2. ASSUME A = "stream"
        PROVE  lock' # t /\ \A u \in Tasks \ {t} : lock' = u <=> lock = u
    <3>1. CASE Cancel(t)
      BY <1>0, <3>1 DEF Cancel
    <3>2. CASE WriteFails(t) \/ Flush(t)
      <4>1. pc[t] \in Writing /\ lock' = NoTask
        BY <3>2 DEF WriteFails, Flush, Writing
      <4> QED  BY <1>0, <2>2, <4>1 DEF Sends
    <3>3. CASE Queue(t)
      BY <2>2, <3>3 DEF Queue, Sends, Writing
    <3> QED  BY <1>6, <3>1, <3>2, <3>3
  <2> QED  BY <1>0, <2>1, <2>2, SendMoves DEF Writing
<1> QED  BY <1>1, <1>2, <1>3, <1>4, <1>5, <1>6 DEF LinkNext, Work

-----------------------------------------------------------------------------
(* Being told Closed *)

\* Nothing of it changes.
LEMMA ClosedStays ==
    ASSUME ClosedIsLast, link' = link, outcome' = outcome, outcome # "none" => rpc' = rpc,
           closedB' => closedB \/ byB' \/ B = "native", byB => byB', broken => broken',
           outcome = "closed" /\ ~broken' =>
               /\ B = "wasm" /\ reader = "off" /\ in = <<>> => reader' = "off" /\ in' = <<>>
               /\ B = "stream" /\ droppedA => /\ droppedA' /\ Len(got') = Len(got)
                                              /\ Len(accepted') = Len(accepted),
           {byB, broken, closedB, byB', broken', closedB'} \subseteq BOOLEAN
    PROVE  ClosedIsLast'
<1>1. B' = B
  BY DEF B
<1> QED  BY <1>1 DEF ClosedIsLast

\* The receiver that is told Closed is at the end.
LEMMA ClosedKept ==
    ASSUME LinkInv, LinkNext
    PROVE  ClosedIsLast'
<1> USE DEF LinkInv
<1>0. /\ {closedB, byB, broken, droppedA} \subseteq BOOLEAN
      /\ A \in {"stream", "native", "wasm"} /\ B \in {"stream", "native", "wasm"}
      /\ link' = link /\ B' = B
      /\ \A t \in Tasks : pc[t] \in Writing => A = "stream" /\ ~droppedA
      /\ A = "stream" <=> B = "stream"
  BY EndKinds, EndKindsStay DEF LinkTypeOK, Sends, Writing
<1>1. ASSUME NEW t \in Tasks,
             \/ SendStart(t) \/ Cancel(t) \/ LockWriter(t) \/ WriteFails(t) \/ Flush(t) \/ Queue(t)
      PROVE  ClosedIsLast'
  <2>1. UNCHANGED <<in, reader, rpc, outcome, got, closedB, byB, broken, droppedA>>
    BY <1>1 DEF SendStart, Cancel, LockWriter, WriteFails, Flush, Queue, ends, bSide
  <2>2. B = "stream" => accepted' = accepted
    BY <1>0, <1>1 DEF SendStart, Cancel, LockWriter, WriteFails, Flush, Queue, Sends, Writing
  <2> QED  BY <1>0, <2>1, <2>2, ClosedStays
<1>2. ASSUME NEW t \in Tasks, WritePart(t)
      PROVE  ClosedIsLast'
  <2>1. UNCHANGED <<in, reader, rpc, outcome, got, closedB, byB, broken, droppedA>>
    BY <1>2 DEF WritePart, ends, bSide
  <2>2. ~droppedA
    BY <1>0, <1>2 DEF WritePart, Writing
  <2>3. B = "stream"
    BY <1>0, <1>2 DEF WritePart, Writing
  <2> QED  BY <1>0, <2>1, <2>2, <2>3, ClosedStays
<1>3. CASE CloseA \/ DropA \/ WriterTakes
  <2>1. UNCHANGED <<in, reader, rpc, outcome, got, accepted, closedB, byB, broken>>
        /\ (droppedA => droppedA')
    BY <1>3 DEF CloseA, DropA, WriterTakes, aSide, bSide
  <2> QED  BY <1>0, <2>1, ClosedStays
<1>4. CASE CloseB \/ AnswerA \/ Break
  <2>1. UNCHANGED <<in, reader, rpc, outcome, got, accepted, droppedA>>
    BY <1>4 DEF CloseB, AnswerA, Break, aSide, bSide, ends
  <2>2. /\ closedB' => closedB \/ byB'
        /\ byB => byB'
        /\ broken => broken'
        /\ {byB', broken', closedB'} \subseteq BOOLEAN
    <3>1. CASE CloseB
      BY <1>0, <3>1 DEF CloseB
    <3>2. CASE AnswerA
      BY <1>0, <3>2 DEF AnswerA
    <3>3. CASE Break
      <4>1. UNCHANGED <<closedB, byB>> /\ broken' = TRUE
        BY <3>3 DEF Break, ends
      <4> QED  BY <1>0, <4>1
    <3> QED  BY <1>4, <3>1, <3>2, <3>3
  <2> QED  BY <1>0, <2>1, <2>2, ClosedStays
<1>5. CASE RecvStart
  <2>1. UNCHANGED <<in, reader, got, accepted, droppedA, closedB, byB, broken>> /\ rpc = "idle"
    BY <1>5 DEF RecvStart, aSide, ends
  <2>2. outcome = "none"
    BY <2>1 DEF ClosedIsLast
  <2>3. CASE closedB
    <3>1. rpc' = "ended" /\ (byB \/ B = "native")
      BY <1>5, <2>3 DEF RecvStart, ClosedIsLast
    <3> QED  BY <1>0, <2>1, <3>1 DEF ClosedIsLast
  <2>4. CASE ~closedB
    <3>1. outcome' = "none"
      BY <1>5, <2>2, <2>4 DEF RecvStart
    <3> QED  BY <1>0, <2>1, <2>4, <3>1 DEF ClosedIsLast
  <2> QED  BY <2>3, <2>4
<1>6. CASE ReadPart \/ RecvTake
  <2>1. UNCHANGED <<outcome, closedB, byB, broken>> /\ outcome = "none"
    BY <1>6 DEF ReadPart, RecvTake, ends, ClosedIsLast
  <2> QED  BY <1>0, <2>1 DEF ClosedIsLast
<1>7. CASE ReadEnds
  <2>1. /\ UNCHANGED <<read, transit, closedB, byB, broken, droppedA, got, accepted>>
        /\ rpc = "read" /\ transit = <<>> /\ rpc' = "ended" /\ (droppedA \/ broken)
        /\ outcome' = "closed" => read = <<>> \/ broken
    BY <1>7 DEF ReadEnds, aSide, ends
  <2>2. A = "stream"
    BY <2>1 DEF Messages
  <2>3. ~broken /\ read = <<>> => Len(accepted) = Len(got)
    BY <2>1, <2>2 DEF StreamUnits, Tip
  <2> QED  BY <1>0, <2>1, <2>2, <2>3 DEF ClosedIsLast
<1>8. CASE ReaderTakes \/ ReaderFails
  <2>1. /\ UNCHANGED <<rpc, outcome, got, accepted, byB, broken, droppedA>>
        /\ B # "stream" /\ reader = "on"
        /\ closedB' => closedB \/ B = "native"
        /\ closedB' \in BOOLEAN
    <3>1. CASE ReaderTakes
      BY <1>0, <3>1 DEF ReaderTakes, aSide
    <3>2. CASE ReaderFails
      BY <1>0, <3>2 DEF ReaderFails, aSide
    <3> QED  BY <1>8, <3>1, <3>2
  <2> QED  BY <1>0, <2>1, ClosedStays
<1>9. CASE RecvEnds
  <2>1. /\ UNCHANGED <<in, reader, closedB, byB, broken>> /\ rpc' = "ended" /\ rpc = "wait"
        /\ reader = "off" /\ (in = <<>> \/ SocketError)
        /\ outcome' = IF SocketError THEN "io" ELSE "closed"
    BY <1>9 DEF RecvEnds, ends
  <2>2. B # "stream"
    BY <1>0, <2>1 DEF StreamUnits
  <2> QED  BY <1>0, <2>1, <2>2 DEF ClosedIsLast, SocketError
<1> QED  BY <1>1, <1>2, <1>3, <1>4, <1>5, <1>6, <1>7, <1>8, <1>9 DEF LinkNext, Work

-----------------------------------------------------------------------------
(* The messages of a WebSocket *)

\* Nothing of them changes.
LEMMA MessagesStay ==
    ASSUME Messages,
           UNCHANGED <<link, accepted, got, in, transit, out, writer, closeMark, broken, reader,
                       read>>,
           A # "stream" => rpc' \in {rpc, "idle", "wait", "ended"},
           A = "wasm" => (closedA' <=> closedA)
    PROVE  Messages'
<1>1. A' = A
  BY DEF A
<1>2. CASE A # "stream"
  <2>1. Collected' /\ OnTheWay'
    BY <1>1, <1>2 DEF Messages, Collected, OnTheWay, Passed
  <2>2. Queued'
    BY <1>1, <1>2 DEF Messages, Queued, Passed, Beyond
  <2>3. Browsing' /\ ReadOut'
    BY <1>1, <1>2 DEF Messages, Browsing, ReadOut, Passed, Beyond
  <2> QED  BY <1>1, <1>2, <2>1, <2>2, <2>3 DEF Messages
<1> QED  BY <1>1, <1>2 DEF Messages

\* Until close() sends its message, there are frames only on the connection.
LEMMA NoCloseYet ==
    ASSUME LinkTypeOK, Messages, A # "stream", closeMark = NoMark \/ (A = "native" /\ writer = "on")
    PROVE  \A i \in 1 .. Len(transit) : IsFrame(accepted, transit[i], Passed + i)
<1>1. Passed \in Nat /\ OnTheWay
  BY DEF Messages, LinkTypeOK, Passed
<1>2. writer = "on" => writer # "off"
  OBVIOUS
<1>3. \A i \in 1 .. Len(transit) : Passed + i - 1 \in Nat
  BY <1>1
<1>4. closeMark = NoMark => closeMark \notin Nat
  BY DEF NoMark
<1> QED  BY <1>1, <1>2, <1>3, <1>4 DEF OnTheWay, IsClose

\* A frame keeps its place.
LEMMA PlacesStay ==
    ASSUME NEW line \in Seq(Tasks), NEW t \in Tasks, NEW m, NEW n, IsFrame(line, m, n)
    PROVE  IsFrame(Append(line, t), m, n)
<1>1. /\ Len(Append(line, t)) = Len(line) + 1 /\ Len(line) \in Nat
      /\ \A i \in 1 .. Len(line) : Append(line, t)[i] = line[i]
  BY Longer
<1>2. \A k \in Nat : \A i \in 1 .. k : i \in 1 .. k + 1
  OBVIOUS
<1> QED  BY <1>1, <1>2 DEF IsFrame

\* The frame that comes last in the line.
LEMMA LastPlace ==
    ASSUME NEW line \in Seq(Tasks), NEW t \in Tasks
    PROVE  IsFrame(Append(line, t), t, Len(line) + 1)
<1>1. /\ Len(Append(line, t)) = Len(line) + 1 /\ Len(line) \in Nat
      /\ Append(line, t)[Len(line) + 1] = t
  BY Longer
<1>2. \A k \in Nat : k + 1 \in 1 .. k + 1
  OBVIOUS
<1>3. t # CLOSE
  BY ByteAssumption
<1> QED  BY <1>1, <1>2, <1>3 DEF IsFrame

\* The browser takes a frame.
LEMMA BrowserSends ==
    ASSUME LinkTypeOK, Messages, A = "wasm", ~closedA, ~broken, NEW t \in Tasks,
           accepted' = Append(accepted, t), transit' = Append(transit, t),
           UNCHANGED <<link, got, in, out, writer, closeMark, closedA, broken, reader, read, rpc>>
    PROVE  Messages'
<1>0. /\ accepted \in Seq(Tasks) /\ in \in Seq(Tasks) /\ got \in Seq(Tasks)
      /\ transit \in Seq(Tasks \cup {CLOSE} \cup (Tasks \X {"len", "desc", "body"}))
      /\ A' = A
  BY DEF LinkTypeOK, A
<1>1. PICK n \in Nat, p \in Nat, k \in Nat : n = Len(accepted) /\ p = Passed /\ k = Len(transit)
  BY <1>0 DEF Passed
<1>2. closeMark = NoMark /\ n = p + k
  BY <1>1 DEF Messages, Browsing, Beyond
<1>3. /\ Len(accepted') = n + 1 /\ Len(transit') = k + 1 /\ transit'[k + 1] = t
      /\ \A i \in 1 .. k : transit'[i] = transit[i]
  BY <1>0, <1>1, Longer
<1>4. Passed' = p
  BY <1>1 DEF Passed
<1>5. Collected'
  BY <1>0, PlacesStay DEF Messages, Collected
<1>6. OnTheWay'
  <2>1. \A i \in 1 .. k : IsFrame(accepted', transit'[i], p + i)
    <3>1. \A i \in 1 .. k : IsFrame(accepted, transit[i], p + i)
      BY <1>1, <1>2, NoCloseYet
    <3>2. \A i \in 1 .. k : IsFrame(accepted', transit[i], p + i)
      BY <1>0, <3>1, PlacesStay
    <3> QED  BY <1>3, <3>2
  <2>2. IsFrame(accepted', transit'[k + 1], p + (k + 1))
    BY <1>0, <1>1, <1>2, <1>3, LastPlace
  <2>3. \A i \in 1 .. k + 1 : i \in 1 .. k \/ i = k + 1
    OBVIOUS
  <2> QED  BY <1>3, <1>4, <2>1, <2>2, <2>3 DEF OnTheWay
<1>7. Browsing'
  BY <1>0, <1>2, <1>3, <1>4 DEF Messages, Browsing, Beyond
<1>8. ReadOut'
  <2>1. p # closeMark
    BY <1>2 DEF NoMark
  <2> QED  BY <1>1, <2>1 DEF Messages, ReadOut
<1> QED  BY <1>0, <1>5, <1>6, <1>7, <1>8 DEF Messages, Queued

\* A frame gets its place in the queue.
LEMMA QueueSends ==
    ASSUME LinkTypeOK, Messages, A = "native", writer = "on", NEW t \in Tasks,
           accepted' = Append(accepted, t), out' = Append(out, t),
           UNCHANGED <<link, got, in, transit, writer, closeMark, closedA, broken, reader, read,
                       rpc>>
    PROVE  Messages'
<1>0. /\ accepted \in Seq(Tasks) /\ in \in Seq(Tasks) /\ got \in Seq(Tasks)
      /\ transit \in Seq(Tasks \cup {CLOSE} \cup (Tasks \X {"len", "desc", "body"}))
      /\ out \in Seq(Tasks \cup {CLOSE})
      /\ A' = A
  BY DEF LinkTypeOK, A
<1>1. PICK n \in Nat, b \in Nat, k \in Nat : n = Len(accepted) /\ b = Beyond /\ k = Len(out)
  BY <1>0 DEF Beyond, Passed
<1>2. /\ Len(accepted') = n + 1 /\ Len(out') = k + 1 /\ out'[k + 1] = t
      /\ \A i \in 1 .. k : out'[i] = out[i]
  BY <1>0, <1>1, Longer
<1>3. Passed' = Passed /\ Beyond' = b
  BY <1>1 DEF Passed, Beyond
<1>4. Collected'
  BY <1>0, PlacesStay DEF Messages, Collected
<1>5. OnTheWay'
  BY <1>0, <1>3, PlacesStay DEF Messages, OnTheWay
<1>6. ASSUME ~broken
      PROVE  /\ \A i \in 1 .. k + 1 :
                  \/ IsFrame(accepted', out'[i], b + i) \/ IsClose(closeMark, out'[i], b + i)
                  \/ \E j \in 1 .. i - 1 : out'[j] = CLOSE
             /\ n + 1 = b + (k + 1) \/ \E j \in 1 .. k + 1 : out'[j] = CLOSE
  <2>1. /\ \A i \in 1 .. k :
             \/ IsFrame(accepted, out[i], b + i) \/ IsClose(closeMark, out[i], b + i)
             \/ \E j \in 1 .. i - 1 : out[j] = CLOSE
        /\ n = b + k \/ \E j \in 1 .. k : out[j] = CLOSE
    BY <1>1, <1>6 DEF Messages, Queued
  <2>2. \A i \in 1 .. k : \A j \in 1 .. i - 1 : j \in 1 .. k
    OBVIOUS
  <2>3. \A i \in 1 .. k :
             \/ IsFrame(accepted', out'[i], b + i) \/ IsClose(closeMark, out'[i], b + i)
             \/ \E j \in 1 .. i - 1 : out'[j] = CLOSE
    BY <1>0, <1>2, <2>1, <2>2, PlacesStay
  <2>4. n = b + k => IsFrame(accepted', out'[k + 1], b + (k + 1))
    BY <1>0, <1>1, <1>2, LastPlace
  <2>5. (k + 1) - 1 = k
    OBVIOUS
  <2>6. (\E j \in 1 .. k : out[j] = CLOSE) => \E j \in 1 .. (k + 1) - 1 : out'[j] = CLOSE
    BY <1>2, <2>5
  <2>7. \A i \in 1 .. k + 1 : i \in 1 .. k \/ i = k + 1
    OBVIOUS
  <2>8. (\E j \in 1 .. k : out[j] = CLOSE) => \E j \in 1 .. k + 1 : out'[j] = CLOSE
    BY <1>2
  <2>9. n = b + k => n + 1 = b + (k + 1)
    OBVIOUS
  <2> QED  BY <2>1, <2>3, <2>4, <2>6, <2>7, <2>8, <2>9
<1>7. Queued'
  BY <1>2, <1>3, <1>6 DEF Queued
<1>8. ReadOut'
  BY <1>0, <1>3 DEF Messages, ReadOut
<1> QED  BY <1>0, <1>4, <1>5, <1>7, <1>8 DEF Messages, Browsing

\* The writer task takes a message from its queue.
LEMMA WriterMoves ==
    ASSUME LinkTypeOK, Messages, WriterTakes
    PROVE  Messages'
<1>0. /\ transit \in Seq(Tasks \cup {CLOSE} \cup (Tasks \X {"len", "desc", "body"}))
      /\ out \in Seq(Tasks \cup {CLOSE}) /\ in \in Seq(Tasks) /\ got \in Seq(Tasks)
      /\ A' = A /\ A = "native" /\ writer = "on" /\ out # <<>>
      /\ UNCHANGED <<link, accepted, got, in, closeMark, broken, reader, read, rpc>>
  BY DEF LinkTypeOK, A, WriterTakes, bSide
<1>1. PICK p \in Nat, k \in Nat : p = Passed /\ k = Len(transit)
  BY <1>0 DEF Passed
<1>2. Passed' = p /\ Collected'
  BY <1>0, <1>1 DEF Messages, Collected, Passed
<1>3. broken \/ reader = "on" \/ reader # "off"
  BY <1>0 DEF Messages, ReadOut
<1>4. \A i \in 1 .. k : IsFrame(accepted, transit[i], p + i)
  BY <1>0, <1>1, NoCloseYet
<1>5. CASE broken \/ answered
  <2>1. transit' = transit /\ writer' = "off"
    BY <1>5 DEF WriterTakes
  <2>2. OnTheWay'
    BY <1>0, <1>1, <1>2, <1>4, <2>1 DEF OnTheWay
  <2> QED  BY <1>0, <1>2, <2>1, <2>2 DEF Messages, Queued, Browsing, ReadOut
<1>6. CASE ~(broken \/ answered)
  <2>1. /\ out' = Tail(out) /\ transit' = Append(transit, Head(out))
        /\ IF Head(out) = CLOSE THEN writer' = "off" ELSE writer' = "on"
    BY <1>0, <1>6 DEF WriterTakes
  <2>2. PICK l \in Nat : l = Len(out) - 1
    <3>1. Len(out) \in Nat \ {0}
      BY <1>0, Shorter
    <3>2. Len(out) - 1 \in Nat
      BY <3>1
    <3> QED  BY <3>2
  <2>3. /\ Head(out) = out[1] /\ out[1] \in Tasks \cup {CLOSE} /\ Len(out) = l + 1
        /\ Len(out') = l /\ \A i \in 1 .. l : out'[i] = out[i + 1]
    BY <1>0, <2>1, <2>2, Shorter
  <2>4. /\ Len(transit') = k + 1 /\ transit'[k + 1] = out[1]
        /\ \A i \in 1 .. k : transit'[i] = transit[i]
    BY <1>0, <1>1, <2>1, <2>3, Longer
  <2>5. /\ \A i \in 1 .. l + 1 :
             \/ IsFrame(accepted, out[i], (p + k) + i) \/ IsClose(closeMark, out[i], (p + k) + i)
             \/ \E j \in 1 .. i - 1 : out[j] = CLOSE
        /\ Len(accepted) = (p + k) + (l + 1) \/ \E j \in 1 .. l + 1 : out[j] = CLOSE
    BY <1>0, <1>1, <1>6, <2>3 DEF Messages, Queued, Beyond
  <2>6. \/ IsFrame(accepted, out[1], p + (k + 1))
        \/ out[1] = CLOSE /\ IsClose(closeMark, out[1], p + (k + 1))
    <3>1. /\ 1 \in 1 .. l + 1 /\ (p + k) + 1 = p + (k + 1)
          /\ ~ \E j \in 1 .. 1 - 1 : out[j] = CLOSE
      OBVIOUS
    <3>2. IsFrame(accepted, out[1], p + (k + 1)) \/ IsClose(closeMark, out[1], p + (k + 1))
      BY <2>5, <3>1
    <3> QED  BY <3>2 DEF IsClose
  <2>7. OnTheWay'
    <3>1. \A i \in 1 .. k : IsFrame(accepted', transit'[i], p + i)
      BY <1>0, <1>4, <2>4
    <3>2. \/ IsFrame(accepted', transit'[k + 1], p + (k + 1))
          \/ writer' = "off" /\ IsClose(closeMark', transit'[k + 1], p + (k + 1))
      BY <1>0, <2>1, <2>3, <2>4, <2>6
    <3>3. \A i \in 1 .. k + 1 : i \in 1 .. k \/ i = k + 1
      OBVIOUS
    <3> QED  BY <1>2, <2>4, <3>1, <3>2, <3>3 DEF OnTheWay
  <2>8. Beyond' = p + (k + 1)
    BY <1>2, <2>4 DEF Beyond
  <2>9. ASSUME out[1] # CLOSE
        PROVE  /\ \A i \in 1 .. l :
                    \/ IsFrame(accepted, out'[i], (p + (k + 1)) + i)
                    \/ IsClose(closeMark, out'[i], (p + (k + 1)) + i)
                    \/ \E j \in 1 .. i - 1 : out'[j] = CLOSE
               /\ \/ Len(accepted) = (p + (k + 1)) + l
                  \/ \E j \in 1 .. l : out'[j] = CLOSE
    <3>1. \A i \in 1 .. l :
             \/ IsFrame(accepted, out[i + 1], (p + k) + (i + 1))
             \/ IsClose(closeMark, out[i + 1], (p + k) + (i + 1))
             \/ \E j \in 1 .. (i + 1) - 1 : out[j] = CLOSE
      <4>1. \A i \in 1 .. l : i + 1 \in 1 .. l + 1
        OBVIOUS
      <4> QED  BY <2>5, <4>1
    <3>2. \A i \in 1 .. l : (p + k) + (i + 1) = (p + (k + 1)) + i
      OBVIOUS
    <3>3. ASSUME NEW i \in 1 .. l + 1, NEW j \in 1 .. i, out[j] = CLOSE
          PROVE  \E m \in 1 .. i - 1 : m \in 1 .. l /\ out'[m] = CLOSE
      <4>1. j # 1
        BY <2>9, <3>3
      <4>2. j - 1 \in 1 .. i - 1 /\ j - 1 \in 1 .. l /\ (j - 1) + 1 = j
        BY <4>1
      <4>3. out'[j - 1] = out[j]
        BY <2>3, <4>2
      <4> QED  BY <3>3, <4>2, <4>3
    <3>4. \A i \in 1 .. l : (i + 1) - 1 = i /\ i \in 1 .. l + 1
      OBVIOUS
    <3>5. l + 1 \in 1 .. l + 1 /\ (l + 1) - 1 = l
      OBVIOUS
    <3>6. (p + k) + (l + 1) = (p + (k + 1)) + l
      OBVIOUS
    <3>7. ASSUME NEW i \in 1 .. l
          PROVE  \/ IsFrame(accepted, out'[i], (p + (k + 1)) + i)
                 \/ IsClose(closeMark, out'[i], (p + (k + 1)) + i)
                 \/ \E j \in 1 .. i - 1 : out'[j] = CLOSE
      <4>1. CASE \E j \in 1 .. (i + 1) - 1 : out[j] = CLOSE
        BY <3>3, <3>4, <4>1
      <4> QED  BY <2>3, <3>1, <3>2, <4>1
    <3>8. (\E j \in 1 .. l + 1 : out[j] = CLOSE) => \E j \in 1 .. l : out'[j] = CLOSE
      BY <3>3, <3>5
    <3> QED  BY <2>5, <3>6, <3>7, <3>8
  <2>10. Queued'
    BY <1>0, <2>1, <2>3, <2>8, <2>9 DEF Queued
  <2>11. reader # "off" \/ broken'
    BY <1>0, <1>3
  <2> QED  BY <1>0, <1>2, <2>7, <2>10, <2>11 DEF Messages, Browsing, ReadOut
<1> QED  BY <1>5, <1>6

\* close() sends its message.
LEMMA CloseSends ==
    ASSUME LinkTypeOK, Messages, CloseA, A # "stream"
    PROVE  Messages'
<1>0. /\ transit \in Seq(Tasks \cup {CLOSE} \cup (Tasks \X {"len", "desc", "body"}))
      /\ out \in Seq(Tasks \cup {CLOSE}) /\ in \in Seq(Tasks) /\ got \in Seq(Tasks)
      /\ accepted \in Seq(Tasks)
      /\ A' = A /\ A \in {"native", "wasm"} /\ closeMark = NoMark /\ closeMark' = Len(accepted)
      /\ UNCHANGED <<link, accepted, got, in, writer, broken, reader, read, rpc>>
  BY EndKinds DEF LinkTypeOK, A, CloseA, bSide
<1>1. PICK p \in Nat, k \in Nat, n \in Nat : p = Passed /\ k = Len(transit) /\ n = Len(accepted)
  BY <1>0 DEF Passed
<1>2. Passed' = p /\ Collected'
  BY <1>0, <1>1 DEF Messages, Collected, Passed
<1>3. broken \/ reader # "off"
  <2>1. p # NoMark
    BY DEF NoMark
  <2> QED  BY <1>0, <1>1, <2>1 DEF Messages, ReadOut
<1>4. \A i \in 1 .. k : IsFrame(accepted, transit[i], p + i)
  BY <1>0, <1>1, NoCloseYet
<1>5. CASE A = "wasm" /\ ~broken
  <2>1. transit' = Append(transit, CLOSE) /\ closedA' = TRUE
    BY <1>0, <1>5 DEF CloseA
  <2>2. /\ Len(transit') = k + 1 /\ transit'[k + 1] = CLOSE
        /\ \A i \in 1 .. k : transit'[i] = transit[i]
    BY <1>0, <1>1, <2>1, Longer
  <2>3. n = p + k
    BY <1>0, <1>1, <1>5 DEF Messages, Browsing, Beyond
  <2>4. OnTheWay'
    <3>1. \A i \in 1 .. k : IsFrame(accepted', transit'[i], p + i)
      BY <1>0, <1>4, <2>2
    <3>2. closeMark' = (p + (k + 1)) - 1
      BY <1>0, <1>1, <2>3
    <3>3. IsClose(closeMark', transit'[k + 1], p + (k + 1))
      BY <2>2, <3>2 DEF IsClose
    <3>4. \A i \in 1 .. k + 1 : i \in 1 .. k \/ i = k + 1
      OBVIOUS
    <3> QED  BY <1>0, <1>2, <1>5, <2>2, <3>1, <3>3, <3>4 DEF OnTheWay
  <2>5. Browsing'
    BY <1>0, <1>1, <2>1 DEF Browsing, NoMark
  <2> QED  BY <1>0, <1>2, <1>3, <1>5, <2>4, <2>5 DEF Messages, Queued, ReadOut
<1>6. CASE A = "wasm" /\ broken
  <2>1. transit' = transit /\ closedA' = TRUE
    BY <1>0, <1>6 DEF CloseA
  <2>2. OnTheWay'
    BY <1>0, <1>1, <1>2, <1>4, <2>1 DEF OnTheWay
  <2>3. Browsing'
    BY <1>0, <1>1, <1>6, <2>1 DEF Browsing, NoMark
  <2> QED  BY <1>0, <1>2, <1>6, <2>2, <2>3 DEF Messages, Queued, ReadOut
<1>7. CASE A = "native"
  <2>1. transit' = transit
    BY <1>0, <1>7 DEF CloseA
  <2>2. OnTheWay' /\ Beyond' = p + k /\ Beyond = p + k
    BY <1>0, <1>1, <1>2, <1>4, <2>1 DEF OnTheWay, Beyond
  <2>3. Queued'
    <3>1. SUFFICES ASSUME writer = "on", ~broken
                   PROVE  Queued'
      BY <1>0 DEF Queued
    <3>2. PICK l \in Nat : l = Len(out)
      BY <1>0
    <3>3. \A i \in 1 .. l : ~IsClose(closeMark, out[i], (p + k) + i)
      <4>1. \A i \in 1 .. l : (p + k) + i - 1 # -1
        OBVIOUS
      <4> QED  BY <1>0, <4>1 DEF IsClose, NoMark
    <3>4. /\ \A i \in 1 .. l : \/ IsFrame(accepted, out[i], (p + k) + i)
                               \/ \E j \in 1 .. i - 1 : out[j] = CLOSE
          /\ n = (p + k) + l \/ \E j \in 1 .. l : out[j] = CLOSE
      BY <1>1, <1>7, <2>2, <3>1, <3>2, <3>3 DEF Messages, Queued
    <3>5. CASE out' = out
      <4>1. n = (p + k) + l \/ \E j \in 1 .. l : out[j] = CLOSE
        BY <3>4
      <4> QED  BY <1>0, <1>1, <2>2, <3>2, <3>4, <3>5, <4>1 DEF Queued
    <3>6. CASE out' = Append(out, CLOSE)
      <4>1. /\ Len(out') = l + 1 /\ out'[l + 1] = CLOSE
            /\ \A i \in 1 .. l : out'[i] = out[i]
        BY <1>0, <3>2, <3>6, Longer
      <4>2. \A i \in 1 .. l : \A j \in 1 .. i - 1 : j \in 1 .. l
        OBVIOUS
      <4>3. \A i \in 1 .. l : \/ IsFrame(accepted', out'[i], (p + k) + i)
                              \/ \E j \in 1 .. i - 1 : out'[j] = CLOSE
        BY <1>0, <3>4, <4>1, <4>2
      <4>4. n = (p + k) + l => n = (p + k) + (l + 1) - 1
        OBVIOUS
      <4>5. n = (p + k) + l => IsClose(closeMark', out'[l + 1], (p + k) + (l + 1))
        BY <1>0, <1>1, <4>1, <4>4 DEF IsClose
      <4>6. (l + 1) - 1 = l /\ l + 1 \in 1 .. l + 1
        OBVIOUS
      <4>7. (\E j \in 1 .. l : out[j] = CLOSE) => \E j \in 1 .. (l + 1) - 1 : out'[j] = CLOSE
        BY <4>1, <4>6
      <4>8. \A i \in 1 .. l + 1 : i \in 1 .. l \/ i = l + 1
        OBVIOUS
      <4>9. \E j \in 1 .. l + 1 : out'[j] = CLOSE
        BY <4>1, <4>6
      <4> QED  BY <2>2, <3>4, <4>1, <4>3, <4>5, <4>7, <4>8, <4>9 DEF Queued
    <3> QED  BY <3>5, <3>6 DEF CloseA
  <2> QED  BY <1>0, <1>2, <1>3, <1>7, <2>2, <2>3 DEF Messages, Browsing, ReadOut
<1> QED  BY <1>0, <1>5, <1>6, <1>7

\* The connection breaks: what is on it is cut.
LEMMA MessagesCut ==
    ASSUME LinkTypeOK, Messages, Break, A # "stream"
    PROVE  Messages'
<1>0. /\ transit \in Seq(Tasks \cup {CLOSE} \cup (Tasks \X {"len", "desc", "body"}))
      /\ A' = A /\ broken' = TRUE
      /\ UNCHANGED <<link, accepted, got, in, writer, closeMark, reader, read, rpc, closedA>>
  BY DEF LinkTypeOK, A, Break, aSide, bSide, ends
<1>1. PICK n \in 0 .. Len(transit) : transit' = SubSeq(transit, 1, n)
  BY DEF Break
<1>2. Len(transit') = n /\ \A i \in 1 .. n : transit'[i] = transit[i]
  BY <1>0, <1>1, CutShort
<1>3. PICK k \in Nat : k = Len(transit)
  BY <1>0
<1>4. n \in 0 .. k /\ \A i \in 1 .. n : i \in 1 .. k /\ (i = k => i = n)
  BY <1>1, <1>3
<1>5. Passed' = Passed /\ Collected'
  BY <1>0 DEF Messages, Collected, Passed
<1>6. OnTheWay'
  BY <1>0, <1>2, <1>3, <1>4, <1>5 DEF Messages, OnTheWay
<1> QED  BY <1>0, <1>5, <1>6 DEF Messages, Queued, Browsing, ReadOut

\* The reader task takes a message from the connection.
LEMMA ReaderMoves ==
    ASSUME LinkTypeOK, Messages, ReaderTakes, A # "stream"
    PROVE  Messages' /\ (Head(transit) # CLOSE => Head(transit) \in Tasks)
<1>0. /\ transit \in Seq(Tasks \cup {CLOSE} \cup (Tasks \X {"len", "desc", "body"}))
      /\ in \in Seq(Tasks) /\ got \in Seq(Tasks) /\ accepted \in Seq(Tasks)
      /\ A' = A /\ reader = "on" /\ transit # <<>> /\ transit' = Tail(transit)
      /\ UNCHANGED <<link, accepted, got, out, writer, closeMark, broken, read, rpc, closedA>>
  BY DEF LinkTypeOK, A, ReaderTakes, aSide
<1>1. PICK p \in Nat, n \in Nat : p = Passed /\ n = Len(accepted)
  BY <1>0 DEF Passed
<1>2. PICK k \in Nat : Len(transit) = k + 1
  <2>1. Len(transit) \in Nat \ {0}
    BY <1>0, Shorter
  <2>2. Len(transit) - 1 \in Nat /\ Len(transit) = (Len(transit) - 1) + 1
    BY <2>1
  <2> QED  BY <2>2
<1>3. /\ Head(transit) = transit[1] /\ Len(transit') = k
      /\ \A i \in 1 .. k : transit'[i] = transit[i + 1]
  <2>1. Len(transit) - 1 = k
    BY <1>2
  <2> QED  BY <1>0, <2>1, Shorter
<1>4. /\ 1 \in 1 .. k + 1 /\ (1 = k + 1 => k = 0) /\ (p + 1) - 1 = p
      /\ \A i \in 1 .. k : i + 1 \in 1 .. k + 1 /\ p + (i + 1) = (p + 1) + i
      /\ \A i \in 1 .. k : i + 1 = k + 1 => i = k
  OBVIOUS
<1>5. \A i \in 1 .. k + 1 :
        \/ IsFrame(accepted, transit[i], p + i)
        \/ /\ IsClose(closeMark, transit[i], p + i) /\ i = k + 1
           /\ A = "native" => writer = "off"
  BY <1>0, <1>1, <1>2 DEF Messages, OnTheWay
<1>6. CASE Head(transit) = CLOSE
  <2>1. in' = in /\ reader' = "off"
    BY <1>6 DEF ReaderTakes
  <2>2. ~IsFrame(accepted, transit[1], p + 1)
    BY <1>3, <1>6 DEF IsFrame
  <2>3. k = 0 /\ closeMark = p /\ (A = "native" => writer = "off")
    BY <1>4, <1>5, <2>2 DEF IsClose
  <2>4. Passed' = p /\ Collected'
    BY <1>0, <1>1, <2>1 DEF Messages, Collected, Passed
  <2>5. transit' = <<>>
    BY <1>0, <1>3, <2>3
  <2>6. OnTheWay'
    BY <1>3, <2>3 DEF OnTheWay
  <2>7. Browsing'
    <3>1. closeMark # NoMark
      BY <2>3 DEF NoMark
    <3> QED  BY <1>0, <3>1 DEF Messages, Browsing
  <2> QED  BY <1>0, <1>6, <2>3, <2>4, <2>5, <2>6, <2>7 DEF Messages, Queued, ReadOut
<1>7. CASE Head(transit) # CLOSE
  <2>1. in' = Append(in, transit[1]) /\ reader' = "on"
    BY <1>0, <1>3, <1>7 DEF ReaderTakes
  <2>2. IsFrame(accepted, transit[1], p + 1)
    BY <1>3, <1>4, <1>5, <1>7 DEF IsClose
  <2>3. transit[1] \in Tasks
    BY <1>0, <1>1, <2>2 DEF IsFrame
  <2>4. PICK g \in Nat, l \in Nat : g = Len(got) /\ l = Len(in) /\ p = g + l
    BY <1>0, <1>1 DEF Passed
  <2>5. /\ Len(in') = l + 1 /\ in'[l + 1] = transit[1]
        /\ \A i \in 1 .. l : in'[i] = in[i]
    BY <1>0, <2>1, <2>3, <2>4, Longer
  <2>6. Passed' = p + 1
    BY <1>0, <2>4, <2>5 DEF Passed
  <2>7. Collected'
    <3>1. \A i \in 1 .. l : IsFrame(accepted, in[i], g + i)
      BY <1>0, <2>4 DEF Messages, Collected
    <3>2. g + (l + 1) = p + 1
      BY <2>4
    <3>3. \A i \in 1 .. l + 1 : i \in 1 .. l \/ i = l + 1
      OBVIOUS
    <3>4. \A i \in 1 .. l + 1 : IsFrame(accepted', in'[i], g + i)
      BY <1>0, <2>2, <2>5, <3>1, <3>2, <3>3
    <3> QED  BY <1>0, <2>4, <2>5, <3>4 DEF Collected
  <2>8. OnTheWay'
    <3>1. \A i \in 1 .. k :
            \/ IsFrame(accepted, transit'[i], (p + 1) + i)
            \/ /\ IsClose(closeMark, transit'[i], (p + 1) + i) /\ i = k
               /\ A = "native" => writer = "off"
      <4>1. ASSUME NEW i \in 1 .. k
            PROVE  \/ IsFrame(accepted, transit[i + 1], p + (i + 1))
                   \/ /\ IsClose(closeMark, transit[i + 1], p + (i + 1)) /\ i + 1 = k + 1
                      /\ A = "native" => writer = "off"
        <5>1. i + 1 \in 1 .. k + 1
          BY <1>4
        <5> QED  BY <1>5, <5>1
      <4> QED  BY <1>3, <1>4, <4>1
    <3> QED  BY <1>0, <1>3, <2>6, <3>1 DEF OnTheWay
  <2>9. Beyond' = Beyond
    <3>1. Beyond = p + (k + 1) /\ Beyond' = (p + 1) + k
      BY <1>1, <1>2, <1>3, <2>6 DEF Beyond
    <3> QED  BY <3>1
  <2>10. Queued' /\ Browsing'
    BY <1>0, <2>9 DEF Messages, Queued, Browsing
  <2> QED  BY <1>0, <1>3, <2>1, <2>3, <2>7, <2>8, <2>10 DEF Messages, ReadOut
<1> QED  BY <1>6, <1>7

\* The receiver takes a frame from the queue.
LEMMA ReceiverMoves ==
    ASSUME LinkTypeOK, Messages, RecvTake, A # "stream"
    PROVE  Messages' /\ IsFrame(accepted, Head(in), Len(got) + 1)
<1>0. /\ in \in Seq(Tasks) /\ got \in Seq(Tasks) /\ in # <<>>
      /\ A' = A /\ in' = Tail(in) /\ got' = Append(got, Head(in)) /\ rpc' = "idle"
      /\ UNCHANGED <<link, accepted, transit, out, writer, closeMark, broken, reader, read,
                     closedA>>
  BY DEF LinkTypeOK, A, RecvTake, aSide, ends
<1>1. PICK l \in Nat : Len(in) = l + 1
  <2>1. Len(in) \in Nat \ {0}
    BY <1>0, Shorter
  <2>2. Len(in) - 1 \in Nat /\ Len(in) = (Len(in) - 1) + 1
    BY <2>1
  <2> QED  BY <2>2
<1>2. PICK g \in Nat : g = Len(got)
  BY <1>0
<1>3. /\ Head(in) = in[1] /\ in[1] \in Tasks /\ Len(in') = l
      /\ \A i \in 1 .. l : in'[i] = in[i + 1]
  <2>1. Len(in) - 1 = l
    BY <1>1
  <2> QED  BY <1>0, <2>1, Shorter
<1>4. Len(got') = g + 1
  BY <1>0, <1>2, <1>3, Longer
<1>5. Passed' = Passed /\ Beyond' = Beyond
  <2>1. Passed = g + (l + 1) /\ Passed' = (g + 1) + l
    BY <1>1, <1>2, <1>3, <1>4 DEF Passed
  <2>2. Passed' = Passed
    BY <2>1
  <2> QED  BY <1>0, <2>2 DEF Beyond
<1>6. \A i \in 1 .. l + 1 : IsFrame(accepted, in[i], g + i)
  BY <1>1, <1>2 DEF Messages, Collected
<1>7. Collected'
  <2>1. \A i \in 1 .. l : i + 1 \in 1 .. l + 1 /\ g + (i + 1) = (g + 1) + i
    OBVIOUS
  <2>2. \A i \in 1 .. l : IsFrame(accepted, in[i + 1], g + (i + 1))
    BY <1>6, <2>1
  <2>3. \A i \in 1 .. l : IsFrame(accepted', in'[i], (g + 1) + i)
    BY <1>0, <1>3, <2>1, <2>2
  <2> QED  BY <1>3, <1>4, <2>3 DEF Collected
<1>8. IsFrame(accepted, Head(in), g + 1)
  <2>1. 1 \in 1 .. l + 1
    OBVIOUS
  <2> QED  BY <1>3, <1>6, <2>1
<1>9. OnTheWay'
  BY <1>0, <1>5 DEF Messages, OnTheWay
<1>10. Queued' /\ Browsing' /\ ReadOut'
  BY <1>0, <1>5 DEF Messages, Queued, Browsing, ReadOut
<1> QED  BY <1>0, <1>2, <1>7, <1>8, <1>9, <1>10 DEF Messages

\* The messages of a WebSocket are in their places.
LEMMA MessagesKept ==
    ASSUME LinkInv, LinkNext
    PROVE  Messages'
<1> USE DEF LinkInv
<1>0. A \in {"stream", "native", "wasm"} /\ A' = A /\ link' = link
  BY EndKinds, EndKindsStay
<1>1. CASE A = "stream"
  BY <1>0, <1>1 DEF Messages
<1>2. SUFFICES ASSUME A # "stream"
               PROVE  Messages'
  BY <1>1
<1>3. \A t \in Tasks : pc[t] \notin Writing \cup {"lock"}
  BY <1>0, <1>2 DEF Sends, Writing
<1>4. rpc \in {"idle", "wait", "ended"}
  BY <1>2 DEF Messages
<1>5. ASSUME NEW t \in Tasks, SendStart(t)
      PROVE  Messages'
  <2>1. CASE A = "wasm" /\ ~closedA /\ ~(broken \/ answered)
    <3>1. /\ accepted' = Append(accepted, t) /\ transit' = Append(transit, t) /\ ~broken
          /\ UNCHANGED <<link, got, in, out, writer, closeMark, closedA, broken, reader, read,
                         rpc>>
      BY <1>5, <2>1 DEF SendStart, ends, bSide
    <3> QED  BY <2>1, <3>1, BrowserSends
  <2>2. CASE ~(A = "wasm" /\ ~closedA /\ ~(broken \/ answered))
    <3>1. UNCHANGED <<link, accepted, got, in, transit, out, writer, closeMark, closedA, broken,
                      reader, read, rpc>>
      BY <1>0, <1>2, <1>5, <2>2 DEF SendStart, ends, bSide
    <3> QED  BY <3>1, MessagesStay
  <2> QED  BY <2>1, <2>2
<1>6. ASSUME NEW t \in Tasks, Cancel(t)
      PROVE  Messages'
  <2>1. UNCHANGED <<link, accepted, got, in, transit, out, writer, closeMark, closedA, broken,
                    reader, read, rpc>>
    BY <1>6 DEF Cancel, ends, bSide
  <2> QED  BY <2>1, MessagesStay
<1>7. ASSUME NEW t \in Tasks, Queue(t)
      PROVE  Messages'
  <2>1. A = "native"
    BY <1>0, <1>2, <1>7 DEF Queue, Sends
  <2>2. UNCHANGED <<link, got, in, transit, writer, closeMark, closedA, broken, reader, read, rpc>>
    BY <1>7 DEF Queue, ends, bSide
  <2>3. CASE writer = "off"
    <3>1. UNCHANGED <<accepted, out>>
      BY <1>7, <2>3 DEF Queue
    <3> QED  BY <2>2, <3>1, MessagesStay
  <2>4. CASE writer # "off"
    <3>1. accepted' = Append(accepted, t) /\ out' = Append(out, t)
      BY <1>7, <2>4 DEF Queue
    <3>2. writer = "on"
      BY <2>4 DEF LinkTypeOK
    <3> QED  BY <2>1, <2>2, <3>1, <3>2, QueueSends
  <2> QED  BY <2>3, <2>4
<1>8. ASSUME NEW t \in Tasks, LockWriter(t) \/ WritePart(t) \/ WriteFails(t) \/ Flush(t)
      PROVE  FALSE
  BY <1>3, <1>8 DEF LockWriter, WritePart, WriteFails, Flush, Writing
<1>9. CASE DropA \/ CloseB \/ AnswerA \/ RecvStart \/ RecvEnds
  <2>1. UNCHANGED <<link, accepted, got, in, transit, out, writer, closeMark, broken, reader, read>>
    BY <1>9 DEF DropA, CloseB, AnswerA, RecvStart, RecvEnds, aSide, ends, bSide
  <2>2. A = "wasm" => (closedA' <=> closedA)
    BY <1>9 DEF DropA, CloseB, AnswerA, RecvStart, RecvEnds, ends
  <2>3. rpc' \in {rpc, "idle", "wait", "ended"}
    <3>1. B # "stream"
      BY <1>2 DEF Sends
    <3> QED  BY <1>9, <3>1 DEF DropA, CloseB, AnswerA, RecvStart, RecvEnds, bSide
  <2> QED  BY <2>1, <2>2, <2>3, MessagesStay
<1>10. CASE ReaderFails
  <2>1. UNCHANGED <<link, accepted, got, in, transit, out, writer, closeMark, broken, read, rpc,
                    closedA>> /\ broken
    BY <1>10 DEF ReaderFails, aSide
  <2>2. Collected' /\ OnTheWay'
    BY <1>0, <1>2, <2>1 DEF Messages, Collected, OnTheWay, Passed
  <2>3. Queued' /\ Browsing' /\ ReadOut'
    BY <1>0, <1>2, <2>1 DEF Messages, Queued, Browsing, ReadOut
  <2> QED  BY <1>0, <1>2, <2>1, <2>2, <2>3 DEF Messages
<1>11. CASE ReadPart \/ ReadEnds
  BY <1>4, <1>11 DEF ReadPart, ReadEnds
<1> QED  BY <1>2, <1>5, <1>6, <1>7, <1>8, <1>9, <1>10, <1>11, WriterMoves, CloseSends,
            MessagesCut, ReaderMoves, ReceiverMoves DEF LinkNext, Work

-----------------------------------------------------------------------------
(* The units of a byte stream *)

\* What follows goes on following.
LEMMA FollowsStays ==
    ASSUME NEW line \in Seq(Tasks), NEW longer \in Seq(Tasks), NEW c, NEW d, NEW u, NEW v,
           longer = line \/ \E t \in Tasks : longer = Append(line, t),
           c \subseteq d
    PROVE  /\ Follows(line, c, u, v) => Follows(longer, d, u, v)
           /\ \A n : FirstOf(line, v, n) => FirstOf(longer, v, n)
<1>1. PICK k \in Nat : k = Len(line)
  OBVIOUS
<1>2. /\ Len(longer) \in {k, k + 1}
      /\ \A i \in 1 .. k : longer[i] = line[i]
  BY <1>1, Longer
<1>3. PICK m \in Nat : m = Len(longer) /\ m \in {k, k + 1}
  BY <1>1, <1>2
<1>4. /\ \A i \in 1 .. k : i \in 1 .. m
      /\ \A i \in 1 .. k - 1 : i \in 1 .. m - 1 /\ i \in 1 .. k
  BY <1>3
<1>5. \A w : \A n : FirstOf(line, w, n) => FirstOf(longer, w, n)
  BY <1>1, <1>2, <1>3, <1>4 DEF FirstOf
<1>6. Over(c, u) => Over(d, u)
  BY DEF Over
<1> QED  BY <1>1, <1>2, <1>3, <1>4, <1>5, <1>6 DEF Follows

\* No unit is written or read.
LEMMA UnitsStay ==
    ASSUME LinkTypeOK, StreamUnits, UNCHANGED <<link, accepted, transit, got, read, broken>>,
           cut \subseteq cut',
           A = "stream" => rpc' # "wait" /\ (rpc' = "lost" <=> rpc = "lost"),
           A = "stream" => \A t \in Tasks : (MidFrame(t) \/ MidFrame(t)') => pc'[t] = pc[t]
    PROVE  StreamUnits'
<1>1. A' = A
  BY DEF A
<1>2. SUFFICES ASSUME A = "stream"
               PROVE  StreamUnits'
  BY <1>1 DEF StreamUnits
<1>3. rpc' = "lost" => cut' # {}
  BY <1>2 DEF StreamUnits
<1>4. SUFFICES ASSUME rpc # "lost"
               PROVE  Reading' /\ First' /\ Chained' /\ (~broken' => Tip')
  BY <1>1, <1>2, <1>3 DEF StreamUnits
<1>5. accepted \in Seq(Tasks)
  BY DEF LinkTypeOK
<1>6. \A u, v : Follows(accepted, cut, u, v) => Follows(accepted', cut', u, v)
  BY <1>5, FollowsStays
<1>7. First'
  BY <1>2, <1>4, <1>6 DEF StreamUnits, First
<1>8. Chained'
  BY <1>2, <1>4, <1>6 DEF StreamUnits, Chained
<1>9. Reading'
  BY <1>2, <1>4 DEF StreamUnits, Reading
<1>10. ASSUME Tip
       PROVE  Tip'
  <2>1. Newest' = Newest /\ (Over(cut, Newest) => Over(cut', Newest))
    BY DEF Newest, Over
  <2>2. CASE transit = <<>> /\ read = <<>>
    BY <1>2, <1>10, <2>2 DEF Tip, MidFrame
  <2>3. CASE ~(transit = <<>> /\ read = <<>>)
    <3>1. /\ accepted # <<>> /\ Newest[1] = accepted[Len(accepted)]
          /\ \/ \E t \in Tasks : /\ MidFrame(t) /\ Newest[1] = t
                                 /\ pc[t] = PartAfter(t, Newest[2])
             \/ Over(cut, Newest) /\ \A t \in Tasks : ~MidFrame(t)
      BY <1>10, <2>3 DEF Tip
    <3>2. CASE \E t \in Tasks : /\ MidFrame(t) /\ Newest[1] = t
                                /\ pc[t] = PartAfter(t, Newest[2])
      BY <1>2, <2>1, <2>3, <3>1, <3>2 DEF Tip, MidFrame
    <3>3. CASE Over(cut, Newest) /\ \A t \in Tasks : ~MidFrame(t)
      BY <1>2, <2>1, <2>3, <3>1, <3>3 DEF Tip, MidFrame
    <3> QED  BY <3>1, <3>2, <3>3
  <2> QED  BY <2>2, <2>3
<1> QED  BY <1>2, <1>4, <1>7, <1>8, <1>9, <1>10 DEF StreamUnits

\* One send at a time is inside a frame.
LEMMA OneMidFrame ==
    ASSUME Sends, A = "stream", NEW t \in Tasks, pc[t] \in Writing
    PROVE  \A u \in Tasks : MidFrame(u) => u = t
  BY DEF Sends, MidFrame, Writing

\* A send is dropped with its frame half written.
LEMMA UnitsHalved ==
    ASSUME LinkTypeOK, Sends, StreamUnits, A = "stream", NEW t \in Tasks, Cancel(t), MidFrame(t)
    PROVE  StreamUnits'
<1>0. /\ accepted \in Seq(Tasks) /\ A' = A
      /\ pc \in [Tasks -> {"idle", "lock", "len", "desc", "body", "flush", "queue", "done"}]
      /\ UNCHANGED <<link, accepted, transit, got, read, broken, rpc>>
      /\ cut' = cut \cup {t} /\ pc' = [pc EXCEPT ![t] = "done"]
  BY DEF LinkTypeOK, A, Cancel, MidFrame, End, ends, bSide
<1>1. \A u \in Tasks : MidFrame(u) => u = t
  BY OneMidFrame DEF MidFrame, Writing
<1>2. \A u \in Tasks : ~MidFrame(u)'
  BY <1>0, <1>1 DEF MidFrame
<1>3. SUFFICES ASSUME rpc # "lost"
               PROVE  Reading' /\ First' /\ Chained' /\ (~broken' => Tip')
  BY <1>0 DEF StreamUnits
<1>4. \A u, v : Follows(accepted, cut, u, v) => Follows(accepted', cut', u, v)
  BY <1>0, FollowsStays
<1>5. Reading' /\ First' /\ Chained'
  BY <1>0, <1>3, <1>4 DEF StreamUnits, Reading, First, Chained
<1>6. ASSUME Tip
      PROVE  Tip'
  <2>1. /\ ~(transit = <<>> /\ read = <<>>)
        /\ accepted # <<>> /\ Newest[1] = accepted[Len(accepted)] /\ Newest[1] = t
    BY <1>1, <1>6 DEF Tip
  <2>2. Newest' = Newest
    BY <1>0 DEF Newest
  <2>3. Over(cut', Newest')
    BY <1>0, <2>1, <2>2 DEF Over
  <2> QED  BY <1>0, <1>2, <2>1, <2>2, <2>3 DEF Tip
<1> QED  BY <1>0, <1>3, <1>5, <1>6 DEF StreamUnits

\* The connection breaks: what is on it is cut.
LEMMA UnitsCut ==
    ASSUME LinkTypeOK, StreamUnits, A = "stream", Break
    PROVE  StreamUnits'
<1>0. /\ transit \in Seq(Tasks \cup {CLOSE} \cup (Tasks \X {"len", "desc", "body"}))
      /\ A' = A /\ broken' = TRUE
      /\ UNCHANGED <<link, accepted, got, read, cut, rpc>>
  BY DEF LinkTypeOK, A, Break, aSide, bSide
<1>1. PICK n \in 0 .. Len(transit) : transit' = SubSeq(transit, 1, n)
  BY DEF Break
<1>2. Len(transit') = n /\ \A i \in 1 .. n : transit'[i] = transit[i]
  BY <1>0, <1>1, CutShort
<1>3. PICK k \in Nat : k = Len(transit)
  BY <1>0
<1>4. n \in 0 .. k /\ \A i \in 1 .. n : i \in 1 .. k
  BY <1>1, <1>3
<1>5. \A i \in 1 .. n - 1 : i \in 1 .. k - 1 /\ i \in 1 .. n /\ i + 1 \in 1 .. n
  BY <1>4
<1>6. SUFFICES ASSUME rpc # "lost"
               PROVE  Reading' /\ First' /\ Chained'
  BY <1>0 DEF StreamUnits
<1>7. Reading'
  BY <1>0, <1>6 DEF StreamUnits, Reading
<1>8. Chained'
  <2>1. \A i \in 1 .. n : transit'[i] \in Unit
    BY <1>2, <1>3, <1>4, <1>6 DEF StreamUnits, Chained
  <2>2. ASSUME NEW i \in 1 .. n - 1
        PROVE  Follows(accepted', cut', transit'[i], transit'[i + 1])
    <3>1. Follows(accepted, cut, transit[i], transit[i + 1])
      BY <1>3, <1>5, <1>6 DEF StreamUnits, Chained
    <3>2. transit'[i] = transit[i] /\ transit'[i + 1] = transit[i + 1]
      BY <1>2, <1>5
    <3> QED  BY <1>0, <3>1, <3>2
  <2> QED  BY <1>2, <2>1, <2>2 DEF Chained
<1>9. First'
  <2>1. CASE n = 0
    <3>1. transit' = <<>>
      BY <1>0, <1>1, <2>1
    <3> QED  BY <3>1 DEF First
  <2>2. CASE n # 0
    <3>1. 1 \in 1 .. n /\ k # 0
      BY <1>4, <2>2
    <3>2. transit'[1] = transit[1] /\ transit # <<>>
      BY <1>2, <1>3, <3>1
    <3> QED  BY <1>0, <1>6, <3>2 DEF StreamUnits, First
  <2> QED  BY <2>1, <2>2
<1> QED  BY <1>0, <1>6, <1>7, <1>8, <1>9 DEF StreamUnits

\* A unit is written: what the new one has to follow.
LEMMA UnitWritten ==
    ASSUME LinkTypeOK, StreamUnits, A = "stream", rpc # "lost", NEW u \in Unit,
           transit' = Append(transit, u), cut' = cut,
           accepted' = accepted \/ \E t \in Tasks : accepted' = Append(accepted, t),
           UNCHANGED <<got, read>>,
           IF transit = <<>> /\ read = <<>> THEN FirstOf(accepted', u, Len(got) + 1)
           ELSE Follows(accepted', cut, Newest, u)
    PROVE  First' /\ Chained' /\ Reading' /\ Newest' = u /\ transit' # <<>>
<1>0. /\ transit \in Seq(Tasks \cup {CLOSE} \cup Unit)
      /\ accepted \in Seq(Tasks) /\ got \in Seq(Tasks)
      /\ Reading /\ First /\ Chained
  BY DEF LinkTypeOK, StreamUnits, Unit
<1>1. accepted' \in Seq(Tasks)
  BY <1>0, Longer
<1>2. PICK k \in Nat : k = Len(transit)
  BY <1>0
<1>3. /\ Len(transit') = k + 1 /\ transit'[k + 1] = u
      /\ \A i \in 1 .. k : transit'[i] = transit[i]
  BY <1>0, <1>2, Longer
<1>4. /\ \A i \in 1 .. k + 1 : i \in 1 .. k \/ i = k + 1
      /\ \A i \in 1 .. (k + 1) - 1 : i \in 1 .. k /\ (i \in 1 .. k - 1 \/ i = k)
      /\ \A i \in 1 .. k - 1 : i \in 1 .. k /\ i + 1 \in 1 .. k
      /\ k # 0 => k \in 1 .. k /\ 1 \in 1 .. k
  OBVIOUS
<1>5. transit' # <<>> /\ Newest' = u
  <2>1. transit' # <<>>
    BY <1>3
  <2> QED  BY <1>3, <2>1 DEF Newest
<1>6. \A v, w : Follows(accepted, cut, v, w) => Follows(accepted', cut, v, w)
  BY <1>0, <1>1, FollowsStays
<1>7. \A v : \A n : FirstOf(accepted, v, n) => FirstOf(accepted', v, n)
  BY <1>0, <1>1, FollowsStays
<1>8. k = 0 <=> transit = <<>>
  BY <1>0, <1>2
<1>9. Chained'
  <2>1. \A i \in 1 .. k + 1 : transit'[i] \in Unit
    BY <1>0, <1>2, <1>3, <1>4 DEF Chained
  <2>2. ASSUME NEW i \in 1 .. k - 1
        PROVE  Follows(accepted', cut', transit'[i], transit'[i + 1])
    <3>1. Follows(accepted, cut, transit[i], transit[i + 1])
      BY <1>0, <1>2 DEF Chained
    <3>2. transit'[i] = transit[i] /\ transit'[i + 1] = transit[i + 1]
      BY <1>3, <1>4
    <3> QED  BY <1>6, <3>1, <3>2
  <2>3. k # 0 => Follows(accepted', cut', transit'[k], transit'[k + 1])
    <3>1. k # 0 => Newest = transit[k] /\ transit'[k] = transit[k]
      BY <1>2, <1>3, <1>4, <1>8 DEF Newest
    <3> QED  BY <1>3, <1>8, <3>1
  <2>4. \A i \in 1 .. (k + 1) - 1 : Follows(accepted', cut', transit'[i], transit'[i + 1])
    <3>1. \A i \in 1 .. (k + 1) - 1 : i \in 1 .. k - 1 \/ (i = k /\ k # 0)
      OBVIOUS
    <3> QED  BY <2>2, <2>3, <3>1
  <2> QED  BY <1>3, <2>1, <2>4 DEF Chained
<1>10. First'
  <2>1. CASE k = 0
    <3>1. transit'[1] = u
      BY <1>3, <2>1
    <3>2. read # <<>> => Newest = read[Len(read)]
      BY <1>8, <2>1 DEF Newest
    <3> QED  BY <1>8, <2>1, <3>1, <3>2 DEF First
  <2>2. CASE k # 0
    <3>1. transit'[1] = transit[1]
      BY <1>3, <1>4, <2>2
    <3> QED  BY <1>0, <1>6, <1>7, <1>8, <2>2, <3>1 DEF First
  <2> QED  BY <2>1, <2>2
<1>11. Reading'
  <2>1. PICK n \in Nat, g \in Nat : n = Len(accepted) /\ g = Len(got)
    BY <1>0
  <2>2. Len(accepted') \in {n, n + 1} /\ \A i \in 1 .. n : accepted'[i] = accepted[i]
    <3>1. accepted \in Seq(Tasks)
      BY <1>0
    <3>2. \A t \in Tasks : /\ Len(Append(accepted, t)) = n + 1
                           /\ \A i \in 1 .. n : Append(accepted, t)[i] = accepted[i]
      BY <2>1, <3>1, Longer
    <3> QED  BY <2>1, <3>2
  <2>3. g < n => g + 1 \in 1 .. n /\ g < n + 1
    OBVIOUS
  <2> QED  BY <1>0, <2>1, <2>2, <2>3 DEF Reading
<1> QED  BY <1>5, <1>9, <1>10, <1>11

\* A part is written.
LEMMA UnitsGrow ==
    ASSUME LinkInv, NEW t \in Tasks, WritePart(t)
    PROVE  StreamUnits'
<1> USE DEF LinkInv
<1>0. /\ accepted \in Seq(Tasks) /\ got \in Seq(Tasks)
      /\ transit' = Append(transit, <<t, pc[t]>>) /\ <<t, pc[t]>> \in Unit
      /\ UNCHANGED <<link, got, read, cut, rpc, broken>> /\ ~broken
  BY DEF LinkTypeOK, WritePart, bSide, Unit
<1>1. /\ A = "stream" /\ pc[t] \in {"len", "desc", "body"}
      /\ pc[t] = "body" => t \in WithBody
      /\ pc'[t] = PartAfter(t, pc[t])
      /\ \A u \in Tasks \ {t} : pc'[u] = pc[u]
  BY WritesNext
<1>2. \A u \in Tasks : MidFrame(u) => u = t
  BY <1>1, OneMidFrame DEF Writing
<1>3. A' = A
  BY <1>0 DEF A
<1>4. SUFFICES ASSUME rpc # "lost"
               PROVE  Reading' /\ First' /\ Chained' /\ Tip'
  BY <1>0, <1>1, <1>3 DEF StreamUnits
<1>5. Tip
  BY <1>0, <1>1, <1>4 DEF StreamUnits
<1>6. /\ accepted' = IF pc[t] = "len" THEN Append(accepted, t) ELSE accepted
      /\ accepted' # <<>> /\ accepted'[Len(accepted')] = t
      /\ IF transit = <<>> /\ read = <<>> THEN FirstOf(accepted', <<t, pc[t]>>, Len(got) + 1)
         ELSE Follows(accepted', cut, Newest, <<t, pc[t]>>)
  <2>0. accepted' = IF pc[t] = "len" THEN Append(accepted, t) ELSE accepted
    BY DEF WritePart
  <2>1. CASE pc[t] = "len"
    <3>1. PICK n \in Nat : n = Len(accepted)
      BY <1>0
    <3>2. /\ accepted' = Append(accepted, t) /\ Len(accepted') = n + 1 /\ accepted'[n + 1] = t
          /\ \A i \in 1 .. n : accepted'[i] = accepted[i]
      BY <1>0, <2>0, <2>1, <3>1, Longer
    <3>3. accepted' # <<>>
      BY <3>2
    <3>4. \A u \in Tasks : ~MidFrame(u)
      BY <1>2, <2>1 DEF MidFrame
    <3>5. FirstOf(accepted', <<t, pc[t]>>, n + 1)
      BY <2>1, <3>2 DEF FirstOf
    <3>6. CASE transit = <<>> /\ read = <<>>
      <4>1. Len(got) = n
        BY <1>5, <3>1, <3>6 DEF Tip
      <4> QED  BY <2>0, <3>2, <3>3, <3>5, <3>6, <4>1
    <3>7. CASE ~(transit = <<>> /\ read = <<>>)
      <4>1. /\ accepted # <<>> /\ Newest[1] = accepted[n] /\ Over(cut, Newest)
        BY <1>5, <3>1, <3>4, <3>7 DEF Tip
      <4>2. n # 0
        BY <1>0, <3>1, <4>1
      <4>3. n \in 1 .. (n + 1) - 1 /\ n \in 1 .. n
        BY <4>2
      <4>4. \E m \in 1 .. (n + 1) - 1 : /\ Newest[1] = accepted'[m]
                                       /\ FirstOf(accepted', <<t, pc[t]>>, m + 1)
        BY <3>2, <3>5, <4>1, <4>3
      <4>5. Follows(accepted', cut, Newest, <<t, pc[t]>>)
        BY <3>2, <4>1, <4>4 DEF Follows
      <4> QED  BY <2>0, <3>2, <3>3, <3>7, <4>5
    <3> QED  BY <3>6, <3>7
  <2>2. CASE pc[t] \in {"desc", "body"}
    <3>1. MidFrame(t) /\ accepted' = accepted
      BY <2>0, <2>2 DEF MidFrame
    <3>2. /\ ~(transit = <<>> /\ read = <<>>)
          /\ accepted # <<>> /\ Newest[1] = accepted[Len(accepted)]
          /\ \E u \in Tasks : MidFrame(u) /\ Newest[1] = u /\ pc[u] = PartAfter(u, Newest[2])
      BY <1>5, <3>1 DEF Tip
    <3>3. Newest[1] = t /\ pc[t] = PartAfter(t, Newest[2])
      BY <1>2, <3>2
    <3>4. Follows(accepted', cut, Newest, <<t, pc[t]>>)
      BY <3>3 DEF Follows
    <3> QED  BY <2>0, <3>1, <3>2, <3>3, <3>4
  <2> QED  BY <1>1, <2>1, <2>2
<1>7. First' /\ Chained' /\ Reading' /\ Newest' = <<t, pc[t]>> /\ transit' # <<>>
  <2>1. accepted' = accepted \/ \E u \in Tasks : accepted' = Append(accepted, u)
    BY <1>6
  <2> QED  BY <1>0, <1>1, <1>4, <1>6, <2>1, UnitWritten
<1>8. Tip'
  <2>1. \/ MidFrame(t)' /\ pc'[t] = PartAfter(t, pc[t])
        \/ Over(cut', <<t, pc[t]>>) /\ \A u \in Tasks : ~MidFrame(u)'
    <3>1. CASE pc'[t] \in {"desc", "body"}
      BY <1>1, <3>1 DEF MidFrame
    <3>2. CASE pc'[t] \notin {"desc", "body"}
      <4>1. EndsFrame(<<t, pc[t]>>)
        BY <1>1, <3>2 DEF PartAfter, EndsFrame
      <4>2. \A u \in Tasks : ~MidFrame(u)'
        BY <1>1, <1>2, <3>2 DEF MidFrame
      <4> QED  BY <4>1, <4>2 DEF Over
    <3> QED  BY <3>1, <3>2
  <2>2. Newest'[1] = t /\ Newest'[2] = pc[t]
    BY <1>7
  <2>3. \/ \E u \in Tasks : MidFrame(u)' /\ Newest'[1] = u /\ pc'[u] = PartAfter(u, Newest'[2])
        \/ Over(cut', Newest') /\ \A u \in Tasks : ~MidFrame(u)'
    BY <1>7, <2>1, <2>2
  <2> QED  BY <1>6, <1>7, <2>2, <2>3 DEF Tip
<1> QED  BY <1>7, <1>8

\* The rest of the stream when a unit has been read.
UnitRead(k) ==
    /\ Len(transit) = k + 1 /\ Len(transit') = k
    /\ \A i \in 1 .. k : transit'[i] = transit[i + 1]
    /\ Chained'
    /\ k # 0 => /\ transit' # <<>> /\ transit'[1] = transit[2] /\ transit[2] \in Unit
                /\ Follows(accepted, cut, transit[1], transit[2])
                /\ Newest = transit[k + 1] /\ Newest' = transit[k + 1]
    /\ k = 0 => transit' = <<>> /\ Newest = transit[1]

\* A unit is read.
LEMMA UnitsShrink ==
    ASSUME LinkTypeOK, Chained, transit # <<>>, transit' = Tail(transit),
           UNCHANGED <<accepted, cut>>
    PROVE  (\E k \in Nat : UnitRead(k)) /\ transit[1] \in Unit /\ Head(transit) = transit[1]
<1>0. transit \in Seq(Tasks \cup {CLOSE} \cup Unit)
  BY DEF LinkTypeOK, Unit
<1>1. PICK k \in Nat : Len(transit) = k + 1
  <2>1. Len(transit) \in Nat \ {0}
    BY <1>0, Shorter
  <2>2. Len(transit) - 1 \in Nat /\ Len(transit) = (Len(transit) - 1) + 1
    BY <2>1
  <2> QED  BY <2>2
<1>2. /\ Head(transit) = transit[1] /\ Len(transit') = k
      /\ \A i \in 1 .. k : transit'[i] = transit[i + 1]
  <2>1. Len(transit) - 1 = k
    BY <1>1
  <2> QED  BY <1>0, <2>1, Shorter
<1>3. /\ 1 \in 1 .. k + 1
      /\ \A i \in 1 .. k : i + 1 \in 1 .. k + 1 /\ i \in 1 .. (k + 1) - 1
      /\ \A i \in 1 .. k - 1 : i \in 1 .. k /\ i + 1 \in 1 .. k /\ i + 1 \in 1 .. (k + 1) - 1
      /\ k # 0 => 1 \in 1 .. k /\ k \in 1 .. k /\ 1 + 1 = 2 /\ 2 \in 1 .. k + 1
  OBVIOUS
<1>4. /\ \A i \in 1 .. k + 1 : transit[i] \in Unit
      /\ \A i \in 1 .. (k + 1) - 1 : Follows(accepted, cut, transit[i], transit[i + 1])
  BY <1>1 DEF Chained
<1>5. Chained'
  <2>1. \A i \in 1 .. k : transit'[i] \in Unit
    BY <1>2, <1>3, <1>4
  <2>2. ASSUME NEW i \in 1 .. k - 1
        PROVE  Follows(accepted', cut', transit'[i], transit'[i + 1])
    <3>1. Follows(accepted, cut, transit[i + 1], transit[(i + 1) + 1])
      BY <1>3, <1>4
    <3>2. transit'[i] = transit[i + 1] /\ transit'[i + 1] = transit[(i + 1) + 1]
      BY <1>2, <1>3
    <3> QED  BY <3>1, <3>2
  <2> QED  BY <1>2, <2>1, <2>2 DEF Chained
<1>6. ASSUME k # 0
      PROVE  /\ transit' # <<>> /\ transit'[1] = transit[2] /\ transit[2] \in Unit
             /\ Follows(accepted, cut, transit[1], transit[2])
             /\ Newest = transit[k + 1] /\ Newest' = transit[k + 1]
  <2>1. transit' # <<>>
    BY <1>2, <1>6
  <2>2. transit'[1] = transit[2] /\ transit'[k] = transit[k + 1]
    BY <1>2, <1>3, <1>6
  <2>3. Newest = transit[k + 1]
    BY <1>1 DEF Newest
  <2>4. Newest' = transit'[k]
    BY <1>2, <2>1 DEF Newest
  <2>5. Follows(accepted, cut, transit[1], transit[1 + 1])
    BY <1>3, <1>4, <1>6
  <2> QED  BY <1>3, <1>4, <1>6, <2>1, <2>2, <2>3, <2>4, <2>5
<1>7. ASSUME k = 0
      PROVE  transit' = <<>> /\ Newest = transit[1]
  <2>1. transit' = <<>>
    <3>1. transit' \in Seq(Tasks \cup {CLOSE} \cup Unit)
      BY <1>0, Shorter
    <3> QED  BY <1>2, <1>7, <3>1
  <2>2. Newest = transit[1]
    BY <1>1, <1>7 DEF Newest
  <2> QED  BY <2>1, <2>2
<1>8. UnitRead(k)
  BY <1>1, <1>2, <1>5, <1>6, <1>7 DEF UnitRead
<1> QED  BY <1>2, <1>3, <1>4, <1>8

\* The unit belongs to a frame that is not whole yet.
LEMMA PartRead ==
    ASSUME StreamUnits, A = "stream", A' = A, rpc = "read", rpc' = "read", transit # <<>>,
           NEW k \in Nat, UnitRead(k), read' # <<>>, read'[Len(read')] = transit[1],
           UNCHANGED <<accepted, got, pc, cut, broken>>, Reading'
    PROVE  StreamUnits'
<1>1. Reading /\ First /\ Chained /\ (~broken => Tip)
  BY DEF StreamUnits
<1>2. First'
  <2>1. CASE k = 0
    BY <2>1 DEF First, UnitRead
  <2>2. CASE k # 0
    BY <2>2 DEF First, UnitRead
  <2> QED  BY <2>1, <2>2
<1>3. ASSUME Tip
      PROVE  Tip'
  <2>1. Newest' = Newest
    <3>1. CASE k = 0
      <4>1. transit' = <<>> /\ Newest = transit[1]
        BY <3>1 DEF UnitRead
      <4> QED  BY <4>1 DEF Newest
    <3>2. CASE k # 0
      BY <3>2 DEF UnitRead
    <3> QED  BY <3>1, <3>2
  <2>2. /\ accepted # <<>> /\ Newest[1] = accepted[Len(accepted)]
        /\ \/ \E t \in Tasks : /\ MidFrame(t) /\ Newest[1] = t
                               /\ pc[t] = PartAfter(t, Newest[2])
           \/ Over(cut, Newest) /\ \A t \in Tasks : ~MidFrame(t)
    BY <1>3 DEF Tip
  <2>3. \A t : MidFrame(t)' <=> MidFrame(t)
    BY DEF MidFrame
  <2> QED  BY <2>1, <2>2, <2>3 DEF Tip
<1> QED  BY <1>1, <1>2, <1>3 DEF StreamUnits, UnitRead

\* The unit is the last of its frame.
LEMMA FrameRead ==
    ASSUME LinkTypeOK, Order, StreamUnits, A = "stream", A' = A, rpc = "read", rpc' = "idle",
           transit # <<>>, NEW k \in Nat, UnitRead(k), NEW s \in Tasks, NEW g \in Nat,
           g = Len(got), s = accepted[g + 1], g < Len(accepted),
           transit[1] \in Unit, transit[1][1] = s, EndsFrame(transit[1]),
           read' = <<>>, got' = Append(got, s),
           UNCHANGED <<accepted, pc, cut, broken>>
    PROVE  StreamUnits'
<1>0. accepted \in Seq(Tasks) /\ got \in Seq(Tasks)
  BY DEF LinkTypeOK
<1>1. PICK n \in Nat : n = Len(accepted)
  BY <1>0
<1>2. Len(got') = g + 1 /\ g + 1 \in 1 .. n
  BY <1>0, <1>1, Longer
<1>3. \A m \in 1 .. n : accepted[m] = s => m = g + 1
  BY <1>1, <1>2 DEF Order
<1>4. PartAfter(s, transit[1][2]) = "flush"
  BY DEF EndsFrame, PartAfter
<1>5. First'
  <2>1. CASE k = 0
    BY <2>1 DEF First, UnitRead
  <2>2. CASE k # 0
    <3>1. /\ transit'[1] = transit[2] /\ transit[2] \in Unit
          /\ Follows(accepted, cut, transit[1], transit[2])
      BY <2>2 DEF UnitRead
    <3>2. transit[2][2] # "flush"
      BY <3>1 DEF Unit
    <3>3. PICK m \in 1 .. n - 1 : s = accepted[m] /\ FirstOf(accepted, transit[2], m + 1)
      BY <1>1, <1>4, <3>1, <3>2 DEF Follows
    <3>4. m \in 1 .. n
      OBVIOUS
    <3>5. m = g + 1
      BY <1>3, <3>3, <3>4
    <3>6. FirstOf(accepted, transit[2], (g + 1) + 1)
      BY <3>3, <3>5
    <3> QED  BY <1>2, <3>1, <3>6 DEF First
  <2> QED  BY <2>1, <2>2
<1>6. ASSUME Tip
      PROVE  Tip'
  <2>1. /\ accepted # <<>> /\ Newest[1] = accepted[n]
        /\ \/ \E t \in Tasks : /\ MidFrame(t) /\ Newest[1] = t
                               /\ pc[t] = PartAfter(t, Newest[2])
           \/ Over(cut, Newest) /\ \A t \in Tasks : ~MidFrame(t)
    BY <1>1, <1>6 DEF Tip
  <2>2. \A t : MidFrame(t)' <=> MidFrame(t)
    BY DEF MidFrame
  <2>3. CASE k = 0
    <3>1. transit' = <<>> /\ Newest = transit[1]
      BY <2>3 DEF UnitRead
    <3>2. n = g + 1
      <4>1. n \in 1 .. n
        BY <1>2
      <4> QED  BY <1>3, <2>1, <3>1, <4>1
    <3>3. \A t \in Tasks : ~MidFrame(t)
      BY <1>4, <2>1, <3>1 DEF MidFrame
    <3> QED  BY <1>1, <1>2, <2>2, <3>1, <3>2, <3>3 DEF Tip
  <2>4. CASE k # 0
    <3>1. transit' # <<>> /\ Newest' = Newest
      BY <2>4 DEF UnitRead
    <3> QED  BY <1>1, <2>1, <2>2, <3>1 DEF Tip
  <2> QED  BY <2>3, <2>4
<1>7. Reading'
  BY DEF Reading
<1> QED  BY <1>5, <1>6, <1>7 DEF StreamUnits, UnitRead

\* The receiver reads a unit.
LEMMA UnitsReadKept ==
    ASSUME LinkInv, ReadPart
    PROVE  StreamUnits' /\ Order'
<1> USE DEF LinkInv
<1>0. /\ rpc = "read" /\ transit # <<>> /\ transit' = Tail(transit)
      /\ UNCHANGED <<link, accepted, pc, cut, broken>> /\ A' = A
      /\ accepted \in Seq(Tasks) /\ got \in Seq(Tasks)
  BY DEF ReadPart, aSide, LinkTypeOK, A
<1>1. A = "stream"
  BY <1>0 DEF Messages
<1>2. Reading /\ First /\ Chained
  BY <1>0, <1>1 DEF StreamUnits
<1>3. PICK k \in Nat : UnitRead(k)
  BY <1>0, <1>2, UnitsShrink
<1>4. transit[1] \in Unit /\ Head(transit) = transit[1]
  BY <1>0, <1>2, UnitsShrink
<1>5. PICK g \in Nat, n \in Nat : g = Len(got) /\ n = Len(accepted)
  BY <1>0
<1>6. PICK s : s = accepted[g + 1]
  OBVIOUS
<1>7. PICK u \in Unit : u = transit[1]
  BY <1>4
<1>8. u[1] \in Tasks /\ u[2] \in {"len", "desc", "body"} /\ u = <<u[1], u[2]>>
  BY <1>7 DEF Unit
<1>9. g < n /\ s \in Tasks /\ IsFrame(accepted, s, g + 1)
  <2>1. g < n
    <3>1. CASE read = <<>>
      BY <1>0, <1>2, <1>5, <3>1 DEF First, FirstOf
    <3>2. CASE read # <<>>
      BY <1>2, <1>5, <3>2 DEF Reading
    <3> QED  BY <3>1, <3>2
  <2>2. g + 1 \in 1 .. n
    BY <2>1
  <2>3. s \in Tasks
    BY <1>0, <1>5, <1>6, <2>2
  <2> QED  BY <1>5, <1>6, <2>1, <2>2, <2>3, ByteAssumption DEF IsFrame
<1>10. ASSUME ~NextPart(u), s \in cut
       PROVE  StreamUnits' /\ Order'
  <2>1. rpc' = "lost" /\ got' = got
    BY <1>4, <1>7, <1>10 DEF ReadPart
  <2>2. StreamUnits'
    BY <1>0, <1>10, <2>1 DEF StreamUnits
  <2>3. Order'
    BY <1>0, <2>1, OrderStays
  <2> QED  BY <2>2, <2>3
<1>11. ASSUME NextPart(u), u[1] = s, Len(read) + 1 # Len(Parts(s)), read \in Seq(Unit),
              (read' = Append(read, u)) => Reading'
       PROVE  StreamUnits' /\ Order'
  <2>1. rpc' = "read" /\ got' = got /\ read' = Append(read, u)
    BY <1>4, <1>7, <1>11 DEF ReadPart
  <2>2. read' # <<>> /\ read'[Len(read')] = u
    BY <1>11, <2>1, Longer
  <2>3. StreamUnits'
    BY <1>0, <1>1, <1>3, <1>7, <1>11, <2>1, <2>2, PartRead
  <2>4. Order'
    BY <1>0, <2>1, OrderStays
  <2> QED  BY <2>3, <2>4
<1>12. ASSUME NextPart(u), u[1] = s, Len(read) + 1 = Len(Parts(s)), EndsFrame(u)
       PROVE  StreamUnits' /\ Order'
  <2>1. rpc' = "idle" /\ got' = Append(got, s) /\ read' = <<>>
    BY <1>4, <1>7, <1>12 DEF ReadPart
  <2>2. StreamUnits'
    BY <1>0, <1>1, <1>3, <1>5, <1>6, <1>7, <1>9, <1>12, <2>1, FrameRead
  <2>3. Order'
    BY <1>0, <1>5, <1>6, <1>9, <2>1, OrderReceived
  <2> QED  BY <2>2, <2>3
<1>13. CASE read = <<>>
  <2>1. u = <<s, "len">>
    BY <1>0, <1>2, <1>5, <1>6, <1>7, <1>13 DEF First, FirstOf
  <2>2. NextPart(u) /\ u[1] = s
    BY <1>13, <2>1 DEF NextPart
  <2>3. Len(read) + 1 # Len(Parts(s)) /\ read \in Seq(Unit)
    BY <1>13, PartNumbers
  <2>4. read' = Append(read, u) => Len(read') = 1 /\ read'[1] = <<s, "len">>
    BY <1>13, <2>1
  <2>5. read' = Append(read, u) => got' = got
    BY <1>4, <1>7, <2>2, <2>3 DEF ReadPart
  <2>6. read' = Append(read, u) => Reading'
    BY <1>0, <1>5, <1>6, <1>9, <2>4, <2>5 DEF Reading
  <2> QED  BY <1>11, <2>2, <2>3, <2>6
<1>14. CASE Len(read) = 1 /\ read[1] = <<s, "len">>
  <2>1. read # <<>> /\ Len(read) = 1 /\ read[1] = <<s, "len">> /\ read \in Seq(Unit)
    <3>1. read \in Seq(Unit)
      BY DEF Unit, LinkTypeOK
    <3>2. read # <<>>
      BY <1>14
    <3> QED  BY <1>14, <3>1, <3>2
  <2>2. NextPart(u) <=> u = <<s, "desc">>
    BY <2>1, PartNumbers DEF NextPart
  <2>3. Follows(accepted, cut, <<s, "len">>, u)
    BY <1>0, <1>2, <1>7, <2>1 DEF First
  <2>4. CASE u # <<s, "desc">>
    <3>1. ~(u[1] = s /\ u[2] = "desc")
      BY <1>8, <2>4
    <3>2. Over(cut, <<s, "len">>)
      BY <2>3, <3>1 DEF Follows, PartAfter
    <3>3. s \in cut
      BY <3>2 DEF Over, EndsFrame
    <3> QED  BY <1>10, <2>2, <2>4, <3>3
  <2>5. CASE u = <<s, "desc">> /\ s \notin WithBody
    <3>1. Len(read) + 1 = Len(Parts(s)) /\ EndsFrame(u) /\ u[1] = s
      BY <2>1, <2>5, PartNumbers DEF EndsFrame
    <3> QED  BY <1>12, <2>2, <2>5, <3>1
  <2>6. CASE u = <<s, "desc">> /\ s \in WithBody
    <3>1. Len(read) + 1 # Len(Parts(s)) /\ u[1] = s
      BY <2>1, <2>6, PartNumbers
    <3>2. /\ Len(Append(read, u)) = 2 /\ Append(read, u)[1] = <<s, "len">>
          /\ Append(read, u)[2] = <<s, "desc">>
      <4>1. /\ Len(Append(read, u)) = Len(read) + 1
            /\ \A i \in 1 .. Len(read) : Append(read, u)[i] = read[i]
            /\ Append(read, u)[Len(read) + 1] = u
        BY <2>1, Longer
      <4>2. 1 + 1 = 2 /\ 1 \in 1 .. 1
        OBVIOUS
      <4> QED  BY <2>1, <2>6, <4>1, <4>2
    <3>3. read' = Append(read, u) => got' = got
      BY <1>4, <1>7, <2>2, <2>6, <3>1 DEF ReadPart
    <3>4. read' = Append(read, u) => Reading'
      BY <1>0, <1>5, <1>6, <1>9, <2>6, <3>2, <3>3 DEF Reading
    <3> QED  BY <1>11, <2>1, <2>2, <2>6, <3>1, <3>4
  <2> QED  BY <2>4, <2>5, <2>6
<1>15. CASE /\ s \in WithBody /\ Len(read) = 2
            /\ read[1] = <<s, "len">> /\ read[2] = <<s, "desc">>
  <2>1. /\ read # <<>> /\ Len(read) = 2 /\ read[1] = <<s, "len">> /\ read[2] = <<s, "desc">>
    BY <1>15
  <2>2. NextPart(u) <=> u = <<s, "body">>
    BY <1>15, <2>1, PartNumbers DEF NextPart
  <2>3. Follows(accepted, cut, <<s, "desc">>, u)
    BY <1>0, <1>2, <1>7, <2>1 DEF First
  <2>4. CASE u # <<s, "body">>
    <3>1. ~(u[1] = s /\ u[2] = "body")
      BY <1>8, <2>4
    <3>2. Over(cut, <<s, "desc">>)
      BY <1>15, <2>3, <3>1 DEF Follows, PartAfter
    <3>3. s \in cut
      BY <1>15, <3>2 DEF Over, EndsFrame
    <3> QED  BY <1>10, <2>2, <2>4, <3>3
  <2>5. CASE u = <<s, "body">>
    <3>1. Len(read) + 1 = Len(Parts(s)) /\ EndsFrame(u) /\ u[1] = s
      BY <1>15, <2>1, <2>5, PartNumbers DEF EndsFrame
    <3> QED  BY <1>12, <2>2, <2>5, <3>1
  <2> QED  BY <2>4, <2>5
<1> QED  BY <1>2, <1>5, <1>6, <1>13, <1>14, <1>15 DEF Reading

\* The units of a byte stream follow each other.
LEMMA UnitsKept ==
    ASSUME LinkInv, LinkNext
    PROVE  StreamUnits'
<1> USE DEF LinkInv
<1>0. /\ A' = A /\ link' = link /\ A \in {"stream", "native", "wasm"}
      /\ pc \in [Tasks -> {"idle", "lock", "len", "desc", "body", "flush", "queue", "done"}]
  BY EndKinds, EndKindsStay DEF LinkTypeOK
<1>1. CASE A # "stream"
  BY <1>0, <1>1 DEF StreamUnits
<1>2. SUFFICES ASSUME A = "stream"
               PROVE  StreamUnits'
  BY <1>1
<1>3. \A t \in Tasks : pc[t] # "queue"
  BY <1>2 DEF Sends, Writing
<1>4. rpc # "wait" /\ B = "stream"
  BY <1>2 DEF StreamUnits, Sends
<1>5. ASSUME NEW t \in Tasks, SendStart(t) \/ LockWriter(t)
      PROVE  StreamUnits'
  <2>1. UNCHANGED <<link, accepted, transit, got, read, broken, cut, rpc>>
    BY <1>2, <1>5 DEF SendStart, LockWriter, bSide
  <2>2. pc[t] \in {"idle", "lock"} /\ \E q \in {"done", "lock", "len"} : pc' = [pc EXCEPT ![t] = q]
    BY <1>2, <1>5 DEF SendStart, LockWriter, End
  <2>3. \A u \in Tasks : (MidFrame(u) \/ MidFrame(u)') => pc'[u] = pc[u]
    BY <1>0, <2>2 DEF MidFrame
  <2> QED  BY <1>4, <2>1, <2>3, UnitsStay
<1>6. ASSUME NEW t \in Tasks, Flush(t)
      PROVE  StreamUnits'
  <2>1. UNCHANGED <<link, accepted, transit, got, read, broken, cut, rpc>>
    BY <1>6 DEF Flush, bSide
  <2>2. \A u \in Tasks : (MidFrame(u) \/ MidFrame(u)') => pc'[u] = pc[u]
    BY <1>0, <1>6 DEF Flush, End, MidFrame
  <2> QED  BY <1>4, <2>1, <2>2, UnitsStay
<1>7. ASSUME NEW t \in Tasks, WriteFails(t)
      PROVE  StreamUnits'
  <2>1. UNCHANGED <<link, accepted, transit, got, read, broken, cut, rpc>> /\ broken
    BY <1>7 DEF WriteFails, bSide
  <2> QED  BY <1>0, <2>1 DEF StreamUnits, Reading, First, Chained
<1>8. ASSUME NEW t \in Tasks, Cancel(t)
      PROVE  StreamUnits'
  <2>1. CASE MidFrame(t)
    BY <1>2, <1>8, <2>1, UnitsHalved
  <2>2. CASE ~MidFrame(t)
    <3>1. UNCHANGED <<link, accepted, transit, got, read, broken, cut, rpc>>
      BY <1>8, <2>2 DEF Cancel, bSide, MidFrame
    <3>2. \A u \in Tasks : (MidFrame(u) \/ MidFrame(u)') => pc'[u] = pc[u]
      BY <1>0, <1>8, <2>2 DEF Cancel, End, MidFrame
    <3> QED  BY <1>4, <3>1, <3>2, UnitsStay
  <2> QED  BY <2>1, <2>2
<1>9. ASSUME NEW t \in Tasks, Queue(t)
      PROVE  FALSE
  BY <1>3, <1>9 DEF Queue
<1>10. CASE CloseA \/ DropA \/ CloseB \/ RecvStart \/ ReadEnds
  <2>1. UNCHANGED <<link, accepted, transit, got, read, broken, cut, pc>>
    BY <1>2, <1>10 DEF CloseA, DropA, CloseB, RecvStart, ReadEnds, aSide, bSide
  <2>2. rpc' # "wait" /\ (rpc' = "lost" <=> rpc = "lost")
    BY <1>4, <1>10 DEF CloseA, DropA, CloseB, RecvStart, ReadEnds, bSide
  <2> QED  BY <2>1, <2>2, UnitsStay
<1>11. CASE WriterTakes \/ AnswerA \/ ReaderTakes \/ ReaderFails \/ RecvTake
  BY <1>2, <1>4, <1>11 DEF WriterTakes, AnswerA, ReaderTakes, ReaderFails, RecvTake
<1>12. CASE RecvEnds
  BY <1>4, <1>12 DEF RecvEnds
<1> QED  BY <1>2, <1>5, <1>6, <1>7, <1>8, <1>9, <1>10, <1>11, <1>12, UnitsGrow, UnitsCut,
            UnitsReadKept DEF LinkNext, Work

\* The order of frames.
LEMMA OrderKept ==
    ASSUME LinkInv, LinkNext
    PROVE  Order'
<1>1. CASE RecvTake
  <2>1. /\ got' = Append(got, Head(in)) /\ UNCHANGED <<accepted, pc>> /\ rpc = "wait"
    BY <1>1 DEF RecvTake, aSide
  <2>2. A # "stream"
    BY <2>1 DEF LinkInv, StreamUnits
  <2>3. IsFrame(accepted, Head(in), Len(got) + 1)
    BY <1>1, <2>2, ReceiverMoves DEF LinkInv
  <2>4. Head(in) = accepted[Len(got) + 1]
    BY <2>3 DEF IsFrame
  <2> QED  BY <2>1, <2>3, <2>4, OrderReceived DEF LinkInv, LinkTypeOK
<1> QED  BY <1>1, OrderIdle, OrderSends, UnitsReadKept DEF LinkNext, Work

-----------------------------------------------------------------------------
(* Types, and the whole invariant *)

\* The types of what the sender's side and of what the receiver's side changes.
SenderTypes ==
    /\ pc \in [Tasks -> {"idle", "lock", "len", "desc", "body", "flush", "queue", "done"}]
    /\ returned \in [Tasks -> {"none", "ok", "closed", "io", "cancelled"}]
    /\ lock \in Tasks \cup {NoTask}
    /\ accepted \in Seq(Tasks)
    /\ cut \subseteq Tasks
    /\ out \in Seq(Tasks \cup {CLOSE}) /\ Len(out) <= QueueCap
    /\ writer \in {"on", "off"}
    /\ closeMark \in {NoMark} \cup (0 .. Len(accepted))
    /\ closedA \in BOOLEAN /\ droppedA \in BOOLEAN /\ closeSent \in BOOLEAN
ReceiverTypes ==
    /\ in \in Seq(Tasks)
    /\ B = "native" => Len(in) <= QueueCap
    /\ reader \in {"on", "off"}
    /\ closedB \in BOOLEAN /\ byB \in BOOLEAN /\ answered \in BOOLEAN
    /\ rpc \in {"idle", "wait", "read", "lost", "ended"}
    /\ read \in Seq(Tasks \X {"len", "desc", "body"})
    /\ got \in Seq(Tasks)
    /\ outcome \in {"none", "closed", "io"}
LineTypes ==
    /\ link \in Links /\ broken \in BOOLEAN
    /\ transit \in Seq(Tasks \cup {CLOSE} \cup (Tasks \X {"len", "desc", "body"}))

\* The types of a connection are those of its sender, its receiver and what lies between.
LEMMA TypesSplit == LinkTypeOK <=> SenderTypes /\ ReceiverTypes /\ LineTypes
  BY DEF LinkTypeOK, SenderTypes, ReceiverTypes, LineTypes

\* What is on the connection is frames, parts of frames and CLOSE.
LEMMA LineTypesKept ==
    ASSUME LinkInv, LinkNext
    PROVE  LineTypes'
<1> USE DEF LinkInv
<1> DEFINE M == Tasks \cup {CLOSE} \cup (Tasks \X {"len", "desc", "body"})
<1>0. LineTypes /\ SenderTypes /\ link' = link
  BY TypesSplit, EndKindsStay
<1>1. transit \in Seq(M) /\ out \in Seq(Tasks \cup {CLOSE}) /\ broken \in BOOLEAN /\ link' \in Links
  BY <1>0 DEF LineTypes, SenderTypes
<1>3. CASE Break
  <2>1. PICK n \in 0 .. Len(transit) : transit' = SubSeq(transit, 1, n)
    BY <1>3 DEF Break
  <2>2. transit' \in Seq(M) /\ broken' = TRUE
    BY <1>1, <1>3, <2>1, CutShort DEF Break
  <2> QED  BY <1>1, <2>2 DEF LineTypes
<1> HIDE DEF M
<1>4. CASE ~Break
  <2>1. broken' = broken
    BY <1>4 DEF LinkNext, Work, SendStart, Cancel, CloseA, DropA, CloseB, LockWriter, WritePart,
           WriteFails, Flush, Queue, WriterTakes, AnswerA, RecvStart, ReadPart, ReadEnds,
           ReaderTakes, ReaderFails, RecvTake, RecvEnds
  <2>2. ASSUME NEW t \in Tasks, SendStart(t) \/ WritePart(t)
        PROVE  transit' \in Seq(M)
    <3>1. A \in {"stream", "native", "wasm"}
      BY EndKinds
    <3>2. transit' = transit \/ transit' = Append(transit, t)
             \/ (transit' = Append(transit, <<t, pc[t]>>) /\ pc[t] \in {"len", "desc", "body"})
      BY <2>2, <3>1 DEF SendStart, WritePart
    <3>3. t \in M /\ (pc[t] \in {"len", "desc", "body"} => <<t, pc[t]>> \in M)
      BY DEF M
    <3>4. \A m \in M : Append(transit, m) \in Seq(M)
      BY <1>1, Longer
    <3> QED  BY <1>1, <3>2, <3>3, <3>4
  <2>3. ASSUME NEW t \in Tasks,
               Cancel(t) \/ LockWriter(t) \/ WriteFails(t) \/ Flush(t) \/ Queue(t)
        PROVE  transit' \in Seq(M)
    BY <1>1, <2>3 DEF Cancel, LockWriter, WriteFails, Flush, Queue
  <2>4. ASSUME WriterTakes
        PROVE  transit' \in Seq(M)
    <3>1. out # <<>> /\ (transit' = transit \/ transit' = Append(transit, Head(out)))
      BY <2>4 DEF WriterTakes
    <3>2. out # <<>> => Head(out) \in M
      <4>1. out # <<>> => Head(out) \in Tasks \cup {CLOSE}
        BY <1>1, Shorter
      <4> QED  BY <4>1 DEF M
    <3>3. Append(transit, Head(out)) \in Seq(M)
      BY <1>1, <3>1, <3>2, Longer
    <3> QED  BY <1>1, <3>1, <3>3
  <2>5. ASSUME CloseA
        PROVE  transit' \in Seq(M)
    <3>1. transit' = transit \/ transit' = Append(transit, CLOSE)
      BY <2>5 DEF CloseA
    <3>2. CLOSE \in M
      BY DEF M
    <3>3. Append(transit, CLOSE) \in Seq(M)
      BY <1>1, <3>2, Longer
    <3> QED  BY <1>1, <3>1, <3>3
  <2>6. ASSUME ReadPart \/ ReaderTakes
        PROVE  transit' \in Seq(M)
    <3>1. transit # <<>> /\ transit' = Tail(transit)
      BY <2>6 DEF ReadPart, ReaderTakes
    <3> QED  BY <1>1, <3>1, Shorter
  <2>7. ASSUME \/ DropA \/ CloseB \/ AnswerA \/ RecvStart \/ ReadEnds \/ ReaderFails \/ RecvTake
               \/ RecvEnds
        PROVE  transit' \in Seq(M)
    <3>1. transit' = transit
      BY <2>7 DEF DropA, CloseB, AnswerA, RecvStart, ReadEnds, ReaderFails, RecvTake, RecvEnds
    <3> QED  BY <1>1, <3>1
  <2>8. transit' \in Seq(M)
    BY <1>4, <2>2, <2>3, <2>4, <2>5, <2>6, <2>7 DEF LinkNext, Work
  <2> QED  BY <1>1, <2>1, <2>8 DEF LineTypes, M
<1> QED  BY <1>3, <1>4

\* Nothing of the sender's side changes.
LEMMA SenderTypesStay ==
    ASSUME SenderTypes, UNCHANGED <<aSide, closedA, droppedA, closeMark, closeSent>>
    PROVE  SenderTypes'
  BY DEF SenderTypes, aSide

\* A step of a send.
LEMMA SendTypes ==
    ASSUME SenderTypes, NEW t \in Tasks,
           NEW q \in {"lock", "len", "desc", "body", "flush", "queue", "done"},
           pc' = [pc EXCEPT ![t] = q],
           returned' = returned \/ \E r \in {"ok", "closed", "io", "cancelled"} :
                                       returned' = [returned EXCEPT ![t] = r],
           lock' \in {lock, t, NoTask}, cut' \in {cut, cut \cup {t}},
           accepted' \in {accepted, Append(accepted, t)},
           out' = out \/ (out' = Append(out, t) /\ Len(out) < QueueCap),
           UNCHANGED <<writer, closedA, droppedA, closeMark, closeSent>>
    PROVE  SenderTypes'
<1>1. pc' \in [Tasks -> {"idle", "lock", "len", "desc", "body", "flush", "queue", "done"}]
  BY DEF SenderTypes
<1>2. returned' \in [Tasks -> {"none", "ok", "closed", "io", "cancelled"}]
  BY DEF SenderTypes
<1>3. lock' \in Tasks \cup {NoTask} /\ cut' \subseteq Tasks
  BY DEF SenderTypes
<1>4. accepted' \in Seq(Tasks) /\ \A i \in 0 .. Len(accepted) : i \in 0 .. Len(accepted')
  <2>1. accepted \in Seq(Tasks)
    BY DEF SenderTypes
  <2>2. Len(accepted) \in Nat /\ Append(accepted, t) \in Seq(Tasks)
        /\ Len(Append(accepted, t)) = Len(accepted) + 1
    BY <2>1, Longer
  <2>3. \A k \in Nat : \A i \in 0 .. k : i \in 0 .. k + 1
    OBVIOUS
  <2> QED  BY <2>1, <2>2, <2>3
<1>5. out' \in Seq(Tasks \cup {CLOSE}) /\ Len(out') <= QueueCap
  <2>1. out \in Seq(Tasks \cup {CLOSE}) /\ t \in Tasks \cup {CLOSE} /\ Len(out) <= QueueCap
    BY DEF SenderTypes
  <2>2. Len(out) \in Nat /\ Append(out, t) \in Seq(Tasks \cup {CLOSE})
        /\ Len(Append(out, t)) = Len(out) + 1
    BY <2>1, Longer
  <2>3. \A k, c \in Nat : k < c => k + 1 <= c
    OBVIOUS
  <2> QED  BY <2>1, <2>2, <2>3, ByteAssumption
<1>6. closeMark' \in {NoMark} \cup (0 .. Len(accepted'))
  BY <1>4 DEF SenderTypes
<1> QED  BY <1>1, <1>2, <1>3, <1>4, <1>5, <1>6 DEF SenderTypes

\* The sender's side keeps its types.
LEMMA SenderTypesKept ==
    ASSUME LinkInv, LinkNext
    PROVE  SenderTypes'
<1> USE DEF LinkInv
<1>0. SenderTypes /\ A \in {"stream", "native", "wasm"}
  BY TypesSplit, EndKinds
<1>1. ASSUME NEW t \in Tasks, SendStart(t)
      PROVE  SenderTypes'
  <2>1. UNCHANGED <<lock, cut, out, writer, closedA, droppedA, closeMark, closeSent>>
    BY <1>1 DEF SendStart, ends
  <2>2. \E q \in {"lock", "queue", "done"} : pc' = [pc EXCEPT ![t] = q]
    BY <1>0, <1>1 DEF SendStart, End
  <2>3. returned' = returned \/ \E r \in {"ok", "closed", "io", "cancelled"} :
                                    returned' = [returned EXCEPT ![t] = r]
    BY <1>0, <1>1 DEF SendStart, End
  <2>4. accepted' \in {accepted, Append(accepted, t)}
    BY <1>0, <1>1 DEF SendStart
  <2> QED  BY <1>0, <2>1, <2>2, <2>3, <2>4, SendTypes
<1>2. ASSUME NEW t \in Tasks, LockWriter(t)
      PROVE  SenderTypes'
  <2>1. /\ UNCHANGED <<returned, accepted, cut, out, writer, closedA, droppedA, closeMark,
                       closeSent>>
        /\ pc' = [pc EXCEPT ![t] = "len"] /\ lock' = t
    BY <1>2 DEF LockWriter, ends
  <2> QED  BY <1>0, <2>1, SendTypes
<1>3. ASSUME NEW t \in Tasks, WritePart(t)
      PROVE  SenderTypes'
  <2>1. /\ UNCHANGED <<returned, lock, cut, out, writer, closedA, droppedA, closeMark, closeSent>>
        /\ pc' = [pc EXCEPT ![t] = After(t, pc[t])] /\ pc[t] \in {"len", "desc", "body"}
        /\ accepted' \in {accepted, Append(accepted, t)}
    BY <1>3 DEF WritePart, ends
  <2>2. pc[t] = "body" => t \in WithBody
    BY <1>3, WritesNext
  <2>3. After(t, pc[t]) \in {"desc", "body", "flush"}
    BY <2>1, <2>2, NextParts DEF PartAfter
  <2> QED  BY <1>0, <2>1, <2>3, SendTypes
<1>4. ASSUME NEW t \in Tasks, Cancel(t) \/ WriteFails(t) \/ Flush(t) \/ Queue(t)
      PROVE  SenderTypes'
  <2>1. /\ UNCHANGED <<writer, closedA, droppedA, closeMark, closeSent>>
        /\ \E r \in {"ok", "closed", "io", "cancelled"} : End(t, r)
    BY <1>4 DEF Cancel, WriteFails, Flush, Queue, ends
  <2>2. /\ pc' = [pc EXCEPT ![t] = "done"]
        /\ \E r \in {"ok", "closed", "io", "cancelled"} : returned' = [returned EXCEPT ![t] = r]
    BY <2>1 DEF End
  <2>3. /\ lock' \in {lock, t, NoTask} /\ cut' \in {cut, cut \cup {t}}
        /\ accepted' \in {accepted, Append(accepted, t)}
        /\ out' = out \/ (out' = Append(out, t) /\ Len(out) < QueueCap)
    BY <1>4 DEF Cancel, WriteFails, Flush, Queue
  <2> QED  BY <1>0, <2>1, <2>2, <2>3, SendTypes
<1>5. CASE WriterTakes
  <2>1. /\ UNCHANGED <<pc, returned, lock, accepted, cut, droppedA, closeMark, closeSent>>
        /\ out # <<>> /\ out' \in {<<>>, Tail(out)}
    BY <1>5 DEF WriterTakes
  <2>2. writer' \in {"on", "off"} /\ closedA' \in BOOLEAN
    BY <1>0, <1>5 DEF WriterTakes, SenderTypes
  <2>3. out' \in Seq(Tasks \cup {CLOSE}) /\ Len(out') <= QueueCap
    <3>1. out \in Seq(Tasks \cup {CLOSE}) /\ Len(out) <= QueueCap
      BY <1>0 DEF SenderTypes
    <3>2. /\ Tail(out) \in Seq(Tasks \cup {CLOSE}) /\ Len(Tail(out)) = Len(out) - 1
          /\ Len(out) \in Nat \ {0}
      BY <2>1, <3>1, Shorter
    <3>3. Len(out) - 1 <= QueueCap /\ 0 <= QueueCap
      BY <3>1, <3>2, ByteAssumption
    <3>4. <<>> \in Seq(Tasks \cup {CLOSE}) /\ Len(<<>>) = 0
      OBVIOUS
    <3> QED  BY <2>1, <3>2, <3>3, <3>4
  <2> QED  BY <1>0, <2>1, <2>2, <2>3 DEF SenderTypes
<1>6. CASE CloseA
  <2>1. /\ UNCHANGED <<pc, returned, lock, accepted, cut, writer, droppedA>>
        /\ closedA' = TRUE /\ closeMark' = Len(accepted)
        /\ out' = out \/ (out' = Append(out, CLOSE) /\ Len(out) < QueueCap)
    BY <1>6 DEF CloseA
  <2>2. closeSent' \in BOOLEAN
    BY <1>6 DEF CloseA
  <2>3. out' \in Seq(Tasks \cup {CLOSE}) /\ Len(out') <= QueueCap
    <3>1. out \in Seq(Tasks \cup {CLOSE}) /\ CLOSE \in Tasks \cup {CLOSE} /\ Len(out) <= QueueCap
      BY <1>0 DEF SenderTypes
    <3>2. Len(out) \in Nat /\ Append(out, CLOSE) \in Seq(Tasks \cup {CLOSE})
          /\ Len(Append(out, CLOSE)) = Len(out) + 1
      BY <3>1, Longer
    <3>3. \A k, c \in Nat : k < c => k + 1 <= c
      OBVIOUS
    <3> QED  BY <2>1, <3>1, <3>2, <3>3, ByteAssumption
  <2>4. closeMark' \in 0 .. Len(accepted')
    <3>1. Len(accepted) \in Nat
      BY <1>0 DEF SenderTypes
    <3>2. Len(accepted) \in 0 .. Len(accepted)
      BY <3>1
    <3> QED  BY <2>1, <3>2
  <2> QED  BY <1>0, <2>1, <2>2, <2>3, <2>4 DEF SenderTypes
<1>7. CASE DropA
  BY <1>0, <1>7 DEF DropA, aSide, SenderTypes
<1>8. CASE AnswerA
  BY <1>0, <1>8 DEF AnswerA, aSide, SenderTypes
<1>9. CASE \/ CloseB \/ Break \/ RecvStart \/ ReadPart \/ ReadEnds \/ ReaderTakes \/ ReaderFails
           \/ RecvTake \/ RecvEnds
  <2>1. UNCHANGED <<aSide, closedA, droppedA, closeMark, closeSent>>
    BY <1>9 DEF CloseB, Break, RecvStart, ReadPart, ReadEnds, ReaderTakes, ReaderFails, RecvTake,
           RecvEnds, ends
  <2> QED  BY <1>0, <2>1, SenderTypesStay
<1> QED  BY <1>1, <1>2, <1>3, <1>4, <1>5, <1>6, <1>7, <1>8, <1>9 DEF LinkNext, Work

\* The receiver's side keeps its types.
LEMMA ReceiverTypesKept ==
    ASSUME LinkInv, LinkNext
    PROVE  ReceiverTypes'
<1> USE DEF LinkInv
<1>0. ReceiverTypes /\ B' = B /\ B \in {"stream", "native", "wasm"}
  BY TypesSplit, EndKinds, EndKindsStay
<1>1. ASSUME UNCHANGED <<bSide, closedB, byB, answered>>
      PROVE  ReceiverTypes'
  BY <1>0, <1>1 DEF ReceiverTypes, bSide
<1>2. CASE CloseB \/ AnswerA
  BY <1>0, <1>2 DEF CloseB, AnswerA, bSide, ReceiverTypes
<1>3. CASE RecvStart \/ ReadEnds \/ RecvEnds
  <2>1. UNCHANGED <<in, reader, closedB, byB, answered, read, got>>
    BY <1>3 DEF RecvStart, ReadEnds, RecvEnds, ends
  <2>2. rpc' \in {"ended", "read", "wait"} /\ outcome' \in {outcome, "closed", "io"}
    BY <1>3 DEF RecvStart, ReadEnds, RecvEnds
  <2> QED  BY <1>0, <2>1, <2>2 DEF ReceiverTypes
<1>4. CASE ReadPart
  <2>1. UNCHANGED <<in, reader, closedB, byB, answered, outcome>> /\ rpc = "read" /\ transit # <<>>
    BY <1>4 DEF ReadPart, ends
  <2>2. A = "stream"
    BY <2>1 DEF Messages
  <2>3. Chained /\ transit' = Tail(transit) /\ UNCHANGED <<accepted, cut>>
    BY <1>4, <2>1, <2>2 DEF StreamUnits, ReadPart, aSide
  <2>4. transit[1] \in Unit /\ Head(transit) = transit[1]
    BY <2>1, <2>3, UnitsShrink
  <2>5. PICK u \in Unit : u = Head(transit)
    BY <2>4
  <2>6. u \in Tasks \X {"len", "desc", "body"} /\ u[1] \in Tasks
    BY DEF Unit
  <2>7. /\ read' \in {read, <<>>, Append(read, u)} /\ got' \in {got, Append(got, u[1])}
        /\ rpc' \in {"lost", "idle", "read"}
    BY <1>4, <2>5 DEF ReadPart
  <2>8. read \in Seq(Tasks \X {"len", "desc", "body"}) /\ got \in Seq(Tasks)
    BY <1>0 DEF ReceiverTypes
  <2>9. /\ Append(read, u) \in Seq(Tasks \X {"len", "desc", "body"})
        /\ Append(got, u[1]) \in Seq(Tasks)
        /\ <<>> \in Seq(Tasks \X {"len", "desc", "body"})
    BY <2>6, <2>8
  <2>10. read' \in Seq(Tasks \X {"len", "desc", "body"}) /\ got' \in Seq(Tasks)
    BY <2>7, <2>8, <2>9
  <2> QED  BY <1>0, <2>1, <2>7, <2>10 DEF ReceiverTypes
<1>5. CASE ReaderTakes
  <2>1. /\ UNCHANGED <<byB, answered, rpc, read, got, outcome>> /\ B # "stream"
    BY <1>5 DEF ReaderTakes
  <2>2. reader' \in {reader, "off"} /\ closedB' \in BOOLEAN
    BY <1>0, <1>5 DEF ReaderTakes, ReceiverTypes
  <2>3. A # "stream"
    BY <2>1 DEF Sends
  <2>4. Head(transit) # CLOSE => Head(transit) \in Tasks
    BY <1>5, <2>3, ReaderMoves
  <2>5. in \in Seq(Tasks) /\ (B = "native" => Len(in) <= QueueCap)
    BY <1>0 DEF ReceiverTypes
  <2>6. CASE Head(transit) = CLOSE
    <3>1. in' = in
      BY <1>5, <2>6 DEF ReaderTakes
    <3> QED  BY <1>0, <2>1, <2>2, <3>1 DEF ReceiverTypes
  <2>7. CASE Head(transit) # CLOSE
    <3>1. in' = Append(in, Head(transit)) /\ (B = "native" => Len(in) < QueueCap)
      BY <1>5, <2>7 DEF ReaderTakes
    <3>2. in' \in Seq(Tasks) /\ Len(in') = Len(in) + 1 /\ Len(in) \in Nat
      BY <2>4, <2>5, <2>7, <3>1, Longer
    <3>3. \A k, c \in Nat : k < c => k + 1 <= c
      OBVIOUS
    <3>4. B = "native" => Len(in') <= QueueCap
      BY <3>1, <3>2, <3>3, ByteAssumption
    <3> QED  BY <1>0, <2>1, <2>2, <3>2, <3>4 DEF ReceiverTypes
  <2> QED  BY <2>6, <2>7
<1>6. CASE ReaderFails
  BY <1>0, <1>6 DEF ReaderFails, ReceiverTypes
<1>7. CASE RecvTake
  <2>1. /\ UNCHANGED <<reader, closedB, byB, answered, read, outcome>>
        /\ in # <<>> /\ in' = Tail(in) /\ got' = Append(got, Head(in)) /\ rpc' = "idle"
    BY <1>7 DEF RecvTake, ends
  <2>2. in \in Seq(Tasks) /\ got \in Seq(Tasks) /\ (B = "native" => Len(in) <= QueueCap)
    BY <1>0 DEF ReceiverTypes
  <2>3. /\ Head(in) \in Tasks /\ Tail(in) \in Seq(Tasks)
        /\ Len(in) \in Nat \ {0} /\ Len(Tail(in)) = Len(in) - 1
    BY <2>1, <2>2, Shorter
  <2>4. Append(got, Head(in)) \in Seq(Tasks)
    BY <2>2, <2>3
  <2>5. B = "native" => Len(in) - 1 <= QueueCap
    BY <2>2, <2>3, ByteAssumption
  <2> QED  BY <1>0, <2>1, <2>3, <2>4, <2>5 DEF ReceiverTypes
<1>8. ASSUME NEW t \in Tasks,
             \/ SendStart(t) \/ Cancel(t) \/ LockWriter(t) \/ WritePart(t) \/ WriteFails(t)
             \/ Flush(t) \/ Queue(t)
      PROVE  UNCHANGED <<bSide, closedB, byB, answered>>
  BY <1>8 DEF SendStart, Cancel, LockWriter, WritePart, WriteFails, Flush, Queue, ends
<1>9. CASE CloseA \/ DropA \/ Break \/ WriterTakes
  <2>1. UNCHANGED <<bSide, closedB, byB, answered>>
    BY <1>9 DEF CloseA, DropA, Break, WriterTakes, ends
  <2> QED  BY <1>1, <2>1
<1> QED  BY <1>1, <1>2, <1>3, <1>4, <1>5, <1>6, <1>7, <1>8, <1>9 DEF LinkNext, Work

\* Both hold at the start, and every step keeps them.
LEMMA LinkStarts ==
    ASSUME LinkInit
    PROVE  LinkInv
<1> USE DEF LinkInit
<1>1. LinkTypeOK
  <2>0. \A S : <<>> \in Seq(S)
    OBVIOUS
  <2>1. LineTypes
    BY <2>0 DEF LineTypes
  <2>2. Len(<<>>) = 0
    OBVIOUS
  <2>3. pc \in [Tasks -> {"idle", "lock", "len", "desc", "body", "flush", "queue", "done"}]
    OBVIOUS
  <2>4. returned \in [Tasks -> {"none", "ok", "closed", "io", "cancelled"}]
    OBVIOUS
  <2>5. SenderTypes
    <3>1. out \in Seq(Tasks \cup {CLOSE}) /\ accepted \in Seq(Tasks)
      BY <2>0
    <3>2. Len(out) <= QueueCap /\ cut \subseteq Tasks
      BY <2>2, ByteAssumption
    <3> QED  BY <2>3, <2>4, <3>1, <3>2 DEF SenderTypes
  <2>6. ReceiverTypes
    <3>1. /\ in \in Seq(Tasks) /\ got \in Seq(Tasks)
          /\ read \in Seq(Tasks \X {"len", "desc", "body"})
      BY <2>0
    <3>2. Len(in) <= QueueCap
      BY <2>2, ByteAssumption
    <3> QED  BY <3>1, <3>2 DEF ReceiverTypes
  <2> QED  BY <2>1, <2>5, <2>6, TypesSplit
<1>2. Order /\ ClosedIsLast
  BY DEF Order, ClosedIsLast
<1>3. Sends
  <2>1. A = "stream" <=> B = "stream"
    BY ByteAssumption DEF A, B
  <2> QED  BY <2>1, ByteAssumption DEF Sends, Writing
<1>4. Messages
  BY DEF Messages, Collected, OnTheWay, Queued, Browsing, ReadOut, Passed, Beyond
<1>5. StreamUnits
  BY DEF StreamUnits, Reading, First, Chained, Tip, MidFrame
<1> QED  BY <1>1, <1>2, <1>3, <1>4, <1>5 DEF LinkInv

\* A step that changes no variable of the connection keeps the invariant.
LEMMA LinkStutters ==
    ASSUME LinkInv, UNCHANGED linkVars
    PROVE  LinkInv'
<1> USE DEF linkVars, aSide, bSide, ends, LinkInv
<1>0. A' = A /\ B' = B
  BY DEF A, B
<1>1. LinkTypeOK'
  BY <1>0 DEF LinkTypeOK
<1>2. Order' /\ ClosedIsLast' /\ Sends'
  BY <1>0 DEF Order, ClosedIsLast, Sends
<1>3. Messages'
  BY MessagesStay
<1>4. StreamUnits'
  <2>1. A = "stream" => rpc # "wait"
    BY DEF StreamUnits
  <2> QED  BY <2>1, UnitsStay
<1> QED  BY <1>1, <1>2, <1>3, <1>4

\* The invariant of every reachable state of a connection.
THEOREM LinkInvariant == LinkSpec => []LinkInv
<1>1. LinkInit => LinkInv
  BY LinkStarts
<1>2. LinkInv /\ [LinkNext]_linkVars => LinkInv'
  <2> SUFFICES ASSUME LinkInv, [LinkNext]_linkVars
               PROVE  LinkInv'
    OBVIOUS
  <2>1. CASE LinkNext
    <3>1. LinkTypeOK'
      <4>1. SenderTypes' /\ ReceiverTypes' /\ LineTypes'
        BY <2>1, SenderTypesKept, ReceiverTypesKept, LineTypesKept
      <4> QED  BY <4>1 DEF LinkTypeOK, SenderTypes, ReceiverTypes, LineTypes
    <3>2. Order' /\ Sends' /\ Messages' /\ StreamUnits' /\ ClosedIsLast'
      BY <2>1, OrderKept, SendsKept, MessagesKept, UnitsKept, ClosedKept
    <3> QED  BY <3>1, <3>2 DEF LinkInv
  <2>2. CASE UNCHANGED linkVars
    BY <2>2, LinkStutters
  <2> QED  BY <2>1, <2>2
<1> QED  BY <1>1, <1>2, PTL DEF LinkSpec

\* The variables of a connection stay in their types.
THEOREM LinkTypes == LinkSpec => []LinkTypeOK
<1>1. LinkInv => LinkTypeOK
  BY DEF LinkInv
<1> QED  BY <1>1, LinkInvariant, PTL

\* Frames arrive whole, once, and in the order they got their place on the
\* connection; a receiver loses the boundaries of frames only when a send was
\* dropped with its frame half written.
THEOREM LinkFrames == LinkSpec => []FramesIntact
<1>1. LinkInv => FramesIntact
  <2> SUFFICES ASSUME LinkInv
               PROVE  FramesIntact
    OBVIOUS
  <2>1. got \in Seq(Tasks) /\ accepted \in Seq(Tasks)
    BY DEF LinkInv, LinkTypeOK
  <2>2. Len(got) <= Len(accepted) /\ \A i \in 1 .. Len(got) : got[i] = accepted[i]
    BY DEF LinkInv, Order
  <2>3. IsPrefix(got, accepted)
    BY <2>1, <2>2, PrefixBy
  <2>4. rpc = "lost" => cut # {}
    BY DEF LinkInv, StreamUnits, Messages
  <2> QED  BY <2>3, <2>4 DEF FramesIntact
<1> QED  BY <1>1, LinkInvariant, PTL

\* The receiver that is told Closed has had every frame accepted before the
\* sender closed or ended, except on the native WebSocket.
THEOREM LinkCloses == LinkSpec => []ClosedIsComplete
<1>1. LinkInv => ClosedIsComplete
  <2> SUFFICES ASSUME LinkInv, outcome = "closed", ~byB, ~broken, B # "native"
               PROVE  IsPrefix(SubSeq(accepted, 1, IF closeMark = NoMark THEN Len(accepted)
                                                   ELSE closeMark), got)
    BY DEF ClosedIsComplete
  <2>1. got \in Seq(Tasks) /\ accepted \in Seq(Tasks)
    BY DEF LinkInv, LinkTypeOK
  <2>2. Len(got) <= Len(accepted) /\ \A i \in 1 .. Len(got) : got[i] = accepted[i]
    BY DEF LinkInv, Order
  <2>3. PICK m \in 0 .. Len(accepted) : m = IF closeMark = NoMark THEN Len(accepted) ELSE closeMark
    <3>1. Len(accepted) \in 0 .. Len(accepted)
      BY <2>1
    <3> QED  BY <3>1 DEF LinkInv, LinkTypeOK
  <2>4. m <= Len(got)
    <3>1. CASE B = "stream"
      <4>1. Len(got) = Len(accepted)
        BY <3>1 DEF LinkInv, ClosedIsLast
      <4> QED  BY <2>1, <4>1
    <3>2. CASE B = "wasm"
      <4>1. reader = "off" /\ in = <<>> /\ A # "stream"
        BY <3>2 DEF LinkInv, ClosedIsLast, Sends
      <4>2. Passed = closeMark
        BY <4>1 DEF LinkInv, Messages, ReadOut
      <4>3. Len(got) = closeMark
        BY <2>1, <4>1, <4>2 DEF Passed
      <4>4. closeMark # NoMark
        BY <2>1, <4>3 DEF NoMark
      <4> QED  BY <2>1, <2>3, <4>3, <4>4
    <3> QED  BY <3>1, <3>2, EndKinds DEF LinkInv
  <2>5. /\ SubSeq(accepted, 1, m) \in Seq(Tasks) /\ Len(SubSeq(accepted, 1, m)) = m
        /\ \A i \in 1 .. m : SubSeq(accepted, 1, m)[i] = accepted[i]
    BY <2>1, CutShort
  <2>6. \A i \in 1 .. m : i \in 1 .. Len(got)
    BY <2>1, <2>4
  <2>7. \A i \in 1 .. m : SubSeq(accepted, 1, m)[i] = got[i]
    BY <2>2, <2>5, <2>6
  <2>8. IsPrefix(SubSeq(accepted, 1, m), got)
    BY <2>1, <2>4, <2>5, <2>7, PrefixBy
  <2> QED  BY <2>3, <2>8
<1> QED  BY <1>1, LinkInvariant, PTL

-----------------------------------------------------------------------------
(* The clients *)

\* What is in the map has not been settled, and whoever waits is in it.
CallerInv(c) ==
    /\ id[c] < nextMsgId
    /\ state[c] = "idle" => id[c] \notin pending /\ settled[c] = 0
    /\ id[c] \in pending => settled[c] = 0
    /\ settled[c] <= 1
    /\ state[c] = "waiting" => id[c] \in pending

\* Ids are handed out once, in order.
MapInv ==
    /\ state \in [Callers -> {"idle", "waiting", "done"}]
    /\ id \in [Callers -> Nat] /\ settled \in [Callers -> Nat]
    /\ nextMsgId \in Nat /\ nextMsgId > 0
    /\ pending \subseteq 1 .. nextMsgId - 1
    /\ \A c \in Callers : CallerInv(c)

\* At first no call is in the map and no id has been handed out.
LEMMA MapInit == Init => MapInv
BY DEF Init, MapInv, CallerInv

\* Whatever entries are settled, and with whatever verdict.
LEMMA SettleKeepsMap ==
  ASSUME MapInv, NEW ids, NEW verdict, Settle(ids, verdict), UNCHANGED nextMsgId
  PROVE  MapInv'
<1>1. \A c \in Callers :
        LET found == id[c] \in ids /\ id[c] \in pending IN
        /\ state'[c] = IF found /\ state[c] = "waiting" THEN "done" ELSE state[c]
        /\ settled'[c] = IF found THEN settled[c] + 1 ELSE settled[c]
  BY DEF Settle
<1>2. /\ DOMAIN state' = Callers /\ state' = [c \in Callers |-> state'[c]]
      /\ DOMAIN settled' = Callers /\ settled' = [c \in Callers |-> settled'[c]]
      /\ pending' = pending \ ids
      /\ id' = id
  BY DEF Settle
<1>3. ASSUME NEW c \in Callers
      PROVE  /\ state'[c] \in {"idle", "waiting", "done"}
             /\ settled'[c] \in Nat
             /\ CallerInv(c)'
  <2>1. pending' = pending \ ids /\ id' = id /\ nextMsgId' = nextMsgId
    BY <1>2
  <2>2. CallerInv(c) /\ state[c] \in {"idle", "waiting", "done"} /\ settled[c] \in Nat
    BY DEF MapInv
  <2>3. /\ state'[c] = IF id[c] \in ids /\ id[c] \in pending /\ state[c] = "waiting"
                       THEN "done" ELSE state[c]
        /\ settled'[c] = IF id[c] \in ids /\ id[c] \in pending
                         THEN settled[c] + 1 ELSE settled[c]
    BY <1>1
  <2> QED
    BY <2>1, <2>2, <2>3 DEF CallerInv
<1>4. /\ state' \in [Callers -> {"idle", "waiting", "done"}]
      /\ settled' \in [Callers -> Nat]
  BY <1>2, <1>3
<1> QED
  BY <1>2, <1>3, <1>4 DEF MapInv

LEMMA RejectAllKeepsMap ==
  ASSUME MapInv, NEW r, RejectAll(r), UNCHANGED nextMsgId
  PROVE  MapInv'
BY SettleKeepsMap DEF RejectAll

LEMMA HandleFrameKeepsMap ==
  ASSUME MapInv, NEW f, HandleFrame(f), UNCHANGED nextMsgId
  PROVE  MapInv'
BY SettleKeepsMap DEF HandleFrame

LEMMA UnchangedKeepsMap ==
  ASSUME MapInv, UNCHANGED <<app, nextMsgId>>
  PROVE  MapInv'
BY DEF MapInv, CallerInv, app

\* A caller that was idle gets an id of its own.
LEMMA CallKeepsMap ==
  ASSUME MapInv, NEW c \in Callers, CallTs(c) \/ CallSwift(c)
  PROVE  MapInv'
<1>1. CASE UNCHANGED <<id, nextMsgId, pending, settled>>
           /\ state' = [state EXCEPT ![c] = "done"]
  BY <1>1 DEF MapInv, CallerInv
<1>2. CASE /\ Register(c) /\ state[c] = "idle" /\ UNCHANGED settled
           /\ \E s \in {"waiting", "done"} : state' = [state EXCEPT ![c] = s]
  <2>1. /\ id' = [id EXCEPT ![c] = nextMsgId]
        /\ nextMsgId' = nextMsgId + 1
        /\ pending' = pending \cup {nextMsgId}
    BY <1>2 DEF Register
  <2>2. PICK s \in {"waiting", "done"} : state' = [state EXCEPT ![c] = s]
    BY <1>2
  <2>3. /\ state' \in [Callers -> {"idle", "waiting", "done"}]
        /\ id' \in [Callers -> Nat]
        /\ settled' \in [Callers -> Nat]
        /\ nextMsgId' \in Nat /\ nextMsgId' > 0
        /\ pending' \subseteq 1 .. nextMsgId' - 1
    BY <1>2, <2>1, <2>2 DEF MapInv
  <2>4. ASSUME NEW d \in Callers PROVE CallerInv(d)'
    <3>1. CASE d = c
      BY <1>2, <2>1, <2>2, <3>1 DEF MapInv, CallerInv
    <3>2. CASE d # c
      BY <1>2, <2>1, <2>2, <3>2 DEF MapInv, CallerInv
    <3> QED
      BY <3>1, <3>2
  <2> QED
    BY <2>3, <2>4 DEF MapInv
<1> QED
  BY <1>1, <1>2 DEF CallTs, CallSwift

LEMMA MapStep == MapInv /\ [Next]_vars => MapInv'
<1> SUFFICES ASSUME MapInv, [Next]_vars PROVE MapInv'
  OBVIOUS
<1> USE DEF net
<1>1. ASSUME NEW c \in Callers, CallTs(c) \/ CallSwift(c) PROVE MapInv'
  BY <1>1, CallKeepsMap
<1>2. ASSUME NEW c \in Callers, SendTs(c) \/ SendSwift(c) \/ Answer(c) PROVE MapInv'
  BY <1>2, UnchangedKeepsMap DEF SendTs, SendSwift, Answer
<1>3. ASSUME NEW c \in Callers, SendError(c) PROVE MapInv'
  BY <1>3, SettleKeepsMap DEF SendError
<1>4. CASE OnMessage
  BY <1>4, UnchangedKeepsMap, RejectAllKeepsMap DEF OnMessage
<1>5. CASE OnClose
  BY <1>5, UnchangedKeepsMap, RejectAllKeepsMap DEF OnClose
<1>6. CASE LoopTurn
  BY <1>6, HandleFrameKeepsMap DEF LoopTurn
<1>7. CASE CloseTs
  BY <1>7, RejectAllKeepsMap DEF CloseTs
<1>8. CASE ReadBody
  BY <1>8, HandleFrameKeepsMap DEF ReadBody
<1>9. CASE ReadFails
  BY <1>9, RejectAllKeepsMap DEF ReadFails
<1>10. CASE CloseFailsPending
  BY <1>10, RejectAllKeepsMap DEF CloseFailsPending
<1>11. CASE OddFrame \/ Disconnect \/ ReadHead \/ CloseBegin \/ CloseConnection
  BY <1>11, UnchangedKeepsMap DEF OddFrame, Disconnect, ReadHead, CloseBegin, CloseConnection
<1>12. CASE UNCHANGED vars
  BY <1>12, UnchangedKeepsMap DEF vars
<1> QED
  BY <1>1, <1>2, <1>3, <1>4, <1>5, <1>6, <1>7, <1>8, <1>9, <1>10, <1>11, <1>12
  DEF Next, Client

\* Of all the ways a call may end, exactly one comes first, whoever else is on
\* the way (RapaceClient.swift:39, client.ts:159).
THEOREM CallsSettledOnce == FairSpec => []SettledOnce
<1>1. MapInv => SettledOnce
  BY DEF MapInv, CallerInv, SettledOnce
<1> QED
  BY <1>1, MapInit, MapStep, PTL DEF FairSpec
====
