---- MODULE TunnelStreamProofs ----
(***************************************************************************)
(* For all amounts of data, chunk lengths and capacities: the types of a   *)
(* tunnel stream; that nothing follows its EOS; and, when the opener waits *)
(* for the other side, that no byte is skipped and none is missing at the  *)
(* end.  DataInv follows a direction frame by frame from the reader to the *)
(* writer.                                                                 *)
(***************************************************************************)
EXTENDS TunnelStream, TLAPS, SequenceTheorems

USE TunnelAssumption

LEMMA OtherSide ==
  ASSUME NEW s \in Sides
  PROVE  /\ Other(s) \in Sides /\ Other(s) # s /\ Other(Other(s)) = s
         /\ \A t \in Sides : t = s \/ t = Other(s)
<1>1. \A t \in Sides : \E o \in Sides : o # t /\ \A x \in Sides : x = t \/ x = o
  OBVIOUS
<1>2. \A t \in Sides : Other(t) \in Sides /\ Other(t) # t
  BY <1>1 DEF Other
<1> QED
  BY <1>1, <1>2

LEMMA Bytes ==
  ASSUME NEW n \in Nat
  PROVE  LastByte(n) \in Nat /\ (n # 0 => LastByte(n - 1) \in Nat /\ LastByte(n) = LastByte(n - 1) + ChunkLen)
BY DEF LastByte

LEMMA Appended ==
  ASSUME NEW q \in Seq(Frames), NEW x \in Frames
  PROVE  /\ Append(q, x) \in Seq(Frames) /\ Len(Append(q, x)) = Len(q) + 1 /\ Len(q) \in Nat
         /\ \A i \in 1 .. Len(q) : Append(q, x)[i] = q[i]
         /\ Append(q, x)[Len(q) + 1] = x /\ Append(q, x) # <<>>
BY AppendProperties, LenProperties

LEMMA Shifted ==
  ASSUME NEW q \in Seq(Frames), q # <<>>
  PROVE  /\ Tail(q) \in Seq(Frames) /\ Len(q) \in Nat \ {0} /\ Len(Tail(q)) = Len(q) - 1
         /\ \A i \in 1 .. Len(q) - 1 : Tail(q)[i] = q[i + 1]
         /\ Head(q) = q[1] /\ q[1] \in Frames
BY HeadTailProperties, EmptySeq, ElementOfSeq

-----------------------------------------------------------------------------
LEMMA TypeInit == Init => TypeOK
BY EmptySeq DEF Init, TypeOK, None, Frames, EOS

\* One queue changes and stays within its limit.
LEMMA QueueType ==
  ASSUME NEW Q \in [Sides -> Seq(Frames)], NEW s \in Sides, NEW q \in Seq(Frames), NEW cap,
         \A t \in Sides : Len(Q[t]) <= cap, Len(q) <= cap
  PROVE  /\ [Q EXCEPT ![s] = q] \in [Sides -> Seq(Frames)]
         /\ \A t \in Sides : Len([Q EXCEPT ![s] = q][t]) <= cap
OBVIOUS

LEMMA WireAppendType ==
  ASSUME TypeOK, NEW s \in Sides, NEW x \in Frames, Room(s),
         wire' = [wire EXCEPT ![s] = Append(@, x)]
  PROVE  /\ wire' \in [Sides -> Seq(Frames)]
         /\ \A t \in Sides : Len(wire'[t]) <= WireCapacity
<1>1. wire \in [Sides -> Seq(Frames)] /\ \A t \in Sides : Len(wire[t]) <= WireCapacity
  BY DEF TypeOK
<1>2. Append(wire[s], x) \in Seq(Frames) /\ Len(Append(wire[s], x)) <= WireCapacity
  BY <1>1, Appended DEF Room
<1> QED
  BY <1>1, <1>2, QueueType

LEMMA CopyType ==
  ASSUME TypeOK, NEW s \in Sides, NEW n \in Frames \ {EOS}, NEW o \in 0 .. ChunkLen - 1,
         Copy(s, n, o)
  PROVE  /\ read_chunk' \in [Sides -> (Frames \ {EOS}) \cup {None}]
         /\ read_chunk_offset' \in [Sides -> 0 .. ChunkLen - 1]
         /\ read_eof' \in [Sides -> BOOLEAN]
         /\ at' \in [Sides -> Nat]
         /\ gap' \in [Sides -> BOOLEAN]
         /\ again' \in [Sides -> BOOLEAN]
<1>1. LastByte(n - 1) + o + 1 \in Nat
  BY Bytes DEF Frames, EOS
<1>2. at' \in [Sides -> Nat] /\ read_eof' \in [Sides -> BOOLEAN]
  BY <1>1 DEF Copy, TypeOK
<1>3. gap' \in [Sides -> BOOLEAN]
  BY <1>1 DEF Copy, TypeOK
<1>4. again' \in [Sides -> BOOLEAN]
  BY <1>1 DEF Copy, TypeOK
<1>5. /\ read_chunk' \in [Sides -> (Frames \ {EOS}) \cup {None}]
      /\ read_chunk_offset' \in [Sides -> 0 .. ChunkLen - 1]
  <2>1. CASE /\ o + 1 < ChunkLen
             /\ read_chunk' = [read_chunk EXCEPT ![s] = n]
             /\ read_chunk_offset' = [read_chunk_offset EXCEPT ![s] = o + 1]
    <3>1. o + 1 \in 0 .. ChunkLen - 1
      BY <2>1
    <3> QED
      BY <2>1, <3>1 DEF TypeOK
  <2>2. CASE /\ read_chunk' = [read_chunk EXCEPT ![s] = None]
             /\ read_chunk_offset' = [read_chunk_offset EXCEPT ![s] = 0]
    <3>1. 0 \in 0 .. ChunkLen - 1
      OBVIOUS
    <3> QED
      BY <2>2, <3>1 DEF TypeOK
  <2> QED
    BY <2>1, <2>2 DEF Copy
<1> QED
  BY <1>2, <1>3, <1>4, <1>5

LEMMA TypeStep == TypeOK /\ [Next]_vars => TypeOK'
<1> SUFFICES ASSUME TypeOK, [Next]_vars PROVE TypeOK'
  OBVIOUS
<1> DEFINE WireOK == /\ wire' \in [Sides -> Seq(Frames)]
                     /\ \A t \in Sides : Len(wire'[t]) <= WireCapacity
           RxOK == /\ rx' \in [Sides -> Seq(Frames)]
                   /\ \A t \in Sides : Len(rx'[t]) <= TunnelCapacity
<1>1. ASSUME NEW s \in Sides, Accept(s) PROVE TypeOK'
  BY <1>1 DEF TypeOK, Accept, readSide, writeSide
<1>2. ASSUME NEW s \in Sides, RouteToTunnel(s) PROVE TypeOK'
  <2>1. PICK o \in Sides : o = Other(s)
    BY OtherSide
  <2>2. wire[o] \in Seq(Frames) /\ wire[o] # <<>> /\ Len(wire[o]) <= WireCapacity
    BY <1>2, <2>1 DEF TypeOK, RouteToTunnel
  <2>3. Tail(wire[o]) \in Seq(Frames) /\ Len(Tail(wire[o])) <= WireCapacity
        /\ Head(wire[o]) \in Frames
    BY <2>2, Shifted
  <2>4. wire' = [wire EXCEPT ![o] = Tail(wire[o])]
        /\ held' = [held EXCEPT ![s] = IF tunnels[s] THEN Head(wire[o]) ELSE None]
    BY <1>2, <2>1 DEF RouteToTunnel
  <2>5. WireOK
    BY <2>3, <2>4, QueueType DEF TypeOK
  <2>6. held' \in [Sides -> Frames \cup {None}]
    BY <2>3, <2>4 DEF TypeOK
  <2> QED
    BY <1>2, <2>5, <2>6 DEF TypeOK, RouteToTunnel, readSide, writeSide
<1>3. ASSUME NEW s \in Sides, Deliver(s) PROVE TypeOK'
  <2>1. rx[s] \in Seq(Frames) /\ held[s] \in Frames
    BY <1>3 DEF TypeOK, Deliver
  <2>2. RxOK
    <3>1. CASE UNCHANGED rx
      BY <3>1 DEF TypeOK
    <3>2. CASE Len(rx[s]) < TunnelCapacity /\ rx' = [rx EXCEPT ![s] = Append(@, held[s])]
      <4>1. Append(rx[s], held[s]) \in Seq(Frames) /\ Len(Append(rx[s], held[s])) <= TunnelCapacity
        BY <2>1, <3>2, Appended
      <4> QED
        BY <3>2, <4>1, QueueType, SMTT(60) DEF TypeOK
    <3> QED
      BY <1>3, <3>1, <3>2 DEF Deliver
  <2>3. tunnels' \in [Sides -> BOOLEAN]
    BY <1>3 DEF TypeOK, Deliver
  <2>4. held' \in [Sides -> Frames \cup {None}]
    BY <1>3 DEF TypeOK, Deliver
  <2> QED
    BY <1>3, <2>2, <2>3, <2>4 DEF TypeOK, Deliver, readSide, writeSide
<1>4. ASSUME NEW s \in Sides, ReadBuffered(s) PROVE TypeOK'
  <2>1. read_chunk[s] \in Frames \ {EOS} /\ read_chunk_offset[s] \in 0 .. ChunkLen - 1
    BY <1>4 DEF TypeOK, ReadBuffered
  <2>2. Copy(s, read_chunk[s], read_chunk_offset[s])
    BY <1>4 DEF ReadBuffered
  <2> QED
    BY <1>4, <2>1, <2>2, CopyType DEF TypeOK, ReadBuffered, writeSide
<1>5. ASSUME NEW s \in Sides, ReadChunk(s) PROVE TypeOK'
  <2>1. rx[s] \in Seq(Frames) /\ rx[s] # <<>> /\ Len(rx[s]) <= TunnelCapacity
    BY <1>5 DEF TypeOK, ReadChunk
  <2>2. Head(rx[s]) \in Frames \ {EOS} /\ Tail(rx[s]) \in Seq(Frames)
        /\ Len(Tail(rx[s])) <= TunnelCapacity /\ 0 \in 0 .. ChunkLen - 1
    BY <1>5, <2>1, Shifted DEF ReadChunk
  <2>3. RxOK
    BY <1>5, <2>2, QueueType DEF TypeOK, ReadChunk
  <2>4. Copy(s, Head(rx[s]), 0)
    BY <1>5 DEF ReadChunk
  <2> QED
    BY <1>5, <2>2, <2>3, <2>4, CopyType DEF TypeOK, ReadChunk, writeSide
<1>6. ASSUME NEW s \in Sides, ReadEos(s) PROVE TypeOK'
  <2>1. rx[s] \in Seq(Frames) /\ rx[s] # <<>> /\ Len(rx[s]) <= TunnelCapacity
    BY <1>6 DEF TypeOK, ReadEos
  <2>2. Tail(rx[s]) \in Seq(Frames) /\ Len(Tail(rx[s])) <= TunnelCapacity
    BY <2>1, Shifted
  <2>3. RxOK
    BY <1>6, <2>2, QueueType DEF TypeOK, ReadEos
  <2> QED
    BY <1>6, <2>3 DEF TypeOK, ReadEos, writeSide
<1>7. ASSUME NEW s \in Sides, PollWriteNew(s) PROVE TypeOK'
  <2>1. written[s] + 1 \in Frames \ {EOS} /\ written[s] + 1 <= Chunks[s]
    BY <1>7, SMTT(60) DEF TypeOK, Frames, EOS, PollWriteNew, MayWrite
  <2>2. WireOK
    <3>1. CASE UNCHANGED wire
      BY <3>1 DEF TypeOK
    <3>2. CASE Room(s) /\ wire' = [wire EXCEPT ![s] = Append(@, written[s] + 1)]
      BY <2>1, <3>2, WireAppendType
    <3> QED
      BY <1>7, <3>1, <3>2 DEF PollWriteNew
  <2>3. written' \in [Sides -> Nat] /\ \A t \in Sides : written'[t] <= Chunks[t]
    BY <1>7, <2>1, SMTT(60) DEF TypeOK, PollWriteNew
  <2>4. pending_send' = pending_send \/ pending_send' = [pending_send EXCEPT ![s] = written[s] + 1]
    BY <1>7 DEF PollWriteNew
  <2>5. pending_send' \in [Sides -> (Frames \ {EOS}) \cup {None}]
    BY <2>1, <2>4 DEF TypeOK
  <2> QED
    BY <1>7, <2>2, <2>3, <2>5 DEF TypeOK, PollWriteNew, readSide
<1>8. ASSUME NEW s \in Sides, PollWriteAgain(s) PROVE TypeOK'
  <2>0. pending_send[s] \in Frames /\ wire[s] \in Seq(Frames)
    BY <1>8 DEF TypeOK, PollWriteAgain
  <2>1. written[s] + 1 \in Frames \ {EOS} /\ written[s] + 1 <= Chunks[s]
    <3>1. MayWrite(s)
      BY <1>8 DEF PollWriteAgain
    <3>2. written[s] \in Nat /\ written[s] < Chunks[s] /\ Chunks[s] \in Nat
      BY <3>1 DEF TypeOK, MayWrite
    <3> QED
      BY <3>2 DEF Frames, EOS
  <2> DEFINE q == Append(wire[s], pending_send[s])
  <2>2. q \in Seq(Frames) /\ Len(q) <= WireCapacity
    BY <1>8, <2>0, Appended DEF PollWriteAgain, Room
  <2>3. WireOK
    <3>1. CASE wire' = [wire EXCEPT ![s] = q]
      BY <2>2, <3>1, QueueType, SMTT(60) DEF TypeOK
    <3>2. CASE Len(q) < WireCapacity /\ wire' = [wire EXCEPT ![s] = Append(q, written[s] + 1)]
      <4>1. Append(q, written[s] + 1) \in Seq(Frames)
            /\ Len(Append(q, written[s] + 1)) <= WireCapacity
        BY <2>1, <2>2, <3>2, Appended
      <4> QED
        BY <3>2, <4>1, QueueType, SMTT(60) DEF TypeOK
    <3> QED
      BY <1>8, <3>1, <3>2 DEF PollWriteAgain
  <2>4. \/ /\ written' = [written EXCEPT ![s] = @ + 1]
           /\ pending_send' = [pending_send EXCEPT ![s] = None]
        \/ /\ written' = written
           /\ pending_send' = [pending_send EXCEPT ![s] = written[s] + 1]
    BY <1>8 DEF PollWriteAgain
  <2>5. written' \in [Sides -> Nat] /\ \A t \in Sides : written'[t] <= Chunks[t]
    BY <2>1, <2>4, SMTT(60) DEF TypeOK
  <2>6. pending_send' \in [Sides -> (Frames \ {EOS}) \cup {None}]
    BY <2>1, <2>4, SMTT(60) DEF TypeOK
  <2> QED
    BY <1>8, <2>3, <2>5, <2>6 DEF TypeOK, PollWriteAgain, readSide
<1>9. ASSUME NEW s \in Sides, PollWriteFails(s) PROVE TypeOK'
  BY <1>9 DEF TypeOK, PollWriteFails, readSide
<1>10. ASSUME NEW s \in Sides, PollFlush(s) PROVE TypeOK'
  <2>1. pending_send[s] \in Frames
    BY <1>10 DEF TypeOK, PollFlush
  <2>2. WireOK
    BY <1>10, <2>1, WireAppendType DEF PollFlush
  <2>3. pending_send' \in [Sides -> (Frames \ {EOS}) \cup {None}]
    BY <1>10 DEF TypeOK, PollFlush
  <2> QED
    BY <1>10, <2>2, <2>3 DEF TypeOK, PollFlush, readSide
<1>11. ASSUME NEW s \in Sides, PollShutdown(s) PROVE TypeOK'
  BY <1>11 DEF TypeOK, PollShutdown, readSide
<1>12. ASSUME NEW s \in Sides, Drop(s) PROVE TypeOK'
  <2>1. RxOK
    BY <1>12, EmptySeq, QueueType DEF TypeOK, Drop
  <2>2. closing' \in [Sides -> BOOLEAN]
    BY <1>12 DEF TypeOK, Drop
  <2> QED
    BY <1>12, <2>1, <2>2 DEF TypeOK, Drop, readSide
<1>13. ASSUME NEW s \in Sides, CloseTunnel(s) PROVE TypeOK'
  <2>1. EOS \in Frames
    BY DEF Frames, EOS
  <2>2. WireOK
    <3>1. CASE UNCHANGED wire
      BY <3>1 DEF TypeOK
    <3>2. CASE Room(s) /\ wire' = [wire EXCEPT ![s] = Append(@, EOS)]
      BY <2>1, <3>2, WireAppendType
    <3> QED
      BY <1>13, <3>1, <3>2 DEF CloseTunnel
  <2> QED
    BY <1>13, <2>2 DEF TypeOK, CloseTunnel, readSide, writeSide
<1>14. CASE Disconnect
  <2>1. <<>> \in Seq(Frames) /\ Len(<<>>) = 0
    BY EmptySeq
  <2>2. WireOK
    BY <1>14, <2>1 DEF Disconnect
  <2> QED
    BY <1>14, <2>2 DEF TypeOK, Disconnect, readSide, writeSide
<1>15. CASE UNCHANGED vars
  BY <1>15 DEF TypeOK, vars, readSide, writeSide
<1> QED
  BY <1>1, <1>2, <1>3, <1>4, <1>5, <1>6, <1>7, <1>8, <1>9, <1>10, <1>11, <1>12, <1>13,
     <1>14, <1>15 DEF Next, Demux, Read, Write

\* Type correctness for all parameters.
THEOREM TunnelTypes == Spec => []TypeOK
BY TypeInit, TypeStep, PTL DEF Spec

-----------------------------------------------------------------------------
(* Nothing follows the EOS *)

\* s will not write again.
Quiet(s) == write_closed[s] \/ stream[s] = "dropped"

EosSeenAt(s, o) ==
    \/ read_eof[o] \/ held[o] = EOS
    \/ \E i \in 1 .. Len(rx[o]) : rx[o][i] = EOS
    \/ \E i \in 1 .. Len(wire[s]) : wire[s][i] = EOS

\* The direction from s to o: the EOS is the last of what is on its way, and who
\* has sent it, or will, has nothing in flight and sends it once.
EosAt(s, o) ==
    /\ \A i \in 1 .. Len(wire[s]) : wire[s][i] = EOS => i = Len(wire[s])
    /\ held[o] = EOS => wire[s] = <<>>
    /\ \A i \in 1 .. Len(rx[o]) : rx[o][i] = EOS =>
           i = Len(rx[o]) /\ held[o] = None /\ wire[s] = <<>>
    /\ read_eof[o] => rx[o] = <<>> /\ held[o] = None /\ wire[s] = <<>>
    /\ EosSeenAt(s, o) => ~closing[s] /\ Quiet(s)
    /\ closing[s] => Quiet(s)
    /\ Quiet(s) => pending_send[s] = None

EosInv == \A s \in Sides : EosAt(s, Other(s))

LEMMA EosInit == Init => EosInv
<1> SUFFICES ASSUME Init, NEW s \in Sides, NEW o \in Sides PROVE EosAt(s, o)
  BY OtherSide DEF EosInv
<1>1. Len(<<>>) = 0
  BY EmptySeq
<1> QED
  BY <1>1 DEF Init, EosAt, EosSeenAt, Quiet, None, EOS

\* A step that touches nothing of a direction.
LEMMA EosSame ==
  ASSUME NEW s \in Sides, NEW o \in Sides, EosAt(s, o),
         wire'[s] = wire[s], held'[o] = held[o], rx'[o] = rx[o],
         read_eof'[o] = read_eof[o], closing'[s] = closing[s],
         Quiet(s)' = Quiet(s), pending_send'[s] = pending_send[s]
  PROVE  EosAt(s, o)'
BY DEF EosAt, EosSeenAt

\* s sends x and has not sent the EOS before.
LEMMA EosSends ==
  ASSUME NEW s \in Sides, NEW o \in Sides, EosAt(s, o), NEW x \in Frames,
         wire[s] \in Seq(Frames), ~EosSeenAt(s, o), wire'[s] = Append(wire[s], x),
         held'[o] = held[o], rx'[o] = rx[o], read_eof'[o] = read_eof[o],
         x = EOS => ~closing'[s] /\ Quiet(s)',
         closing'[s] => Quiet(s)',
         Quiet(s)' => pending_send'[s] = None
  PROVE  EosAt(s, o)'
<1>1. /\ Len(wire'[s]) = Len(wire[s]) + 1 /\ Len(wire[s]) \in Nat
      /\ \A i \in 1 .. Len(wire[s]) : wire'[s][i] = wire[s][i]
      /\ wire'[s][Len(wire[s]) + 1] = x
  BY Appended
<1>2. \A i \in 1 .. Len(wire'[s]) : wire'[s][i] = EOS => i = Len(wire'[s]) /\ x = EOS
  BY <1>1 DEF EosSeenAt
<1> QED
  BY <1>2 DEF EosAt, EosSeenAt

LEMMA EosStep == TypeOK /\ EosInv /\ [Next]_vars => EosInv'
<1> SUFFICES ASSUME TypeOK, EosInv, [Next]_vars, NEW s \in Sides, NEW o \in Sides,
                    o = Other(s), s = Other(o), o # s, \A t \in Sides : t = s \/ t = o,
                    EosAt(s, o)
             PROVE  EosAt(s, o)'
  BY OtherSide DEF EosInv
<1>0. /\ wire[s] \in Seq(Frames) /\ rx[o] \in Seq(Frames)
      /\ held[o] \in Frames \cup {None} /\ EOS \in Frames /\ None \notin Frames
  BY DEF TypeOK, Frames, EOS, None
<1>1. ASSUME NEW t \in Sides, Accept(t) PROVE EosAt(s, o)'
  <2>1. Quiet(s)' = Quiet(s)
    BY <1>1 DEF Accept, Quiet, TypeOK, writeSide
  <2> QED
    BY <1>1, <2>1, EosSame DEF Accept, readSide, writeSide
<1>2. ASSUME NEW t \in Sides, RouteToTunnel(t) PROVE EosAt(s, o)'
  <2>1. CASE t = s
    BY <1>2, <2>1, EosSame DEF RouteToTunnel, TypeOK, Quiet, readSide, writeSide
  <2>2. CASE t = o
    <3>1. /\ held[o] = None /\ wire[s] # <<>>
          /\ wire'[s] = Tail(wire[s])
          /\ held'[o] \in {Head(wire[s]), None}
          /\ rx'[o] = rx[o] /\ read_eof'[o] = read_eof[o] /\ closing'[s] = closing[s]
          /\ Quiet(s)' = Quiet(s) /\ pending_send'[s] = pending_send[s]
      BY <1>2, <2>2 DEF RouteToTunnel, TypeOK, Quiet, readSide, writeSide
    <3>2. /\ Len(wire'[s]) = Len(wire[s]) - 1 /\ Len(wire[s]) \in Nat \ {0}
          /\ \A i \in 1 .. Len(wire[s]) - 1 : wire'[s][i] = wire[s][i + 1]
          /\ Head(wire[s]) = wire[s][1] /\ wire'[s] \in Seq(Frames)
      BY <1>0, <3>1, Shifted
    <3>a. \A i \in 1 .. Len(wire[s]) : wire[s][i] = EOS => i = Len(wire[s])
      BY DEF EosAt
    <3>3. ASSUME NEW i \in 1 .. Len(wire'[s]), wire'[s][i] = EOS PROVE i = Len(wire'[s])
      <4>1. i + 1 \in 1 .. Len(wire[s]) /\ wire[s][i + 1] = EOS
        BY <3>2, <3>3
      <4> QED
        BY <3>a, <3>2, <4>1
    <3>4. held'[o] = EOS => wire'[s] = <<>>
      <4>1. held'[o] = EOS => Len(wire'[s]) = 0
        <5> SUFFICES ASSUME held'[o] = EOS PROVE Len(wire'[s]) = 0
          OBVIOUS
        <5>1. wire[s][1] = EOS /\ 1 \in 1 .. Len(wire[s])
          BY <1>0, <3>1, <3>2
        <5>2. 1 = Len(wire[s])
          BY <3>a, <5>1
        <5> QED
          BY <3>2, <5>2
      <4> QED
        BY <3>2, <4>1, EmptySeq
    <3>5. \A i \in 1 .. Len(rx[o]) : rx[o][i] # EOS
      BY <3>1 DEF EosAt
    <3>6. ~read_eof[o]
      BY <3>1 DEF EosAt
    <3>7. EosSeenAt(s, o)' => EosSeenAt(s, o)
      BY <1>0, <3>1, <3>2 DEF EosSeenAt
    <3> QED
      BY <3>1, <3>3, <3>4, <3>5, <3>6, <3>7 DEF EosAt
  <2> QED
    BY <2>1, <2>2
<1>3. ASSUME NEW t \in Sides, Deliver(t) PROVE EosAt(s, o)'
  <2>1. CASE t = s
    BY <1>3, <2>1, EosSame DEF Deliver, TypeOK, Quiet, readSide, writeSide
  <2>2. CASE t = o
    <3>1. /\ held[o] \in Frames /\ held'[o] = None
          /\ rx'[o] = rx[o] \/ rx'[o] = Append(rx[o], held[o])
          /\ wire'[s] = wire[s] /\ read_eof'[o] = read_eof[o] /\ closing'[s] = closing[s]
          /\ Quiet(s)' = Quiet(s) /\ pending_send'[s] = pending_send[s]
      BY <1>3, <2>2, SMTT(60) DEF Deliver, TypeOK, Quiet, readSide, writeSide
    <3>2. \A i \in 1 .. Len(rx[o]) : rx[o][i] # EOS
      BY <1>0, <3>1 DEF EosAt
    <3>3. /\ \A i \in 1 .. Len(rx'[o]) : rx'[o][i] = EOS =>
                 i = Len(rx'[o]) /\ held[o] = EOS
      BY <1>0, <3>1, <3>2, Appended, SMTT(60)
    <3>4. ~read_eof[o]
      BY <1>0, <3>1 DEF EosAt
    <3>5. EosSeenAt(s, o)' => EosSeenAt(s, o)
      BY <1>0, <3>1, <3>3 DEF EosSeenAt
    <3> QED
      BY <1>0, <3>1, <3>3, <3>4, <3>5 DEF EosAt
  <2> QED
    BY <2>1, <2>2
<1>4. ASSUME NEW t \in Sides, ReadBuffered(t) PROVE EosAt(s, o)'
  BY <1>4, EosSame DEF ReadBuffered, Copy, Quiet, writeSide
<1>5. ASSUME NEW t \in Sides, ReadChunk(t) \/ ReadEos(t) PROVE EosAt(s, o)'
  <2>1. CASE t = s
    BY <1>5, <2>1, EosSame, SMTT(60) DEF ReadChunk, ReadEos, Copy, TypeOK, Quiet, writeSide
  <2>2. CASE t = o
    <3>1. /\ rx[o] # <<>> /\ ~read_eof[o] /\ rx'[o] = Tail(rx[o])
          /\ wire'[s] = wire[s] /\ held'[o] = held[o] /\ closing'[s] = closing[s]
          /\ Quiet(s)' = Quiet(s) /\ pending_send'[s] = pending_send[s]
      BY <1>5, <2>2 DEF ReadChunk, ReadEos, Copy, TypeOK, Quiet, writeSide
    <3>2. read_eof'[o] => Head(rx[o]) = EOS
      BY <1>5, <2>2, <3>1 DEF ReadChunk, ReadEos, Copy, TypeOK
    <3>3. /\ Len(rx'[o]) = Len(rx[o]) - 1 /\ Len(rx[o]) \in Nat \ {0}
          /\ \A i \in 1 .. Len(rx[o]) - 1 : rx'[o][i] = rx[o][i + 1]
          /\ Head(rx[o]) = rx[o][1] /\ rx'[o] \in Seq(Frames)
      BY <1>0, <3>1, Shifted
    <3>4. read_eof'[o] => rx'[o] = <<>> /\ held[o] = None /\ wire[s] = <<>>
      <4>1. read_eof'[o] => Len(rx'[o]) = 0 /\ held[o] = None /\ wire[s] = <<>>
        BY <3>2, <3>3 DEF EosAt
      <4> QED
        BY <3>3, <4>1, EmptySeq
    <3>a. \A i \in 1 .. Len(rx[o]) : rx[o][i] = EOS =>
              i = Len(rx[o]) /\ held[o] = None /\ wire[s] = <<>>
      BY DEF EosAt
    <3>b. ASSUME NEW i \in 1 .. Len(rx'[o])
          PROVE  i + 1 \in 1 .. Len(rx[o]) /\ rx'[o][i] = rx[o][i + 1]
      BY <3>3
    <3>5. \A i \in 1 .. Len(rx'[o]) : rx'[o][i] = EOS =>
              i = Len(rx'[o]) /\ held[o] = None /\ wire[s] = <<>>
      BY <3>a, <3>b, <3>3
    <3>6. EosSeenAt(s, o)' => EosSeenAt(s, o)
      <4>1. (\E i \in 1 .. Len(rx'[o]) : rx'[o][i] = EOS) =>
                \E i \in 1 .. Len(rx[o]) : rx[o][i] = EOS
        BY <3>b
      <4>2. read_eof'[o] => \E i \in 1 .. Len(rx[o]) : rx[o][i] = EOS
        BY <3>2, <3>3
      <4> QED
        BY <3>1, <4>1, <4>2 DEF EosSeenAt
    <3> QED
      BY <3>1, <3>4, <3>5, <3>6 DEF EosAt
  <2> QED
    BY <2>1, <2>2
<1>6. ASSUME NEW t \in Sides, PollWriteFails(t) \/ PollShutdown(t) PROVE EosAt(s, o)'
  <2>1. CASE t = s
    <3>1. ~Quiet(s)
      BY <1>6, <2>1 DEF PollWriteFails, PollShutdown, MayWrite, Usable, Quiet
    <3>2. ~EosSeenAt(s, o) /\ ~EosSeenAt(s, o)'
      BY <1>6, <3>1 DEF EosAt, EosSeenAt, PollWriteFails, PollShutdown, readSide
    <3>3. pending_send'[s] = None /\ (closing'[s] => Quiet(s)')
      BY <1>6, <2>1, <3>1 DEF PollWriteFails, PollShutdown, TypeOK, EosAt, Quiet
    <3> QED
      BY <1>6, <3>2, <3>3 DEF EosAt, EosSeenAt, PollWriteFails, PollShutdown, readSide
  <2>2. CASE t = o
    BY <1>6, <2>2, EosSame DEF PollWriteFails, PollShutdown, TypeOK, Quiet, readSide
  <2> QED
    BY <2>1, <2>2
<1>7. ASSUME NEW t \in Sides, PollWriteNew(t) \/ PollFlush(t) PROVE EosAt(s, o)'
  <2>1. CASE t = s
    <3>1. ~Quiet(s) /\ Quiet(s)' = Quiet(s) /\ closing'[s] = closing[s]
          /\ held'[o] = held[o] /\ rx'[o] = rx[o] /\ read_eof'[o] = read_eof[o]
      BY <1>7, <2>1 DEF PollWriteNew, PollFlush, MayWrite, Usable, Quiet, readSide
    <3>2. ~EosSeenAt(s, o)
      BY <3>1 DEF EosAt
    <3>3. CASE wire' = wire
      BY <3>1, <3>2, <3>3 DEF EosAt, EosSeenAt
    <3>4. CASE \E x \in Frames \ {EOS} : wire' = [wire EXCEPT ![s] = Append(@, x)]
      <4>1. PICK x \in Frames \ {EOS} : wire' = [wire EXCEPT ![s] = Append(@, x)]
        BY <3>4
      <4>2. wire'[s] = Append(wire[s], x)
        BY <4>1 DEF TypeOK
      <4>3. ~closing'[s] /\ ~Quiet(s)' /\ x # EOS /\ x \in Frames
        BY <3>1, <4>1 DEF EosAt
      <4> QED
        BY <1>0, <3>1, <3>2, <4>2, <4>3, EosSends
    <3>5. written[s] + 1 \in Frames \ {EOS}
      BY SMTT(60) DEF TypeOK, Frames, EOS
    <3>6. PollFlush(s) => pending_send[s] \in Frames \ {EOS}
      BY DEF PollFlush, TypeOK
    <3>7. CASE PollWriteNew(s)
      <4>1. wire' = wire \/ wire' = [wire EXCEPT ![s] = Append(@, written[s] + 1)]
        BY <3>7 DEF PollWriteNew
      <4> QED
        BY <3>3, <3>4, <3>5, <4>1
    <3>8. CASE PollFlush(s)
      <4>1. wire' = [wire EXCEPT ![s] = Append(@, pending_send[s])]
        BY <3>8 DEF PollFlush
      <4> QED
        BY <3>4, <3>6, <3>8, <4>1
    <3> QED
      BY <1>7, <2>1, <3>7, <3>8
  <2>2. CASE t = o
    <3>1. /\ wire'[s] = wire[s] /\ pending_send'[s] = pending_send[s]
      BY <1>7, <2>2, SMTT(60) DEF PollWriteNew, PollFlush, TypeOK
    <3> QED
      BY <1>7, <3>1, EosSame DEF PollWriteNew, PollFlush, Quiet, readSide
  <2> QED
    BY <2>1, <2>2
<1>8. ASSUME NEW t \in Sides, PollWriteAgain(t) PROVE EosAt(s, o)'
  <2>1. CASE t = s
    <3>1. ~Quiet(s) /\ Quiet(s)' = Quiet(s) /\ closing'[s] = closing[s]
          /\ held'[o] = held[o] /\ rx'[o] = rx[o] /\ read_eof'[o] = read_eof[o]
      BY <1>8, <2>1 DEF PollWriteAgain, MayWrite, Usable, Quiet, readSide
    <3>2. ~EosSeenAt(s, o)
      BY <3>1 DEF EosAt
    <3>3. pending_send[s] \in Frames \ {EOS}
      BY <1>8, <2>1 DEF PollWriteAgain, TypeOK
    <3>4. written[s] + 1 \in Frames \ {EOS}
      BY SMTT(60) DEF TypeOK, Frames, EOS
    <3> DEFINE q == Append(wire[s], pending_send[s])
    <3>5. q \in Seq(Frames) /\ Len(q) \in Nat /\ \A i \in 1 .. Len(q) : q[i] # EOS
      BY <1>0, <3>2, <3>3, Appended DEF EosSeenAt
    <3>6. wire'[s] = q \/ wire'[s] = Append(q, written[s] + 1)
      BY <1>8, <2>1 DEF PollWriteAgain, TypeOK
    <3> HIDE DEF q
    <3>a. ASSUME NEW i \in 1 .. Len(Append(q, written[s] + 1))
          PROVE  Append(q, written[s] + 1)[i] # EOS
      <4>1. i \in 1 .. Len(q) \/ i = Len(q) + 1
        BY <3>4, <3>5, Appended
      <4> QED
        BY <3>4, <3>5, <4>1, Appended
    <3>7. \A i \in 1 .. Len(wire'[s]) : wire'[s][i] # EOS
      BY <3>5, <3>6, <3>a
    <3> QED
      BY <3>1, <3>2, <3>7 DEF EosAt, EosSeenAt
  <2>2. CASE t = o
    BY <1>8, <2>2, EosSame, SMTT(60) DEF PollWriteAgain, TypeOK, Quiet, readSide
  <2> QED
    BY <2>1, <2>2
<1>9. ASSUME NEW t \in Sides, Drop(t) PROVE EosAt(s, o)'
  <2>1. CASE t = s
    <3>1. /\ Quiet(s)' /\ pending_send'[s] = None
          /\ closing'[s] = (closing[s] \/ ~write_closed[s])
          /\ wire'[s] = wire[s] /\ held'[o] = held[o] /\ rx'[o] = rx[o]
          /\ read_eof'[o] = read_eof[o]
      BY <1>9, <2>1 DEF Drop, TypeOK, Quiet, readSide
    <3>2. EosSeenAt(s, o) => write_closed[s]
      BY <1>9, <2>1 DEF EosAt, Quiet, Drop, Usable
    <3> QED
      BY <3>1, <3>2 DEF EosAt, EosSeenAt
  <2>2. CASE t = o
    <3>1. /\ rx'[o] = <<>> /\ wire'[s] = wire[s] /\ held'[o] = held[o]
          /\ read_eof'[o] = read_eof[o] /\ closing'[s] = closing[s]
          /\ Quiet(s)' = Quiet(s) /\ pending_send'[s] = pending_send[s]
      BY <1>9, <2>2 DEF Drop, TypeOK, Quiet, readSide
    <3>2. Len(rx'[o]) = 0
      BY <3>1, EmptySeq
    <3> QED
      BY <3>1, <3>2 DEF EosAt, EosSeenAt
  <2> QED
    BY <2>1, <2>2
<1>10. ASSUME NEW t \in Sides, CloseTunnel(t) PROVE EosAt(s, o)'
  <2>1. CASE t = s
    <3>1. /\ closing[s] /\ ~closing'[s] /\ Quiet(s)' = Quiet(s)
          /\ pending_send'[s] = pending_send[s]
          /\ held'[o] = held[o] /\ rx'[o] = rx[o] /\ read_eof'[o] = read_eof[o]
      BY <1>10, <2>1 DEF CloseTunnel, TypeOK, Quiet, readSide, writeSide
    <3>2. ~EosSeenAt(s, o) /\ Quiet(s) /\ pending_send[s] = None
      BY <3>1 DEF EosAt
    <3>3. wire'[s] = wire[s] \/ wire'[s] = Append(wire[s], EOS)
      BY <1>10, <2>1 DEF CloseTunnel, TypeOK
    <3>4. CASE wire'[s] = wire[s]
      BY <3>1, <3>2, <3>4 DEF EosAt, EosSeenAt
    <3>5. CASE wire'[s] = Append(wire[s], EOS)
      BY <1>0, <3>1, <3>2, <3>5, EosSends
    <3> QED
      BY <3>3, <3>4, <3>5
  <2>2. CASE t = o
    BY <1>10, <2>2, EosSame, ZenonT(60) DEF CloseTunnel, TypeOK, Quiet, readSide, writeSide
  <2> QED
    BY <2>1, <2>2
<1>11. CASE Disconnect
  <2>1. /\ wire'[s] = <<>> /\ Len(wire'[s]) = 0 /\ held'[o] = None
    BY <1>11, EmptySeq DEF Disconnect
  <2> QED
    BY <1>0, <1>11, <2>1 DEF Disconnect, EosAt, EosSeenAt, Quiet, readSide, writeSide
<1>12. CASE UNCHANGED vars
  BY <1>12, EosSame DEF vars, Quiet, readSide, writeSide
<1> QED
  BY <1>1, <1>2, <1>3, <1>4, <1>5, <1>6, <1>7, <1>8, <1>9, <1>10, <1>11, <1>12
  DEF Next, Demux, Read, Write

\* The EOS is the last frame of its direction wherever it is, and nobody will
\* send anything after it (poll_shutdown, drop, close_tunnel).
THEOREM EosIsLast == Spec => []NothingFollowsEos
<1>1. EosInv => NothingFollowsEos
  BY DEF EosInv, EosAt, EosSeenAt, NothingFollowsEos, EosSeen
<1> QED
  BY <1>1, TypeInit, TypeStep, EosInit, EosStep, PTL DEF Spec

-----------------------------------------------------------------------------
(* No byte is skipped *)

LEMMA BytesGrow ==
  ASSUME NEW m \in Nat, NEW n \in Nat, m <= n
  PROVE  LastByte(m) <= LastByte(n)
<1>1. PICK k \in Nat : n = m + k
  <2>1. n - m \in Nat /\ n = m + (n - m)
    OBVIOUS
  <2> QED
    BY <2>1
<1>2. (m + k) * ChunkLen = m * ChunkLen + k * ChunkLen /\ k * ChunkLen \in Nat
      /\ m * ChunkLen \in Nat
  OBVIOUS
<1> QED
  BY <1>1, <1>2 DEF LastByte

\* Where the data of a frame begins, and where the data of a queue ends that
\* comes after byte p; an EOS has none.
Begin(x) == IF x = EOS THEN 0 ELSE LastByte(x - 1)
DataEnd(p, q) ==
    IF q = <<>> THEN p
    ELSE IF q[Len(q)] # EOS THEN LastByte(q[Len(q)])
    ELSE IF Len(q) = 1 THEN p ELSE LastByte(q[Len(q) - 1])

\* No frame of the queue begins past the end of the one before it, nor its first
\* one past p.
NoGap(p, q) ==
    /\ q # <<>> => Begin(q[1]) <= p
    /\ \A i \in 1 .. Len(q) - 1 : Begin(q[i + 1]) <= LastByte(q[i])

LEMMA FrameBytes ==
  ASSUME NEW x \in Frames
  PROVE  LastByte(x) \in Nat /\ Begin(x) \in Nat /\ Begin(x) <= LastByte(x)
<1>1. LastByte(x) \in Nat /\ (x # 0 => LastByte(x - 1) \in Nat
                                  /\ LastByte(x) = LastByte(x - 1) + ChunkLen)
  BY Bytes DEF Frames
<1> QED
  BY <1>1 DEF Begin, EOS

LEMMA DataEndType ==
  ASSUME NEW p \in Nat, NEW q \in Seq(Frames)
  PROVE  DataEnd(p, q) \in Nat
<1>1. CASE q = <<>>
  BY <1>1 DEF DataEnd
<1>2. CASE q # <<>>
  <2>1. Len(q) \in Nat \ {0} /\ \A i \in 1 .. Len(q) : q[i] \in Frames
    BY <1>2, EmptySeq, ElementOfSeq
  <2>2. \A i \in 1 .. Len(q) : LastByte(q[i]) \in Nat
    BY <2>1, FrameBytes
  <2>3. Len(q) \in 1 .. Len(q) /\ (Len(q) # 1 => Len(q) - 1 \in 1 .. Len(q))
    <3>1. \A n \in Nat \ {0} : n \in 1 .. n /\ (n # 1 => n - 1 \in 1 .. n)
      OBVIOUS
    <3> QED
      BY <2>1, <3>1
  <2> QED
    BY <1>2, <2>2, <2>3 DEF DataEnd
<1> QED
  BY <1>1, <1>2

\* A frame that begins where the queue ends, or before, may follow it.
LEMMA GapFreeAppend ==
  ASSUME NEW p \in Nat, NEW q \in Seq(Frames), NEW x \in Frames,
         \A i \in 1 .. Len(q) : q[i] # EOS,
         NoGap(p, q), Begin(x) <= DataEnd(p, q)
  PROVE  /\ NoGap(p, Append(q, x))
         /\ DataEnd(p, Append(q, x)) = IF x = EOS THEN DataEnd(p, q) ELSE LastByte(x)
<1> DEFINE r == Append(q, x)
<1>1. /\ r \in Seq(Frames) /\ Len(r) = Len(q) + 1 /\ Len(q) \in Nat
      /\ \A i \in 1 .. Len(q) : r[i] = q[i]
      /\ r[Len(q) + 1] = x /\ r # <<>>
  BY Appended
<1> HIDE DEF r
<1>2. CASE q = <<>>
  <2>1. Len(q) = 0
    BY <1>2, EmptySeq
  <2> QED
    BY <1>1, <1>2, <2>1 DEF NoGap, DataEnd, r
<1>3. CASE q # <<>>
  <2>1. Len(q) \in Nat \ {0}
    BY <1>3, EmptySeq
  <2>2. DataEnd(p, q) = LastByte(q[Len(q)])
    BY <1>3, <2>1 DEF DataEnd
  <2>3. DataEnd(p, r) = IF x = EOS THEN DataEnd(p, q) ELSE LastByte(x)
    BY <1>1, <2>1, <2>2 DEF DataEnd
  <2>4. Begin(r[1]) <= p
    BY <1>1, <1>3, <2>1 DEF NoGap
  <2>5. ASSUME NEW i \in 1 .. Len(r) - 1 PROVE Begin(r[i + 1]) <= LastByte(r[i])
    <3>1. CASE i = Len(q)
      BY <1>1, <2>1, <2>2, <3>1
    <3>2. CASE i # Len(q)
      <4>1. i \in 1 .. Len(q) - 1 /\ i + 1 \in 1 .. Len(q) /\ i \in 1 .. Len(q)
        BY <1>1, <3>2
      <4> QED
        BY <1>1, <4>1 DEF NoGap
    <3> QED
      BY <3>1, <3>2
  <2> QED
    BY <2>3, <2>4, <2>5 DEF NoGap, r
<1> QED
  BY <1>2, <1>3

\* Its first chunk taken away, the rest follows that.
LEMMA GapFreeTail ==
  ASSUME NEW p \in Nat, NEW q \in Seq(Frames), q # <<>>, Head(q) # EOS, NoGap(p, q)
  PROVE  /\ Begin(Head(q)) <= p
         /\ NoGap(LastByte(Head(q)), Tail(q))
         /\ DataEnd(LastByte(Head(q)), Tail(q)) = DataEnd(p, q)
<1> DEFINE r == Tail(q)
<1>1. /\ r \in Seq(Frames) /\ Len(q) \in Nat \ {0} /\ Len(r) = Len(q) - 1
      /\ \A i \in 1 .. Len(q) - 1 : r[i] = q[i + 1]
      /\ Head(q) = q[1]
  BY Shifted
<1> HIDE DEF r
<1>2. r = <<>> <=> Len(q) = 1
  BY <1>1, EmptySeq
<1>3. Begin(Head(q)) <= p
  BY <1>1 DEF NoGap
<1>4. NoGap(LastByte(Head(q)), r)
  <2>1. r # <<>> => Begin(r[1]) <= LastByte(q[1])
    <3> SUFFICES ASSUME r # <<>> PROVE Begin(r[1]) <= LastByte(q[1])
      OBVIOUS
    <3>1. 1 \in 1 .. Len(q) - 1
      BY <1>1, <1>2
    <3> QED
      BY <1>1, <3>1 DEF NoGap
  <2>2. ASSUME NEW i \in 1 .. Len(r) - 1 PROVE Begin(r[i + 1]) <= LastByte(r[i])
    <3>1. i \in 1 .. Len(q) - 1 /\ i + 1 \in 1 .. Len(q) - 1
      BY <1>1
    <3>2. r[i] = q[i + 1] /\ r[i + 1] = q[(i + 1) + 1]
      BY <1>1, <3>1
    <3> QED
      BY <3>1, <3>2 DEF NoGap
  <2> QED
    BY <1>1, <2>1, <2>2 DEF NoGap
<1>5. DataEnd(LastByte(Head(q)), r) = DataEnd(p, q)
  <2>1. CASE Len(q) = 1
    BY <1>1, <1>2, <2>1 DEF DataEnd
  <2>2. CASE Len(q) # 1
    <3>1. Len(r) \in 1 .. Len(q) - 1 /\ r[Len(r)] = q[Len(q)]
      BY <1>1, <2>2
    <3>2. Len(r) # 1 => Len(r) - 1 \in 1 .. Len(q) - 1 /\ r[Len(r) - 1] = q[Len(q) - 1]
      BY <1>1, <2>2, SMTT(60)
    <3>3. Len(r) = 1 => q[Len(q) - 1] = Head(q)
      BY <1>1
    <3> QED
      BY <1>1, <1>2, <2>2, <3>1, <3>2, <3>3 DEF DataEnd
  <2> QED
    BY <2>1, <2>2
<1> QED
  BY <1>3, <1>4, <1>5 DEF r

\* The byte at which the chunk in hand ends, and the data up to the end of the
\* receiver, of the frame in the hands of the demux loop, and of the wire.
InHand(o) == IF read_chunk[o] = None THEN at[o] ELSE LastByte(read_chunk[o])
InReceiver(o) == DataEnd(InHand(o), rx[o])
InDemux(o) == IF held[o] \in {None, EOS} THEN InReceiver(o) ELSE LastByte(held[o])
OnWire(s, o) == DataEnd(InDemux(o), wire[s])

\* No chunk is numbered past the one that is being written.
BoundAt(s, o) ==
    /\ \A i \in 1 .. Len(wire[s]) : wire[s][i] <= written[s] + 1
    /\ held[o] <= written[s] + 1
    /\ \A i \in 1 .. Len(rx[o]) : rx[o][i] <= written[s] + 1
    /\ read_chunk[o] <= written[s] + 1
    /\ at[o] <= LastByte(written[s] + 1)

\* The reader is read_chunk_offset bytes into its chunk, and has missed none.
ReadAt(s, o) ==
    /\ read_chunk[o] # None =>
           /\ read_chunk_offset[o] > 0
           /\ at[o] = LastByte(read_chunk[o] - 1) + read_chunk_offset[o]
    /\ ~gap[o]
    /\ read_eof[o] => LastByte(written[s]) <= at[o]

\* From the reader to the end of the wire there is no gap; and what is there goes
\* as far as what was written, unless it was lost with the connection.
ChainAt(s, o) ==
    stream[o] # "dropped" =>
        /\ NoGap(InHand(o), rx[o])
        /\ held[o] # None => Begin(held[o]) <= InReceiver(o)
        /\ NoGap(InDemux(o), wire[s])
        /\ up \/ (\E i \in 1 .. Len(rx[o]) : rx[o][i] = EOS) =>
               LastByte(written[s]) <= OnWire(s, o)

\* Nothing is sent before o has its stream, and its frames are thrown away after
\* the EOS only.
OpenAt(s, o) ==
    /\ stream[o] = "none" =>
           s = Opener /\ wire[s] = <<>> /\ held[o] = None /\ ~closing[s]
           /\ pending_send[s] = None
    /\ stream[o] = "live" /\ ~tunnels[o] =>
           read_eof[o] \/ \E i \in 1 .. Len(rx[o]) : rx[o][i] = EOS
    /\ pending_send[s] # None => pending_send[s] = written[s] + 1
    /\ held[o] # None => up

DataAt(s, o) == BoundAt(s, o) /\ ReadAt(s, o) /\ ChainAt(s, o) /\ OpenAt(s, o)

DataInv == \A s \in Sides : DataAt(s, Other(s))

LEMMA DataInit == Init => DataInv
<1> SUFFICES ASSUME Init, NEW s \in Sides, NEW o \in Sides, o # s,
                    \A t \in Sides : t = s \/ t = o
             PROVE  DataAt(s, o)
  BY OtherSide DEF DataInv
<1>1. Len(<<>>) = 0 /\ LastByte(0) = 0 /\ LastByte(1) \in Nat
  BY EmptySeq DEF LastByte
<1>2. BoundAt(s, o) /\ ReadAt(s, o)
  BY <1>1 DEF Init, BoundAt, ReadAt, None
<1>3. ChainAt(s, o)
  BY <1>1 DEF Init, ChainAt, NoGap, InDemux, InHand, InReceiver, OnWire, DataEnd
<1>4. OpenAt(s, o)
  BY DEF Init, OpenAt
<1> QED
  BY <1>2, <1>3, <1>4 DEF DataAt

\* A step that touches nothing of a direction, or only says that it will end.
LEMMA DataSame ==
  ASSUME NEW s \in Sides, NEW o \in Sides, DataAt(s, o),
         wire'[s] = wire[s], written'[s] = written[s],
         pending_send'[s] = pending_send[s] \/ pending_send'[s] = None,
         closing'[s] = closing[s] \/ ~closing'[s] \/ stream[o] # "none", held'[o] = held[o], rx'[o] = rx[o],
         tunnels'[o] = tunnels[o], stream'[o] = stream[o], read_chunk'[o] = read_chunk[o],
         read_chunk_offset'[o] = read_chunk_offset[o], at'[o] = at[o], gap'[o] = gap[o],
         read_eof'[o] = read_eof[o], up' = up
  PROVE  DataAt(s, o)'
<1>1. BoundAt(s, o)' /\ ReadAt(s, o)' /\ OpenAt(s, o)'
  BY DEF DataAt, BoundAt, ReadAt, OpenAt
<1>2. /\ InHand(o)' = InHand(o) /\ InReceiver(o)' = InReceiver(o)
      /\ InDemux(o)' = InDemux(o) /\ OnWire(s, o)' = OnWire(s, o)
  BY DEF InHand, InReceiver, InDemux, OnWire
<1>3. ChainAt(s, o)'
  BY <1>2 DEF DataAt, ChainAt
<1> QED
  BY <1>1, <1>3 DEF DataAt

\* A step of the writer.
LEMMA DataWritten ==
  ASSUME TypeOK, NEW s \in Sides, NEW o \in Sides, DataAt(s, o),
         held'[o] = held[o], rx'[o] = rx[o], tunnels'[o] = tunnels[o],
         stream'[o] = stream[o], read_chunk'[o] = read_chunk[o],
         read_chunk_offset'[o] = read_chunk_offset[o], at'[o] = at[o], gap'[o] = gap[o],
         read_eof'[o] = read_eof[o], stream[o] # "none", up' = up,
         written'[s] \in {written[s], written[s] + 1},
         pending_send'[s] # None => pending_send'[s] = written'[s] + 1,
         \A i \in 1 .. Len(wire'[s]) : wire'[s][i] <= written'[s] + 1,
         read_eof[o] => written'[s] = written[s],
         stream[o] # "dropped" =>
             NoGap(InDemux(o), wire'[s]) /\ LastByte(written'[s]) <= DataEnd(InDemux(o), wire'[s])
  PROVE  DataAt(s, o)'
<1>1. /\ InHand(o)' = InHand(o) /\ InReceiver(o)' = InReceiver(o)
      /\ InDemux(o)' = InDemux(o) /\ OnWire(s, o)' = DataEnd(InDemux(o), wire'[s])
  BY DEF InHand, InReceiver, InDemux, OnWire
<1>2. ChainAt(s, o)'
  BY <1>1 DEF DataAt, ChainAt
<1>3. OpenAt(s, o)'
  BY DEF DataAt, OpenAt
<1>4. ReadAt(s, o)'
  BY DEF DataAt, ReadAt
<1>5. BoundAt(s, o)'
  <2>1. /\ written[s] \in Nat /\ written'[s] \in Nat /\ written[s] <= written'[s]
        /\ held[o] \in Frames \cup {None} /\ read_chunk[o] \in Frames \cup {None}
        /\ rx[o] \in Seq(Frames) /\ at[o] \in Nat
    BY SMTT(60) DEF TypeOK
  <2>2. LastByte(written[s] + 1) <= LastByte(written'[s] + 1)
        /\ LastByte(written[s] + 1) \in Nat /\ LastByte(written'[s] + 1) \in Nat
    <3>1. /\ written[s] + 1 \in Nat /\ written'[s] + 1 \in Nat
          /\ written[s] + 1 <= written'[s] + 1
      BY <2>1
    <3> QED
      BY <3>1, BytesGrow, Bytes
  <2>3. \A i \in 1 .. Len(rx[o]) : rx[o][i] \in Nat
    BY <2>1, ElementOfSeq DEF Frames
  <2>4. held[o] \in Int /\ read_chunk[o] \in Int
    BY <2>1 DEF Frames, None
  <2>5. \A i \in 1 .. Len(rx[o]) : rx'[o][i] <= written'[s] + 1
    BY <2>1, <2>3 DEF DataAt, BoundAt
  <2>6. held'[o] <= written'[s] + 1 /\ read_chunk'[o] <= written'[s] + 1
    BY <2>1, <2>4 DEF DataAt, BoundAt
  <2>7. at'[o] <= LastByte(written'[s] + 1)
    BY <2>1, <2>2 DEF DataAt, BoundAt
  <2> QED
    BY <2>5, <2>6, <2>7 DEF BoundAt
<1> QED
  BY <1>2, <1>3, <1>4, <1>5 DEF DataAt

\* The demux loop of o takes a frame.
LEMMA DataRouted ==
  ASSUME TypeOK, NEW s \in Sides, NEW o \in Sides, o # s, s = Other(o), EosAt(s, o),
         DataAt(s, o), RouteToTunnel(o)
  PROVE  DataAt(s, o)'
<1>1. /\ up /\ held[o] = None /\ wire[s] # <<>> /\ wire[s] \in Seq(Frames)
      /\ wire'[s] = Tail(wire[s])
      /\ held'[o] = IF tunnels[o] THEN Head(wire[s]) ELSE None
      /\ UNCHANGED <<up, rx, tunnels, stream, readSide, writeSide, closing>>
  BY DEF RouteToTunnel, TypeOK
<1>2. /\ Tail(wire[s]) \in Seq(Frames) /\ Len(wire[s]) \in Nat \ {0}
      /\ Len(Tail(wire[s])) = Len(wire[s]) - 1
      /\ \A i \in 1 .. Len(wire[s]) - 1 : Tail(wire[s])[i] = wire[s][i + 1]
      /\ Head(wire[s]) = wire[s][1] /\ Head(wire[s]) \in Frames
  BY <1>1, Shifted
<1>3. BoundAt(s, o)'
  <2>1. ASSUME NEW i \in 1 .. Len(wire'[s]) PROVE wire'[s][i] <= written[s] + 1
    <3>1. i + 1 \in 1 .. Len(wire[s]) /\ wire'[s][i] = wire[s][i + 1]
      BY <1>1, <1>2
    <3> QED
      BY <3>1 DEF DataAt, BoundAt
  <2>2. held'[o] <= written[s] + 1
    <3>1. 1 \in 1 .. Len(wire[s])
      BY <1>2
    <3>2. Head(wire[s]) <= written[s] + 1
      BY <1>2, <3>1 DEF DataAt, BoundAt
    <3> QED
      BY <1>1, <3>2 DEF DataAt, BoundAt
  <2> QED
    BY <1>1, <2>1, <2>2 DEF DataAt, BoundAt, readSide, writeSide
<1>4. ReadAt(s, o)'
  BY <1>1 DEF DataAt, ReadAt, readSide, writeSide
<1>5. OpenAt(s, o)'
  BY <1>1 DEF DataAt, OpenAt, readSide, writeSide
<1>6. ChainAt(s, o)'
  <2> SUFFICES ASSUME stream[o] # "dropped" PROVE ChainAt(s, o)'
    BY <1>1 DEF ChainAt
  <2>1. stream[o] = "live"
    BY <1>1 DEF DataAt, OpenAt, TypeOK
  <2>2. tunnels[o] /\ held'[o] = Head(wire[s])
    BY <1>1, <2>1 DEF DataAt, OpenAt, EosAt
  <2>3. /\ InHand(o)' = InHand(o) /\ InReceiver(o)' = InReceiver(o)
        /\ InDemux(o) = InReceiver(o)
    BY <1>1 DEF InHand, InReceiver, InDemux, readSide
  <2>4. /\ NoGap(InHand(o), rx[o]) /\ NoGap(InDemux(o), wire[s])
        /\ LastByte(written[s]) <= OnWire(s, o)
    BY <1>1 DEF DataAt, ChainAt
  <2>5. InHand(o) \in Nat /\ InReceiver(o) \in Nat
    <3>1. at[o] \in Nat /\ read_chunk[o] \in Frames \cup {None} /\ rx[o] \in Seq(Frames)
      BY DEF TypeOK
    <3>2. InHand(o) \in Nat
      BY <3>1, FrameBytes DEF InHand
    <3> QED
      BY <3>1, <3>2, DataEndType DEF InReceiver
  <2>6. Begin(Head(wire[s])) <= InReceiver(o)
    BY <1>1, <1>2, <2>3, <2>4 DEF NoGap
  <2>7. NoGap(InDemux(o)', Tail(wire[s])) /\ DataEnd(InDemux(o)', Tail(wire[s])) = OnWire(s, o)
    <3>1. CASE Head(wire[s]) # EOS
      <4>1. InDemux(o)' = LastByte(Head(wire[s]))
        <5>1. Head(wire[s]) \notin {None, EOS}
          BY <1>2, <3>1 DEF Frames, None
        <5> QED
          BY <2>2, <5>1 DEF InDemux
      <4> QED
        BY <1>1, <2>3, <2>4, <2>5, <3>1, <4>1, GapFreeTail DEF OnWire
    <3>2. CASE Head(wire[s]) = EOS
      <4>1. InDemux(o)' = InReceiver(o)
        BY <2>2, <2>3, <3>2 DEF InDemux
      <4>2. Len(wire[s]) = 1
        <5>1. 1 \in 1 .. Len(wire[s])
          BY <1>2
        <5> QED
          BY <1>2, <3>2, <5>1 DEF EosAt
      <4>3. Tail(wire[s]) = <<>> /\ Len(Tail(wire[s])) = 0
        <5>1. Len(Tail(wire[s])) = 0
          BY <1>2, <4>2
        <5> QED
          BY <1>2, <5>1, EmptySeq
      <4>4. OnWire(s, o) = InReceiver(o)
        BY <1>1, <1>2, <2>3, <3>2, <4>2 DEF OnWire, DataEnd
      <4> QED
        BY <4>1, <4>3, <4>4 DEF NoGap, DataEnd
    <3> QED
      BY <3>1, <3>2
  <2>8. OnWire(s, o)' = DataEnd(InDemux(o)', wire'[s])
    BY DEF OnWire
  <2> QED
    BY <1>1, <2>2, <2>3, <2>4, <2>6, <2>7, <2>8 DEF ChainAt, readSide, writeSide
<1> QED
  BY <1>3, <1>4, <1>5, <1>6 DEF DataAt

\* It hands the frame to a receiver that is there, and has room; the receiver of
\* a dropped stream is gone.
LEMMA DataDelivered ==
  ASSUME TypeOK, NEW s \in Sides, NEW o \in Sides, o # s, EosAt(s, o), DataAt(s, o),
         Deliver(o)
  PROVE  DataAt(s, o)'
<1>1. /\ held[o] \in Frames /\ held[o] # None /\ held'[o] = None
      /\ rx[o] \in Seq(Frames) /\ wire[s] \in Seq(Frames)
      /\ tunnels'[o] = (tunnels[o] /\ stream[o] # "dropped" /\ held[o] # EOS)
      /\ \/ stream[o] = "dropped" /\ rx'[o] = rx[o]
         \/ stream[o] # "dropped" /\ rx'[o] = Append(rx[o], held[o])
      /\ UNCHANGED <<up, wire, stream, readSide, writeSide, closing>>
  BY DEF Deliver, TypeOK
<1>2. /\ Append(rx[o], held[o]) \in Seq(Frames) /\ Len(rx[o]) \in Nat
      /\ Len(Append(rx[o], held[o])) = Len(rx[o]) + 1
      /\ \A i \in 1 .. Len(rx[o]) : Append(rx[o], held[o])[i] = rx[o][i]
      /\ Append(rx[o], held[o])[Len(rx[o]) + 1] = held[o]
  BY <1>1, Appended
<1>3. BoundAt(s, o)'
  <2>1. ASSUME NEW i \in 1 .. Len(rx'[o]) PROVE rx'[o][i] <= written[s] + 1
    <3>1. CASE rx'[o] = rx[o]
      BY <3>1 DEF DataAt, BoundAt
    <3>2. CASE rx'[o] = Append(rx[o], held[o])
      <4>1. i \in 1 .. Len(rx[o]) \/ i = Len(rx[o]) + 1
        BY <1>2, <3>2
      <4> QED
        BY <1>2, <3>2, <4>1 DEF DataAt, BoundAt
    <3> QED
      BY <1>1, <3>1, <3>2
  <2>2. None <= written[s] + 1
    BY DEF TypeOK, None
  <2> QED
    BY <1>1, <2>1, <2>2 DEF DataAt, BoundAt, readSide, writeSide
<1>4. ReadAt(s, o)'
  BY <1>1 DEF DataAt, ReadAt, readSide, writeSide
<1>5. OpenAt(s, o)'
  <2>1. stream[o] # "none"
    BY <1>1 DEF DataAt, OpenAt
  <2>2. stream[o] = "live" /\ ~tunnels'[o] =>
            read_eof[o] \/ \E i \in 1 .. Len(rx'[o]) : rx'[o][i] = EOS
    <3> SUFFICES ASSUME stream[o] = "live", ~tunnels'[o]
                 PROVE  read_eof[o] \/ \E i \in 1 .. Len(rx'[o]) : rx'[o][i] = EOS
      OBVIOUS
    <3>1. rx'[o] = Append(rx[o], held[o])
      BY <1>1
    <3>2. CASE held[o] = EOS
      <4>1. Len(rx[o]) + 1 \in 1 .. Len(rx'[o])
        BY <1>2, <3>1
      <4> QED
        BY <1>2, <3>1, <3>2, <4>1
    <3>3. CASE held[o] # EOS
      <4>1. read_eof[o] \/ \E i \in 1 .. Len(rx[o]) : rx[o][i] = EOS
        BY <1>1, <3>3 DEF DataAt, OpenAt
      <4>2. 1 .. Len(rx[o]) \subseteq 1 .. Len(rx'[o])
        BY <1>2, <3>1
      <4> QED
        BY <1>2, <3>1, <4>1, <4>2
    <3> QED
      BY <3>2, <3>3
  <2> QED
    BY <1>1, <2>1, <2>2 DEF DataAt, OpenAt, writeSide, readSide
<1>6. ChainAt(s, o)'
  <2> SUFFICES ASSUME stream[o] # "dropped" PROVE ChainAt(s, o)'
    BY <1>1 DEF ChainAt
  <2>1. rx'[o] = Append(rx[o], held[o]) /\ InHand(o)' = InHand(o)
    BY <1>1 DEF InHand, readSide
  <2>2. \A i \in 1 .. Len(rx[o]) : rx[o][i] # EOS
    BY <1>1 DEF EosAt
  <2>3. /\ NoGap(InHand(o), rx[o]) /\ Begin(held[o]) <= DataEnd(InHand(o), rx[o])
        /\ NoGap(InDemux(o), wire[s])
        /\ up => LastByte(written[s]) <= OnWire(s, o)
    BY <1>1 DEF DataAt, ChainAt, InReceiver
  <2>4. InHand(o) \in Nat
    <3>1. at[o] \in Nat /\ read_chunk[o] \in Frames \cup {None}
      BY DEF TypeOK
    <3> QED
      BY <3>1, FrameBytes DEF InHand
  <2>5. /\ NoGap(InHand(o), rx'[o])
        /\ DataEnd(InHand(o), rx'[o]) = IF held[o] = EOS THEN InReceiver(o)
                                        ELSE LastByte(held[o])
    BY <1>1, <2>1, <2>2, <2>3, <2>4, GapFreeAppend DEF InReceiver
  <2>6. InDemux(o)' = InDemux(o)
    BY <1>1, <2>1, <2>5 DEF InDemux, InReceiver
  <2>7. OnWire(s, o)' = OnWire(s, o)
    BY <1>1, <2>6 DEF OnWire
  <2>8. LastByte(written[s]) <= OnWire(s, o)
    BY <1>1, <2>3 DEF DataAt, OpenAt
  <2> QED
    BY <1>1, <2>1, <2>3, <2>5, <2>6, <2>7, <2>8 DEF ChainAt, readSide, writeSide
<1> QED
  BY <1>3, <1>4, <1>5, <1>6 DEF DataAt

\* One byte of chunk n is read, the byte before it being read already.
LEMMA CopyData ==
  ASSUME TypeOK, NEW o \in Sides, NEW n \in Frames \ {EOS}, NEW off \in 0 .. ChunkLen - 1,
         NEW W \in Nat, Copy(o, n, off), ~gap[o], LastByte(n - 1) + off <= at[o], n <= W + 1
  PROVE  /\ InHand(o)' = LastByte(n) /\ ~gap'[o]
         /\ at'[o] <= LastByte(W + 1) /\ read_chunk'[o] <= W + 1
         /\ read_chunk'[o] # None =>
                /\ read_chunk_offset'[o] > 0
                /\ at'[o] = LastByte(read_chunk'[o] - 1) + read_chunk_offset'[o]
<1>1. /\ n \in Nat /\ n # 0 /\ n # None
      /\ LastByte(n) \in Nat /\ LastByte(n - 1) \in Nat
      /\ LastByte(n) = LastByte(n - 1) + ChunkLen
  BY Bytes DEF Frames, EOS, None
<1>2. /\ at'[o] = LastByte(n - 1) + off + 1
      /\ gap'[o] = (gap[o] \/ LastByte(n - 1) + off + 1 > at[o] + 1)
  BY DEF Copy, TypeOK
<1>3. at[o] \in Nat
  BY DEF TypeOK
<1>a. ~(LastByte(n - 1) + off + 1 > at[o] + 1)
  BY <1>1, <1>3
<1>4. ~gap'[o]
  BY <1>2, <1>a, Zenon
<1>5. LastByte(W + 1) \in Nat /\ LastByte(n) <= LastByte(W + 1)
  BY <1>1, BytesGrow, Bytes
<1>6. at'[o] <= LastByte(W + 1)
  BY <1>1, <1>2, <1>5
<1>7. CASE off + 1 < ChunkLen /\ read_chunk'[o] = n /\ read_chunk_offset'[o] = off + 1
  <2>1. InHand(o)' = LastByte(n)
    BY <1>1, <1>7 DEF InHand
  <2> QED
    BY <1>1, <1>2, <1>4, <1>6, <1>7, <2>1
<1>8. CASE off + 1 = ChunkLen /\ read_chunk'[o] = None
  <2>1. at'[o] = LastByte(n)
    BY <1>1, <1>2, <1>8
  <2>2. InHand(o)' = LastByte(n)
    BY <1>8, <2>1 DEF InHand
  <2>3. None <= W + 1
    BY DEF None
  <2> QED
    BY <1>4, <1>6, <1>8, <2>2, <2>3
<1> QED
  BY <1>7, <1>8 DEF Copy, TypeOK

LEMMA DataBuffered ==
  ASSUME TypeOK, NEW s \in Sides, NEW o \in Sides, o # s, DataAt(s, o), ReadBuffered(o)
  PROVE  DataAt(s, o)'
<1>1. /\ stream[o] = "live" /\ ~read_eof[o] /\ read_chunk[o] # None
      /\ Copy(o, read_chunk[o], read_chunk_offset[o]) /\ read_eof' = read_eof
      /\ UNCHANGED <<up, wire, tunnels, held, rx, stream, pending_send, write_closed,
                     written, closing>>
  BY DEF ReadBuffered, Copy, writeSide
<1>2. /\ read_chunk[o] \in Frames \ {EOS} /\ read_chunk_offset[o] \in 0 .. ChunkLen - 1
      /\ written[s] \in Nat /\ at[o] \in Nat
  BY <1>1 DEF TypeOK
<1>3. /\ ~gap[o] /\ at[o] = LastByte(read_chunk[o] - 1) + read_chunk_offset[o]
      /\ read_chunk[o] <= written[s] + 1
  BY <1>1 DEF DataAt, ReadAt, BoundAt
<1>4. LastByte(read_chunk[o] - 1) + read_chunk_offset[o] <= at[o]
  BY <1>2, <1>3
<1>5. /\ InHand(o)' = LastByte(read_chunk[o]) /\ ~gap'[o]
      /\ at'[o] <= LastByte(written[s] + 1) /\ read_chunk'[o] <= written[s] + 1
      /\ read_chunk'[o] # None =>
             /\ read_chunk_offset'[o] > 0
             /\ at'[o] = LastByte(read_chunk'[o] - 1) + read_chunk_offset'[o]
  BY <1>1, <1>2, <1>3, <1>4, CopyData
<1>6. InHand(o)' = InHand(o)
  BY <1>1, <1>5 DEF InHand
<1>7. /\ InReceiver(o)' = InReceiver(o) /\ InDemux(o)' = InDemux(o)
      /\ OnWire(s, o)' = OnWire(s, o)
  BY <1>1, <1>6 DEF InReceiver, InDemux, OnWire
<1>8. BoundAt(s, o)'
  BY <1>1, <1>5 DEF DataAt, BoundAt
<1>9. ReadAt(s, o)'
  BY <1>1, <1>5 DEF ReadAt
<1>10. ChainAt(s, o)'
  BY <1>1, <1>6, <1>7 DEF DataAt, ChainAt
<1>11. OpenAt(s, o)'
  BY <1>1 DEF DataAt, OpenAt
<1> QED
  BY <1>8, <1>9, <1>10, <1>11 DEF DataAt

LEMMA DataChunk ==
  ASSUME TypeOK, NEW s \in Sides, NEW o \in Sides, o # s, EosAt(s, o), DataAt(s, o),
         ReadChunk(o)
  PROVE  DataAt(s, o)'
<1> DEFINE n == Head(rx[o])
<1>1. /\ stream[o] = "live" /\ ~read_eof[o] /\ read_chunk[o] = None
      /\ rx[o] # <<>> /\ n # EOS /\ Copy(o, n, 0) /\ rx'[o] = Tail(rx[o])
      /\ read_eof' = read_eof
      /\ UNCHANGED <<up, wire, tunnels, held, stream, pending_send, write_closed, written,
                     closing>>
  BY DEF ReadChunk, Copy, writeSide, TypeOK
<1>2. /\ rx[o] \in Seq(Frames) /\ written[s] \in Nat /\ at[o] \in Nat
      /\ 0 \in 0 .. ChunkLen - 1
  BY DEF TypeOK
<1>3. /\ Len(rx[o]) \in Nat \ {0} /\ Len(rx'[o]) = Len(rx[o]) - 1
      /\ \A i \in 1 .. Len(rx[o]) - 1 : rx'[o][i] = rx[o][i + 1]
      /\ n = rx[o][1] /\ n \in Frames
  BY <1>1, <1>2, Shifted
<1>4. InHand(o) = at[o] /\ NoGap(InHand(o), rx[o])
  BY <1>1 DEF DataAt, ChainAt, InHand
<1>5. /\ Begin(n) <= at[o] /\ NoGap(LastByte(n), rx'[o])
      /\ DataEnd(LastByte(n), rx'[o]) = DataEnd(at[o], rx[o])
  BY <1>1, <1>2, <1>4, GapFreeTail
<1>6. n <= written[s] + 1
  <2>1. 1 \in 1 .. Len(rx[o])
    BY <1>3
  <2> QED
    BY <1>3, <2>1 DEF DataAt, BoundAt
<1>7. LastByte(n - 1) + 0 <= at[o] /\ ~gap[o]
  <2>1. LastByte(n - 1) \in Nat
    BY <1>1, <1>3, Bytes DEF Frames, EOS
  <2> QED
    BY <1>1, <1>2, <1>5, <2>1 DEF Begin, DataAt, ReadAt
<1> HIDE DEF n
<1>8. /\ InHand(o)' = LastByte(n) /\ ~gap'[o]
      /\ at'[o] <= LastByte(written[s] + 1) /\ read_chunk'[o] <= written[s] + 1
      /\ read_chunk'[o] # None =>
             /\ read_chunk_offset'[o] > 0
             /\ at'[o] = LastByte(read_chunk'[o] - 1) + read_chunk_offset'[o]
  BY <1>1, <1>2, <1>3, <1>6, <1>7, CopyData
<1>9. /\ InReceiver(o)' = InReceiver(o) /\ InDemux(o)' = InDemux(o)
      /\ OnWire(s, o)' = OnWire(s, o)
  <2>1. InReceiver(o)' = InReceiver(o)
    BY <1>4, <1>5, <1>8 DEF InReceiver
  <2> QED
    BY <1>1, <2>1 DEF InDemux, OnWire
<1>10. ASSUME NEW i \in 1 .. Len(rx'[o])
       PROVE  i + 1 \in 1 .. Len(rx[o]) /\ rx'[o][i] = rx[o][i + 1]
  BY <1>3
<1>11. \A i \in 1 .. Len(rx'[o]) : rx'[o][i] <= written[s] + 1
  BY <1>10 DEF DataAt, BoundAt
<1>12. BoundAt(s, o)'
  BY <1>1, <1>8, <1>11 DEF DataAt, BoundAt
<1>13. ReadAt(s, o)'
  BY <1>1, <1>8 DEF ReadAt
<1>14. (\E i \in 1 .. Len(rx[o]) : rx[o][i] = EOS) <=>
           \E i \in 1 .. Len(rx'[o]) : rx'[o][i] = EOS
  <2>1. ASSUME NEW i \in 1 .. Len(rx[o]), rx[o][i] = EOS
        PROVE  \E j \in 1 .. Len(rx'[o]) : rx'[o][j] = EOS
    <3>1. i # 1
      BY <1>1, <1>3, <2>1
    <3>2. i - 1 \in 1 .. Len(rx'[o]) /\ (i - 1) + 1 = i
      BY <1>3, <3>1
    <3> QED
      BY <1>10, <2>1, <3>2
  <2> QED
    BY <1>10, <2>1
<1>15. ChainAt(s, o)'
  BY <1>1, <1>5, <1>8, <1>9, <1>14 DEF DataAt, ChainAt
<1>16. OpenAt(s, o)'
  BY <1>1, <1>14 DEF DataAt, OpenAt
<1> QED
  BY <1>12, <1>13, <1>15, <1>16 DEF DataAt

\* The reader is told of the end: nothing is behind the EOS.
LEMMA DataEos ==
  ASSUME TypeOK, NEW s \in Sides, NEW o \in Sides, o # s, EosAt(s, o), DataAt(s, o),
         ReadEos(o)
  PROVE  DataAt(s, o)'
<1>1. /\ stream[o] = "live" /\ read_chunk[o] = None
      /\ rx[o] # <<>> /\ Head(rx[o]) = EOS /\ rx'[o] = Tail(rx[o]) /\ read_eof'[o]
      /\ UNCHANGED <<up, wire, tunnels, held, stream, read_chunk, read_chunk_offset, at,
                     gap, pending_send, write_closed, written, closing>>
  BY DEF ReadEos, writeSide, TypeOK
<1>2. /\ rx[o] \in Seq(Frames) /\ written[s] \in Nat /\ at[o] \in Nat
  BY DEF TypeOK
<1>3. /\ Len(rx[o]) \in Nat \ {0} /\ Len(rx'[o]) = Len(rx[o]) - 1
      /\ Head(rx[o]) = rx[o][1] /\ rx'[o] \in Seq(Frames)
  BY <1>1, <1>2, Shifted
<1>4. 1 \in 1 .. Len(rx[o]) /\ rx[o][1] = EOS
  BY <1>1, <1>3
<1>5. Len(rx[o]) = 1 /\ held[o] = None /\ wire[s] = <<>>
  BY <1>4 DEF EosAt
<1>6. Len(rx'[o]) = 0 /\ rx'[o] = <<>> /\ Len(wire[s]) = 0
  BY <1>3, <1>5, EmptySeq
<1>7. OnWire(s, o) = at[o] /\ InHand(o)' = at[o]
  BY <1>1, <1>3, <1>4, <1>5 DEF OnWire, InDemux, InReceiver, InHand, DataEnd
<1>8. LastByte(written[s]) <= at[o]
  BY <1>1, <1>4, <1>7 DEF DataAt, ChainAt
<1>9. OnWire(s, o)' = at[o]
  BY <1>1, <1>5, <1>6, <1>7 DEF OnWire, InDemux, InReceiver, DataEnd
<1>10. ChainAt(s, o)'
  BY <1>1, <1>5, <1>6, <1>8, <1>9 DEF ChainAt, NoGap
<1>11. BoundAt(s, o)'
  BY <1>1, <1>6 DEF DataAt, BoundAt
<1>12. ReadAt(s, o)'
  BY <1>1, <1>8 DEF DataAt, ReadAt
<1>13. OpenAt(s, o)'
  BY <1>1 DEF DataAt, OpenAt
<1> QED
  BY <1>10, <1>11, <1>12, <1>13 DEF DataAt

\* A chunk that is written, or the EOS, follows what is on its way.
LEMMA SendEnd ==
  ASSUME TypeOK, NEW s \in Sides, NEW o \in Sides, DataAt(s, o), ~EosSeenAt(s, o),
         up, stream[o] # "dropped", NEW x \in {EOS, written[s] + 1}
  PROVE  /\ NoGap(InDemux(o), Append(wire[s], x))
         /\ LastByte(written[s]) <= DataEnd(InDemux(o), Append(wire[s], x))
         /\ x # EOS => DataEnd(InDemux(o), Append(wire[s], x)) = LastByte(x)
<1>1. /\ written[s] \in Nat /\ at[o] \in Nat /\ rx[o] \in Seq(Frames)
      /\ wire[s] \in Seq(Frames) /\ read_chunk[o] \in Frames \cup {None}
      /\ held[o] \in Frames \cup {None}
  BY DEF TypeOK
<1>2. InDemux(o) \in Nat
  <2>1. InHand(o) \in Nat
    BY <1>1, FrameBytes DEF InHand
  <2>2. InReceiver(o) \in Nat
    BY <1>1, <2>1, DataEndType DEF InReceiver
  <2> QED
    BY <1>1, <2>2, FrameBytes DEF InDemux
<1>3. /\ NoGap(InDemux(o), wire[s])
      /\ LastByte(written[s]) <= DataEnd(InDemux(o), wire[s])
  BY DEF DataAt, ChainAt, OnWire
<1>4. x \in Frames /\ \A i \in 1 .. Len(wire[s]) : wire[s][i] # EOS
  BY <1>1 DEF EosSeenAt, Frames, EOS
<1>5. /\ LastByte(written[s]) \in Nat /\ DataEnd(InDemux(o), wire[s]) \in Nat
      /\ LastByte(written[s]) <= LastByte(written[s] + 1)
  <2>1. written[s] + 1 \in Nat /\ written[s] <= written[s] + 1
    BY <1>1
  <2> QED
    BY <1>1, <1>2, <2>1, Bytes, BytesGrow, DataEndType
<1>6. Begin(x) <= LastByte(written[s])
  <2>1. CASE x = EOS
    BY <1>5, <2>1 DEF Begin
  <2>2. CASE x = written[s] + 1 /\ x # EOS
    <3>1. x - 1 = written[s]
      BY <1>1, <2>2
    <3> QED
      BY <1>5, <2>2, <3>1 DEF Begin
  <2> QED
    BY <2>1, <2>2
<1>7. Begin(x) \in Nat
  BY <1>4, FrameBytes
<1>8. Begin(x) <= DataEnd(InDemux(o), wire[s])
  BY <1>3, <1>5, <1>6, <1>7
<1>9. /\ NoGap(InDemux(o), Append(wire[s], x))
      /\ DataEnd(InDemux(o), Append(wire[s], x)) =
             IF x = EOS THEN DataEnd(InDemux(o), wire[s]) ELSE LastByte(x)
  BY <1>1, <1>2, <1>3, <1>4, <1>8, GapFreeAppend
<1> QED
  BY <1>3, <1>5, <1>9

\* One frame is sent.
LEMMA DataSends ==
  ASSUME TypeOK, NEW s \in Sides, NEW o \in Sides, DataAt(s, o), ~EosSeenAt(s, o), up,
         NEW x \in {EOS, written[s] + 1}, wire'[s] = Append(wire[s], x),
         held'[o] = held[o], rx'[o] = rx[o], tunnels'[o] = tunnels[o],
         stream'[o] = stream[o], read_chunk'[o] = read_chunk[o],
         read_chunk_offset'[o] = read_chunk_offset[o], at'[o] = at[o], gap'[o] = gap[o],
         read_eof'[o] = read_eof[o], stream[o] # "none", up' = up,
         written'[s] = written[s] \/ (written'[s] = written[s] + 1 /\ x # EOS),
         pending_send'[s] = None
  PROVE  DataAt(s, o)'
<1>0. written[s] \in Nat /\ wire[s] \in Seq(Frames)
  BY DEF TypeOK
<1>1. written[s] \in Nat /\ wire[s] \in Seq(Frames) /\ x \in Frames /\ x <= written[s] + 1
  <2>1. CASE x = EOS
    BY <1>0, <2>1 DEF Frames, EOS
  <2>2. CASE x = written[s] + 1
    BY <1>0, <2>2 DEF Frames
  <2> QED
    BY <1>0, <2>1, <2>2
<1>2. ASSUME NEW i \in 1 .. Len(wire'[s]) PROVE wire'[s][i] <= written'[s] + 1
  <2>1. /\ Len(Append(wire[s], x)) = Len(wire[s]) + 1 /\ Len(wire[s]) \in Nat
        /\ \A j \in 1 .. Len(wire[s]) : Append(wire[s], x)[j] = wire[s][j]
        /\ Append(wire[s], x)[Len(wire[s]) + 1] = x
    BY <1>1, Appended
  <2>2. i \in 1 .. Len(wire[s]) \/ i = Len(wire[s]) + 1
    BY <2>1
  <2>3. CASE i \in 1 .. Len(wire[s])
    <3>1. wire[s][i] \in Nat /\ wire[s][i] <= written[s] + 1 /\ wire'[s][i] = wire[s][i]
      BY <1>1, <2>1, <2>3, ElementOfSeq DEF DataAt, BoundAt, Frames
    <3> QED
      BY <1>1, <3>1
  <2>4. CASE i = Len(wire[s]) + 1
    <3>1. wire'[s][i] = x /\ x \in Nat
      BY <1>1, <2>1, <2>4 DEF Frames
    <3> QED
      BY <1>1, <3>1
  <2> QED
    BY <2>2, <2>3, <2>4
<1>3. stream[o] # "dropped" =>
          NoGap(InDemux(o), wire'[s]) /\ LastByte(written'[s]) <= DataEnd(InDemux(o), wire'[s])
  <2> SUFFICES ASSUME stream[o] # "dropped"
               PROVE  /\ NoGap(InDemux(o), wire'[s])
                      /\ LastByte(written'[s]) <= DataEnd(InDemux(o), wire'[s])
    OBVIOUS
  <2>0. /\ NoGap(InDemux(o), Append(wire[s], x))
        /\ LastByte(written[s]) <= DataEnd(InDemux(o), Append(wire[s], x))
        /\ x # EOS => DataEnd(InDemux(o), Append(wire[s], x)) = LastByte(x)
    BY SendEnd
  <2>1. /\ NoGap(InDemux(o), wire'[s])
        /\ LastByte(written[s]) <= DataEnd(InDemux(o), wire'[s])
        /\ x # EOS => DataEnd(InDemux(o), wire'[s]) = LastByte(x)
    BY <2>0
  <2>2. LastByte(written[s] + 1) <= LastByte(written[s] + 1)
    <3>1. written[s] + 1 \in Nat
      BY <1>1
    <3>2. LastByte(written[s] + 1) \in Nat
      BY <3>1, Bytes
    <3> QED
      BY <3>2
  <2> QED
    BY <2>1, <2>2
<1>4. ~read_eof[o]
  BY DEF EosSeenAt
<1> QED
  BY <1>2, <1>3, <1>4, DataWritten

\* The chunk in flight is sent, and sent again or in flight again.
LEMMA DataAgain ==
  ASSUME TypeOK, NEW s \in Sides, NEW o \in Sides, o # s, DataAt(s, o), ~EosSeenAt(s, o),
         stream[o] # "none", PollWriteAgain(s)
  PROVE  DataAt(s, o)'
<1> DEFINE n == written[s] + 1
           q == Append(wire[s], n)
<1>1. /\ up /\ pending_send[s] # None /\ pending_send[s] = n
      /\ UNCHANGED <<up, tunnels, held, rx, stream, readSide, write_closed, closing>>
  BY DEF PollWriteAgain, DataAt, OpenAt
<1>2. written[s] \in Nat /\ n \in Frames \ {EOS} /\ wire[s] \in Seq(Frames)
  BY SMTT(60) DEF TypeOK, Frames, EOS
<1>3. \/ /\ wire'[s] = Append(q, n) /\ written'[s] = n /\ pending_send'[s] = None
      \/ /\ wire'[s] = q /\ written'[s] = written[s] /\ pending_send'[s] = n
  <2>1. wire \in [Sides -> Seq(Frames)] /\ written \in [Sides -> Nat]
        /\ DOMAIN pending_send = Sides
    BY DEF TypeOK
  <2>2. \/ /\ wire' = [wire EXCEPT ![s] = Append(Append(wire[s], pending_send[s]), written[s] + 1)]
           /\ written' = [written EXCEPT ![s] = @ + 1]
           /\ pending_send' = [pending_send EXCEPT ![s] = None]
        \/ /\ wire' = [wire EXCEPT ![s] = Append(wire[s], pending_send[s])]
           /\ pending_send' = [pending_send EXCEPT ![s] = written[s] + 1]
           /\ written' = written
    BY DEF PollWriteAgain
  <2> QED
    BY <1>1, <2>1, <2>2
<1>4. /\ q \in Seq(Frames) /\ Len(q) = Len(wire[s]) + 1 /\ Len(wire[s]) \in Nat
      /\ \A j \in 1 .. Len(wire[s]) : q[j] = wire[s][j]
      /\ q[Len(wire[s]) + 1] = n
  BY <1>2, Appended
<1>5. ASSUME NEW i \in 1 .. Len(q) PROVE q[i] # EOS /\ q[i] \in Nat /\ q[i] <= n
  <2>1. i \in 1 .. Len(wire[s]) \/ i = Len(wire[s]) + 1
    BY <1>4
  <2>2. CASE i \in 1 .. Len(wire[s])
    BY <1>2, <1>4, <2>2, ElementOfSeq DEF DataAt, BoundAt, EosSeenAt, Frames
  <2>3. CASE i = Len(wire[s]) + 1
    BY <1>2, <1>4, <2>3 DEF Frames
  <2> QED
    BY <2>1, <2>2, <2>3
<1>6. stream[o] # "dropped" => NoGap(InDemux(o), q) /\ DataEnd(InDemux(o), q) = LastByte(n)
  BY <1>1, <1>2, SendEnd
<1>7. /\ LastByte(written[s]) \in Nat /\ LastByte(n) \in Nat
      /\ LastByte(written[s]) <= LastByte(n) /\ Begin(n) = LastByte(written[s])
  <2>1. n - 1 = written[s] /\ written[s] <= n /\ n \in Nat
    BY <1>2
  <2> QED
    BY <1>2, <2>1, Bytes, BytesGrow DEF Begin
<1>8. InDemux(o) \in Nat
  <2>1. /\ at[o] \in Nat /\ rx[o] \in Seq(Frames) /\ read_chunk[o] \in Frames \cup {None}
        /\ held[o] \in Frames \cup {None}
    BY DEF TypeOK
  <2>2. InHand(o) \in Nat
    BY <2>1, FrameBytes DEF InHand
  <2>3. InReceiver(o) \in Nat
    BY <2>1, <2>2, DataEndType DEF InReceiver
  <2> QED
    BY <2>1, <2>3, FrameBytes DEF InDemux
<1>9. ~read_eof[o]
  BY DEF EosSeenAt
<1>a. /\ held'[o] = held[o] /\ rx'[o] = rx[o] /\ tunnels'[o] = tunnels[o]
      /\ stream'[o] = stream[o] /\ read_chunk'[o] = read_chunk[o]
      /\ read_chunk_offset'[o] = read_chunk_offset[o] /\ at'[o] = at[o]
      /\ gap'[o] = gap[o] /\ read_eof'[o] = read_eof[o] /\ up' = up
  BY <1>1 DEF readSide
<1> HIDE DEF q, n
<1>10. CASE wire'[s] = q /\ written'[s] = written[s] /\ pending_send'[s] = n
  <2>1. \A i \in 1 .. Len(wire'[s]) : wire'[s][i] <= written'[s] + 1
    BY <1>5, <1>10 DEF n
  <2>2. stream[o] # "dropped" =>
          NoGap(InDemux(o), wire'[s]) /\ LastByte(written'[s]) <= DataEnd(InDemux(o), wire'[s])
    BY <1>6, <1>7, <1>10
  <2>3. pending_send'[s] = written'[s] + 1 /\ written'[s] \in {written[s], written[s] + 1}
    BY <1>10 DEF n
  <2> QED
    BY <1>9, <1>10, <1>a, <2>1, <2>2, <2>3, DataWritten
<1>11. CASE wire'[s] = Append(q, n) /\ written'[s] = n /\ pending_send'[s] = None
  <2> DEFINE r == Append(q, n)
  <2>1. /\ Len(r) = Len(q) + 1 /\ Len(q) \in Nat
        /\ \A j \in 1 .. Len(q) : r[j] = q[j]
        /\ r[Len(q) + 1] = n
    BY <1>2, <1>4, Appended
  <2>2. ASSUME NEW i \in 1 .. Len(r) PROVE r[i] <= n + 1
    <3>1. i \in 1 .. Len(q) \/ i = Len(q) + 1
      BY <2>1
    <3>2. n \in Nat
      BY <1>2 DEF Frames
    <3>3. CASE i \in 1 .. Len(q)
      <4>1. r[i] = q[i] /\ q[i] \in Nat /\ q[i] <= n
        BY <1>5, <2>1, <3>3
      <4> QED
        BY <3>2, <4>1
    <3> QED
      BY <2>1, <3>1, <3>2, <3>3
  <2>3. stream[o] # "dropped" => NoGap(InDemux(o), r) /\ DataEnd(InDemux(o), r) = LastByte(n)
    BY <1>2, <1>4, <1>5, <1>6, <1>7, <1>8, GapFreeAppend
  <2>4. LastByte(n) <= LastByte(n)
    BY <1>7
  <2>5. stream[o] # "dropped" =>
          NoGap(InDemux(o), wire'[s]) /\ LastByte(written'[s]) <= DataEnd(InDemux(o), wire'[s])
    BY <1>11, <2>3, <2>4
  <2>6. \A i \in 1 .. Len(wire'[s]) : wire'[s][i] <= written'[s] + 1
    BY <1>11, <2>2
  <2>7. written'[s] \in {written[s], written[s] + 1}
    BY <1>11 DEF n
  <2> QED
    BY <1>9, <1>11, <1>a, <2>5, <2>6, <2>7, DataWritten
<1> QED
  BY <1>3, <1>10, <1>11

LEMMA DataStep ==
  ASSUME OpenerWaits, TypeOK, EosInv, DataInv, [Next]_vars
  PROVE  DataInv'
<1> SUFFICES ASSUME NEW s \in Sides, NEW o \in Sides, o = Other(s), s = Other(o), o # s,
                    \A t \in Sides : t = s \/ t = o, EosAt(s, o), DataAt(s, o)
             PROVE  DataAt(s, o)'
  BY OtherSide DEF EosInv, DataInv
<1>0. /\ stream \in [Sides -> {"none", "live", "dropped"}] /\ DOMAIN wire = Sides
      /\ DOMAIN held = Sides /\ DOMAIN rx = Sides /\ DOMAIN tunnels = Sides
      /\ DOMAIN closing = Sides /\ DOMAIN pending_send = Sides /\ DOMAIN written = Sides
      /\ wire[s] \in Seq(Frames)
  BY DEF TypeOK
<1>a. Usable(s) => stream[s] = "live" /\ stream[o] # "none"
  BY <1>0 DEF Usable, DataAt, OpenAt
<1>b. pending_send[s] # None \/ closing[s] => stream[o] # "none"
  BY DEF DataAt, OpenAt
<1>c. stream[s] = "live" /\ ~write_closed[s] => ~EosSeenAt(s, o) /\ ~closing[s]
  BY DEF EosAt, Quiet
<1>1. ASSUME NEW t \in Sides, Accept(t) PROVE DataAt(s, o)'
  <2>1. CASE t = s
    BY <1>0, <1>1, <2>1, DataSame DEF Accept, readSide, writeSide
  <2>2. CASE t = o
    <3>1. /\ stream[o] = "none" /\ stream'[o] = "live" /\ tunnels'[o]
          /\ UNCHANGED <<up, wire, held, rx, readSide, writeSide, closing>>
      BY <1>0, <1>1, <2>2 DEF Accept
    <3>2. BoundAt(s, o)' /\ ReadAt(s, o)'
      BY <3>1 DEF DataAt, BoundAt, ReadAt, readSide, writeSide
    <3>3. OpenAt(s, o)'
      BY <3>1 DEF DataAt, OpenAt, readSide, writeSide
    <3>4. /\ InHand(o)' = InHand(o) /\ InReceiver(o)' = InReceiver(o)
          /\ InDemux(o)' = InDemux(o) /\ OnWire(s, o)' = OnWire(s, o)
      BY <3>1 DEF InHand, InReceiver, InDemux, OnWire, readSide
    <3>5. ChainAt(s, o)'
      BY <3>1, <3>4 DEF DataAt, ChainAt, writeSide
    <3> QED
      BY <3>2, <3>3, <3>5 DEF DataAt
  <2> QED
    BY <2>1, <2>2
<1>2. ASSUME NEW t \in Sides, RouteToTunnel(t) PROVE DataAt(s, o)'
  <2>1. CASE t = s
    <3>1. /\ wire'[s] = wire[s] /\ held'[o] = held[o]
          /\ UNCHANGED <<up, rx, tunnels, stream, readSide, writeSide, closing>>
      BY <1>0, <1>2, <2>1 DEF RouteToTunnel
    <3> QED
      BY <3>1, DataSame DEF readSide, writeSide
  <2> QED
    BY <1>2, <2>1, DataRouted
<1>3. ASSUME NEW t \in Sides, Deliver(t) PROVE DataAt(s, o)'
  <2>1. CASE t = s
    <3>1. /\ rx'[o] = rx[o] /\ held'[o] = held[o] /\ tunnels'[o] = tunnels[o]
          /\ UNCHANGED <<up, wire, stream, readSide, writeSide, closing>>
      BY <1>0, <1>3, <2>1 DEF Deliver
    <3> QED
      BY <3>1, DataSame DEF readSide, writeSide
  <2> QED
    BY <1>3, <2>1, DataDelivered
<1>4. ASSUME NEW t \in Sides, Read(t) PROVE DataAt(s, o)'
  <2>1. CASE t = s
    <3>1. /\ rx'[o] = rx[o] /\ read_chunk'[o] = read_chunk[o]
          /\ read_chunk_offset'[o] = read_chunk_offset[o] /\ at'[o] = at[o]
          /\ gap'[o] = gap[o] /\ read_eof'[o] = read_eof[o]
          /\ UNCHANGED <<up, wire, tunnels, held, stream, writeSide, closing>>
      <4>1. /\ DOMAIN read_chunk = Sides /\ DOMAIN read_chunk_offset = Sides
            /\ DOMAIN at = Sides /\ DOMAIN gap = Sides /\ DOMAIN read_eof = Sides
        BY DEF TypeOK
      <4>2. CASE ReadBuffered(s)
        BY <1>0, <4>1, <4>2 DEF ReadBuffered, Copy
      <4>3. CASE ReadChunk(s)
        BY <1>0, <4>1, <4>3 DEF ReadChunk, Copy
      <4>4. CASE ReadEos(s)
        BY <1>0, <4>1, <4>4 DEF ReadEos
      <4> QED
        BY <1>4, <2>1, <4>2, <4>3, <4>4 DEF Read
    <3> QED
      BY <3>1, DataSame DEF writeSide
  <2>2. CASE t = o
    BY <1>4, <2>2, DataBuffered, DataChunk, DataEos DEF Read
  <2> QED
    BY <2>1, <2>2
<1>5. ASSUME NEW t \in Sides, PollWriteNew(t) PROVE DataAt(s, o)'
  <2>1. CASE t = s
    <3>1. /\ up /\ stream[o] # "none" /\ ~EosSeenAt(s, o) /\ pending_send[s] = None
          /\ UNCHANGED <<up, tunnels, held, rx, stream, readSide, write_closed, closing>>
      BY <1>5, <1>a, <1>c, <2>1 DEF PollWriteNew, MayWrite
    <3>2. CASE /\ wire' = [wire EXCEPT ![s] = Append(@, written[s] + 1)]
               /\ written' = [written EXCEPT ![s] = @ + 1]
               /\ UNCHANGED pending_send
      <4>1. /\ wire'[s] = Append(wire[s], written[s] + 1) /\ written'[s] = written[s] + 1
            /\ pending_send'[s] = None
        BY <1>0, <3>1, <3>2
      <4>2. written[s] + 1 # EOS
        BY DEF TypeOK, EOS
      <4> QED
        BY <3>1, <4>1, <4>2, DataSends DEF readSide
    <3>3. CASE /\ pending_send' = [pending_send EXCEPT ![s] = written[s] + 1]
               /\ UNCHANGED <<wire, written>>
      <4>1. pending_send'[s] = written[s] + 1
        BY <1>0, <3>3
      <4>2. /\ OpenAt(s, o)' /\ BoundAt(s, o)' /\ ReadAt(s, o)'
        BY <3>1, <3>3, <4>1 DEF DataAt, OpenAt, BoundAt, ReadAt, readSide
      <4>3. /\ InHand(o)' = InHand(o) /\ InReceiver(o)' = InReceiver(o)
            /\ InDemux(o)' = InDemux(o) /\ OnWire(s, o)' = OnWire(s, o)
        BY <3>1, <3>3 DEF InHand, InReceiver, InDemux, OnWire, readSide
      <4>4. ChainAt(s, o)'
        BY <3>1, <3>3, <4>3 DEF DataAt, ChainAt
      <4> QED
        BY <4>2, <4>4 DEF DataAt
    <3> QED
      BY <1>5, <2>1, <3>2, <3>3 DEF PollWriteNew
  <2>2. CASE t = o
    <3>1. /\ wire'[s] = wire[s] /\ written'[s] = written[s]
          /\ pending_send'[s] = pending_send[s]
          /\ UNCHANGED <<up, tunnels, held, rx, stream, readSide, write_closed, closing>>
      BY <1>0, <1>5, <2>2 DEF PollWriteNew
    <3> QED
      BY <3>1, DataSame DEF readSide
  <2> QED
    BY <2>1, <2>2
<1>6. ASSUME NEW t \in Sides, PollWriteAgain(t) PROVE DataAt(s, o)'
  <2>1. CASE t = s
    <3>1. stream[o] # "none" /\ ~EosSeenAt(s, o)
      BY <1>6, <1>a, <1>c, <2>1 DEF PollWriteAgain, MayWrite
    <3> QED
      BY <1>6, <2>1, <3>1, DataAgain
  <2>2. CASE t = o
    <3>1. /\ wire'[s] = wire[s] /\ written'[s] = written[s]
          /\ pending_send'[s] = pending_send[s]
          /\ UNCHANGED <<up, tunnels, held, rx, stream, readSide, write_closed, closing>>
      BY <1>0, <1>6, <2>2 DEF PollWriteAgain
    <3> QED
      BY <3>1, DataSame DEF readSide
  <2> QED
    BY <2>1, <2>2
<1>7. ASSUME NEW t \in Sides, PollWriteFails(t) PROVE DataAt(s, o)'
  <2>1. /\ pending_send'[s] \in {pending_send[s], None}
        /\ UNCHANGED <<up, wire, tunnels, held, rx, stream, readSide, written, closing>>
    BY <1>0, <1>7 DEF PollWriteFails
  <2> QED
    BY <2>1, DataSame DEF readSide
<1>8. ASSUME NEW t \in Sides, PollFlush(t) PROVE DataAt(s, o)'
  <2>1. CASE t = s
    <3>1. /\ up /\ stream[o] # "none" /\ ~EosSeenAt(s, o)
          /\ pending_send[s] = written[s] + 1
          /\ wire'[s] = Append(wire[s], pending_send[s]) /\ pending_send'[s] = None
          /\ UNCHANGED <<up, tunnels, held, rx, stream, readSide, written, closing>>
      BY <1>0, <1>8, <1>b, <1>c, <2>1 DEF PollFlush, DataAt, OpenAt
    <3>2. /\ held'[o] = held[o] /\ rx'[o] = rx[o] /\ tunnels'[o] = tunnels[o]
          /\ stream'[o] = stream[o] /\ read_chunk'[o] = read_chunk[o]
          /\ read_chunk_offset'[o] = read_chunk_offset[o] /\ at'[o] = at[o]
          /\ gap'[o] = gap[o] /\ read_eof'[o] = read_eof[o] /\ up' = up
          /\ written'[s] = written[s]
      BY <3>1 DEF readSide
    <3>3. /\ written[s] + 1 \in {EOS, written[s] + 1}
          /\ wire'[s] = Append(wire[s], written[s] + 1)
      BY <3>1
    <3> QED
      BY <3>1, <3>2, <3>3, DataSends
  <2>2. CASE t = o
    <3>1. /\ wire'[s] = wire[s] /\ pending_send'[s] = pending_send[s]
          /\ UNCHANGED <<up, tunnels, held, rx, stream, readSide, written, closing>>
      BY <1>0, <1>8, <2>2 DEF PollFlush
    <3> QED
      BY <3>1, DataSame DEF readSide
  <2> QED
    BY <2>1, <2>2
<1>9. ASSUME NEW t \in Sides, PollShutdown(t) PROVE DataAt(s, o)'
  <2>1. t = s => stream[o] # "none"
    BY <1>9, <1>a DEF PollShutdown
  <2>2. t = o => closing'[s] = closing[s]
    BY <1>0, <1>9 DEF PollShutdown
  <2>3. UNCHANGED <<up, wire, tunnels, held, rx, stream, readSide, pending_send, written>>
    BY <1>9 DEF PollShutdown
  <2> QED
    BY <2>1, <2>2, <2>3, DataSame DEF readSide
<1>10. ASSUME NEW t \in Sides, Drop(t) PROVE DataAt(s, o)'
  <2>1. CASE t = s
    <3>1. /\ stream[o] # "none" /\ stream'[o] = stream[o] /\ tunnels'[o] = tunnels[o]
          /\ rx'[o] = rx[o] /\ pending_send'[s] = None
          /\ UNCHANGED <<up, wire, held, readSide, written>>
      BY <1>0, <1>10, <1>a, <2>1 DEF Drop
    <3> QED
      BY <3>1, DataSame DEF readSide
  <2>2. CASE t = o
    <3>1. /\ stream'[o] = "dropped" /\ rx'[o] = <<>> /\ closing'[s] = closing[s]
          /\ pending_send'[s] = pending_send[s] /\ stream[o] = "live"
          /\ UNCHANGED <<up, wire, held, readSide, written>>
      BY <1>0, <1>10, <2>2 DEF Drop, Usable
    <3>2. Len(rx'[o]) = 0
      BY <3>1, EmptySeq
    <3>3. BoundAt(s, o)' /\ ReadAt(s, o)'
      BY <3>1, <3>2 DEF DataAt, BoundAt, ReadAt, readSide
    <3>4. OpenAt(s, o)'
      BY <3>1 DEF DataAt, OpenAt
    <3>5. ChainAt(s, o)'
      BY <3>1 DEF ChainAt
    <3> QED
      BY <3>3, <3>4, <3>5 DEF DataAt
  <2> QED
    BY <2>1, <2>2
<1>11. ASSUME NEW t \in Sides, CloseTunnel(t) PROVE DataAt(s, o)'
  <2>1. CASE t = s
    <3>1. /\ closing[s] /\ ~closing'[s] /\ stream[o] # "none" /\ ~EosSeenAt(s, o)
          /\ pending_send[s] = None
          /\ UNCHANGED <<up, tunnels, held, rx, stream, readSide, writeSide>>
      BY <1>0, <1>11, <1>b, <2>1 DEF CloseTunnel, EosAt, writeSide
    <3>2. CASE UNCHANGED wire
      BY <3>1, <3>2, DataSame DEF readSide, writeSide
    <3>3. CASE up /\ wire' = [wire EXCEPT ![s] = Append(@, EOS)]
      <4>1. wire'[s] = Append(wire[s], EOS)
        BY <1>0, <3>3
      <4>2. /\ held'[o] = held[o] /\ rx'[o] = rx[o] /\ tunnels'[o] = tunnels[o]
            /\ stream'[o] = stream[o] /\ read_chunk'[o] = read_chunk[o]
            /\ read_chunk_offset'[o] = read_chunk_offset[o] /\ at'[o] = at[o]
            /\ gap'[o] = gap[o] /\ read_eof'[o] = read_eof[o] /\ up' = up
            /\ written'[s] = written[s]
            /\ pending_send'[s] = None /\ EOS \in {EOS, written[s] + 1}
        BY <3>1 DEF readSide, writeSide
      <4> QED
        BY <3>1, <3>3, <4>1, <4>2, DataSends
    <3> QED
      BY <1>11, <2>1, <3>2, <3>3 DEF CloseTunnel
  <2>2. CASE t = o
    <3>1. /\ wire'[s] = wire[s] /\ closing'[s] = closing[s]
          /\ UNCHANGED <<up, tunnels, held, rx, stream, readSide, writeSide>>
      BY <1>0, <1>11, <2>2 DEF CloseTunnel
    <3> QED
      BY <3>1, DataSame DEF readSide, writeSide
  <2> QED
    BY <2>1, <2>2
<1>12. CASE Disconnect
  <2>1. /\ ~up' /\ wire'[s] = <<>> /\ held'[o] = None
        /\ UNCHANGED <<tunnels, rx, stream, readSide, writeSide, closing>>
    BY <1>12 DEF Disconnect
  <2>2. Len(wire'[s]) = 0
    BY <2>1, EmptySeq
  <2>3. None <= written[s] + 1
    BY DEF TypeOK, None
  <2>4. BoundAt(s, o)' /\ ReadAt(s, o)'
    BY <2>1, <2>2, <2>3 DEF DataAt, BoundAt, ReadAt, readSide, writeSide
  <2>5. OpenAt(s, o)'
    BY <2>1 DEF DataAt, OpenAt, readSide, writeSide
  <2>6. ChainAt(s, o)'
    <3> SUFFICES ASSUME stream[o] # "dropped" PROVE ChainAt(s, o)'
      BY <2>1 DEF ChainAt
    <3>1. InHand(o)' = InHand(o) /\ InReceiver(o)' = InReceiver(o)
      BY <2>1 DEF InHand, InReceiver, readSide
    <3>2. NoGap(InDemux(o)', wire'[s])
      BY <2>1, <2>2 DEF NoGap
    <3>3. ASSUME \E i \in 1 .. Len(rx[o]) : rx[o][i] = EOS
          PROVE  LastByte(written[s]) <= OnWire(s, o)'
      <4>1. held[o] = None /\ wire[s] = <<>>
        BY <3>3 DEF EosAt
      <4>2. OnWire(s, o)' = OnWire(s, o)
        BY <2>1, <3>1, <4>1 DEF OnWire, InDemux
      <4> QED
        BY <3>3, <4>2 DEF DataAt, ChainAt
    <3> QED
      BY <2>1, <3>1, <3>2, <3>3 DEF DataAt, ChainAt, writeSide
  <2> QED
    BY <2>4, <2>5, <2>6 DEF DataAt
<1>13. CASE UNCHANGED vars
  BY <1>13, DataSame DEF vars, readSide, writeSide
<1> QED
  BY <1>1, <1>2, <1>3, <1>4, <1>5, <1>6, <1>7, <1>8, <1>9, <1>10, <1>11, <1>12, <1>13
  DEF Next, Demux, Write

\* When the opener waits for the other side to register the channel, no byte is
\* skipped, whatever waits, lags, is dropped or lost (poll_read, poll_write).
THEOREM NothingIsSkipped ==
  ASSUME OpenerWaits
  PROVE  Spec => []NoByteIsSkipped
<1>1. DataInv => NoByteIsSkipped
  <2> SUFFICES ASSUME DataInv, NEW s \in Sides
               PROVE  ~gap[s] /\ at[s] <= LastByte(written[Other(s)] + 1)
    BY DEF NoByteIsSkipped
  <2> QED
    BY OtherSide DEF DataInv, DataAt, BoundAt, ReadAt
<1>2. TypeOK /\ EosInv /\ DataInv /\ [Next]_vars => DataInv'
  BY DataStep
<1> QED
  BY <1>1, <1>2, TypeInit, TypeStep, EosInit, EosStep, DataInit, PTL DEF Spec

\* Then, too, a reader that is told of the end has read every byte that poll_write
\* accepted on the other side (poll_shutdown, drop, close_tunnel).
THEOREM EndIsComplete ==
  ASSUME OpenerWaits
  PROVE  Spec => []EofIsComplete
<1>1. TypeOK /\ DataInv => EofIsComplete
  <2> SUFFICES ASSUME TypeOK, DataInv, NEW s \in Sides, read_eof[s]
               PROVE  at[s] >= LastByte(written[Other(s)])
    BY DEF EofIsComplete
  <2>1. Other(s) \in Sides /\ Other(Other(s)) = s
    BY OtherSide
  <2>2. LastByte(written[Other(s)]) <= at[s]
    BY <2>1 DEF DataInv, DataAt, ReadAt
  <2>3. LastByte(written[Other(s)]) \in Nat /\ at[s] \in Nat
    BY <2>1, Bytes DEF TypeOK
  <2> QED
    BY <2>2, <2>3
<1>2. TypeOK /\ EosInv /\ DataInv /\ [Next]_vars => DataInv'
  BY DataStep
<1> QED
  BY <1>1, <1>2, TypeInit, TypeStep, EosInit, EosStep, DataInit, PTL DEF Spec
====
