---- MODULE TunnelStream ----
(***************************************************************************)
(* The byte stream over a tunnel channel                                   *)
(* (rust/rapace-core/src/tunnel_stream.rs) and the part of RpcSession it   *)
(* is made of: register_tunnel, try_route_to_tunnel, send_chunk,           *)
(* close_tunnel and unregister_tunnel (session.rs).                        *)
(*                                                                         *)
(* One channel between two sides, each with an application that writes     *)
(* Chunks[s] chunks of ChunkLen bytes, reads one byte at a time, shuts its    *)
(* writing down and at any time drops the stream.  Bytes are numbered from *)
(* 1 in each direction, so that chunk n carries the bytes                  *)
(* (n - 1) * ChunkLen + 1 .. n * ChunkLen.  A wire is what one transport   *)
(* holds of one direction: send_frame waits while it is full.              *)
(***************************************************************************)
EXTENDS Integers, Sequences

CONSTANTS
    Sides,
    Opener,           \* the side that allocates the channel and answers open()
    Chunks,           \* [Sides -> chunks that side writes]
    ChunkLen,
    WireCapacity,     \* frames a transport takes before send_frame waits
    TunnelCapacity,   \* chunks of the channel register_tunnel makes, 64 in the code
    OpenerWaits,      \* does the opener leave its stream alone until the other
                      \* side has registered the channel?
    MayDrop,          \* the sides that may drop the stream early
    MayDisconnect     \* may the connection be lost?

ASSUME TunnelAssumption ==
    /\ \E a, b \in Sides : a # b /\ Sides = {a, b} /\ Opener = a
    /\ Chunks \in [Sides -> Nat] /\ ChunkLen \in Nat \ {0}
    /\ WireCapacity \in Nat \ {0} /\ TunnelCapacity \in Nat \ {0}
    /\ OpenerWaits \in BOOLEAN /\ MayDisconnect \in BOOLEAN
    /\ MayDrop \subseteq Sides

Other(s) == CHOOSE o \in Sides : o # s
EOS == 0                      \* a DATA | EOS frame without payload
None == -1
Frames == Nat                 \* EOS or the number of a chunk
LastByte(n) == n * ChunkLen

VARIABLES
    up,                \* is the connection up?
    wire,              \* the frames on their way from each side
    tunnels,           \* is the channel in the session's map of tunnels?
    held,              \* the frame the demux loop is handing to the tunnel
    rx,                \* the chunks waiting in the receiver
    stream,            \* "none", "live", "dropped"
    read_chunk, read_chunk_offset, read_eof,
    pending_send, write_closed,
    closing,           \* a close_tunnel task was spawned and has not sent yet
    written,           \* chunks poll_write has returned Ok for
    at,                \* the byte read last
    gap, again         \* was a byte missed, was a byte read a second time?

readSide == <<read_chunk, read_chunk_offset, read_eof, at, gap, again>>
writeSide == <<pending_send, write_closed, written>>
vars == <<up, wire, tunnels, held, rx, stream, readSide, writeSide, closing>>

TypeOK ==
    /\ up \in BOOLEAN
    /\ wire \in [Sides -> Seq(Frames)]
    /\ \A s \in Sides : Len(wire[s]) <= WireCapacity
    /\ tunnels \in [Sides -> BOOLEAN]
    /\ held \in [Sides -> Frames \cup {None}]
    /\ rx \in [Sides -> Seq(Frames)]
    /\ \A s \in Sides : Len(rx[s]) <= TunnelCapacity
    /\ stream \in [Sides -> {"none", "live", "dropped"}]
    /\ read_chunk \in [Sides -> (Frames \ {EOS}) \cup {None}]
    /\ read_chunk_offset \in [Sides -> 0 .. ChunkLen - 1]
    /\ read_eof \in [Sides -> BOOLEAN]
    /\ pending_send \in [Sides -> (Frames \ {EOS}) \cup {None}]
    /\ write_closed \in [Sides -> BOOLEAN]
    /\ closing \in [Sides -> BOOLEAN]
    /\ written \in [Sides -> Nat] /\ \A s \in Sides : written[s] <= Chunks[s]
    /\ at \in [Sides -> Nat]
    /\ gap \in [Sides -> BOOLEAN]
    /\ again \in [Sides -> BOOLEAN]

Init ==
    /\ up = TRUE
    /\ wire = [s \in Sides |-> <<>>]
    /\ tunnels = [s \in Sides |-> s = Opener]
    /\ held = [s \in Sides |-> None]
    /\ rx = [s \in Sides |-> <<>>]
    /\ stream = [s \in Sides |-> IF s = Opener THEN "live" ELSE "none"]
    /\ read_chunk = [s \in Sides |-> None]
    /\ read_chunk_offset = [s \in Sides |-> 0]
    /\ read_eof = [s \in Sides |-> FALSE]
    /\ pending_send = [s \in Sides |-> None]
    /\ write_closed = [s \in Sides |-> FALSE]
    /\ closing = [s \in Sides |-> FALSE]
    /\ written = [s \in Sides |-> 0]
    /\ at = [s \in Sides |-> 0]
    /\ gap = [s \in Sides |-> FALSE]
    /\ again = [s \in Sides |-> FALSE]

\* Frames for a channel that is not registered are thrown away, those of an
\* opener that does not wait among them.
Usable(s) ==
    /\ stream[s] = "live"
    /\ OpenerWaits /\ s = Opener => stream[Other(s)] # "none"

\* TunnelStream::new on the side that was told the channel id; the answer
\* may be used after the connection was lost, to no effect.
Accept(s) ==
    /\ stream[s] = "none"
    /\ stream' = [stream EXCEPT ![s] = "live"]
    /\ tunnels' = [tunnels EXCEPT ![s] = TRUE]
    /\ UNCHANGED <<up, wire, held, rx, readSide, writeSide, closing>>

(***************************************************************************)
(* The demux loop of each side: one frame at a time, and nothing else is   *)
(* received while a full tunnel makes it wait.                             *)
(***************************************************************************)
RouteToTunnel(s) ==
    LET from == Other(s) IN
    /\ up /\ held[s] = None /\ wire[from] # <<>>
    /\ wire' = [wire EXCEPT ![from] = Tail(@)]
    /\ held' = [held EXCEPT ![s] = IF tunnels[s] THEN Head(wire[from]) ELSE None]
    /\ UNCHANGED <<up, tunnels, rx, stream, readSide, writeSide, closing>>

\* Mutant: the loop does not wait for a reader that lags behind.
DeliverOrDrop(s) ==
    /\ held[s] # None
    /\ rx' = IF stream[s] = "dropped" \/ Len(rx[s]) = TunnelCapacity
             THEN rx ELSE [rx EXCEPT ![s] = Append(@, held[s])]
    /\ tunnels' = [tunnels EXCEPT ![s] = @ /\ stream[s] # "dropped" /\ held[s] # EOS]
    /\ held' = [held EXCEPT ![s] = None]
    /\ UNCHANGED <<up, wire, stream, readSide, writeSide, closing>>

\* The map entry goes with the EOS, or when nobody is left to receive.
Deliver(s) ==
    /\ held[s] # None
    /\ \/ /\ stream[s] = "dropped"
          /\ UNCHANGED rx
       \/ /\ stream[s] # "dropped" /\ Len(rx[s]) < TunnelCapacity
          /\ rx' = [rx EXCEPT ![s] = Append(@, held[s])]
    /\ tunnels' = [tunnels EXCEPT ![s] = @ /\ stream[s] # "dropped" /\ held[s] # EOS]
    /\ held' = [held EXCEPT ![s] = None]
    /\ UNCHANGED <<up, wire, stream, readSide, writeSide, closing>>

(***************************************************************************)
(* poll_read                                                               *)
(***************************************************************************)
\* One byte of chunk n goes to the application; o bytes of it went before.
Copy(s, n, o) ==
    LET byte == LastByte(n - 1) + o + 1 IN
    /\ at' = [at EXCEPT ![s] = byte]
    /\ gap' = [gap EXCEPT ![s] = @ \/ byte > at[s] + 1]
    /\ again' = [again EXCEPT ![s] = @ \/ byte <= at[s]]
    /\ \/ /\ o + 1 < ChunkLen
          /\ read_chunk' = [read_chunk EXCEPT ![s] = n]
          /\ read_chunk_offset' = [read_chunk_offset EXCEPT ![s] = o + 1]
       \/ /\ o + 1 = ChunkLen
          /\ read_chunk' = [read_chunk EXCEPT ![s] = None]
          /\ read_chunk_offset' = [read_chunk_offset EXCEPT ![s] = 0]
    /\ UNCHANGED read_eof

ReadBuffered(s) ==
    /\ stream[s] = "live" /\ ~read_eof[s] /\ read_chunk[s] # None
    /\ Copy(s, read_chunk[s], read_chunk_offset[s])
    /\ UNCHANGED <<up, wire, tunnels, held, rx, stream, writeSide, closing>>

ReadChunk(s) ==
    /\ stream[s] = "live" /\ ~read_eof[s] /\ read_chunk[s] = None
    /\ rx[s] # <<>> /\ Head(rx[s]) # EOS
    /\ rx' = [rx EXCEPT ![s] = Tail(@)]
    /\ Copy(s, Head(rx[s]), 0)
    /\ UNCHANGED <<up, wire, tunnels, held, stream, writeSide, closing>>

\* An empty EOS; what is buffered was read before.
ReadEos(s) ==
    /\ stream[s] = "live" /\ ~read_eof[s] /\ read_chunk[s] = None
    /\ rx[s] # <<>> /\ Head(rx[s]) = EOS
    /\ rx' = [rx EXCEPT ![s] = Tail(@)]
    /\ read_eof' = [read_eof EXCEPT ![s] = TRUE]
    /\ UNCHANGED <<up, wire, tunnels, held, stream, read_chunk, read_chunk_offset, at, gap,
                   again, writeSide, closing>>

(***************************************************************************)
(* poll_write: pending_send is a chunk handed to send_frame that waits for *)
(* room.  The application calls again with the same bytes after Pending,   *)
(* as write_all does.                                                      *)
(***************************************************************************)
Room(s) == Len(wire[s]) < WireCapacity

MayWrite(s) == Usable(s) /\ ~write_closed[s] /\ written[s] < Chunks[s]

\* Nothing in flight: a new send, polled once.
PollWriteNew(s) ==
    /\ MayWrite(s) /\ up /\ pending_send[s] = None
    /\ \/ /\ Room(s)
          /\ wire' = [wire EXCEPT ![s] = Append(@, written[s] + 1)]
          /\ written' = [written EXCEPT ![s] = @ + 1]
          /\ UNCHANGED pending_send
       \/ /\ ~Room(s)
          /\ pending_send' = [pending_send EXCEPT ![s] = written[s] + 1]
          /\ UNCHANGED <<wire, written>>
    /\ UNCHANGED <<up, tunnels, held, rx, stream, readSide, write_closed, closing>>

\* The send in flight is done: the call goes on and sends what it was given,
\* which is what has just been sent.
PollWriteAgain(s) ==
    LET sent == Append(wire[s], pending_send[s]) IN
    /\ MayWrite(s) /\ up /\ pending_send[s] # None /\ Room(s)
    /\ \/ /\ Len(sent) < WireCapacity
          /\ wire' = [wire EXCEPT ![s] = Append(sent, written[s] + 1)]
          /\ written' = [written EXCEPT ![s] = @ + 1]
          /\ pending_send' = [pending_send EXCEPT ![s] = None]
       \/ /\ Len(sent) = WireCapacity
          /\ wire' = [wire EXCEPT ![s] = sent]
          /\ pending_send' = [pending_send EXCEPT ![s] = written[s] + 1]
          /\ UNCHANGED written
    /\ UNCHANGED <<up, tunnels, held, rx, stream, readSide, write_closed, closing>>

\* The transport is closed: the error goes to the application, which drops or
\* shuts down the stream.
PollWriteFails(s) ==
    /\ MayWrite(s) /\ ~up /\ pending_send[s] # None
    /\ pending_send' = [pending_send EXCEPT ![s] = None]
    /\ UNCHANGED <<up, wire, tunnels, held, rx, stream, readSide, write_closed, written,
                   closing>>

(***************************************************************************)
(* poll_flush, poll_shutdown and drop: the EOS is sent by a task of its    *)
(* own, which the stream does not wait for.                                *)
(***************************************************************************)
PollFlush(s) ==
    /\ stream[s] = "live" /\ pending_send[s] # None /\ ~write_closed[s]
    /\ up /\ Room(s)
    /\ wire' = [wire EXCEPT ![s] = Append(@, pending_send[s])]
    /\ pending_send' = [pending_send EXCEPT ![s] = None]
    /\ UNCHANGED <<up, tunnels, held, rx, stream, readSide, write_closed, written, closing>>

\* Mutant: the EOS does not wait for the chunk in flight.
PollShutdownUnflushed(s) ==
    /\ Usable(s) /\ ~write_closed[s]
    /\ written' = [written EXCEPT ![s] = IF pending_send[s] = None THEN @ ELSE @ + 1]
    /\ write_closed' = [write_closed EXCEPT ![s] = TRUE]
    /\ closing' = [closing EXCEPT ![s] = TRUE]
    /\ UNCHANGED <<up, wire, tunnels, held, rx, stream, readSide, pending_send>>

PollShutdown(s) ==
    /\ Usable(s) /\ ~write_closed[s] /\ pending_send[s] = None
    /\ write_closed' = [write_closed EXCEPT ![s] = TRUE]
    /\ closing' = [closing EXCEPT ![s] = TRUE]
    /\ UNCHANGED <<up, wire, tunnels, held, rx, stream, readSide, pending_send, written>>

\* Mutant: a stream that is dropped says nothing to the other side.
DropSilently(s) ==
    /\ Usable(s) /\ s \in MayDrop
    /\ stream' = [stream EXCEPT ![s] = "dropped"]
    /\ tunnels' = [tunnels EXCEPT ![s] = FALSE]
    /\ rx' = [rx EXCEPT ![s] = <<>>]
    /\ pending_send' = [pending_send EXCEPT ![s] = None]
    /\ UNCHANGED <<up, wire, held, readSide, write_closed, written, closing>>

\* The chunk in flight is cancelled.
Drop(s) ==
    /\ Usable(s) /\ s \in MayDrop
    /\ stream' = [stream EXCEPT ![s] = "dropped"]
    /\ tunnels' = [tunnels EXCEPT ![s] = FALSE]
    /\ rx' = [rx EXCEPT ![s] = <<>>]
    /\ pending_send' = [pending_send EXCEPT ![s] = None]
    /\ closing' = [closing EXCEPT ![s] = @ \/ ~write_closed[s]]
    /\ UNCHANGED <<up, wire, held, readSide, write_closed, written>>

CloseTunnel(s) ==
    /\ closing[s]
    /\ \/ ~up /\ UNCHANGED wire
       \/ up /\ Room(s) /\ wire' = [wire EXCEPT ![s] = Append(@, EOS)]
    /\ closing' = [closing EXCEPT ![s] = FALSE]
    /\ UNCHANGED <<up, tunnels, held, rx, stream, readSide, writeSide>>

\* What was on its way is lost; each run() ends with the transport, and its
\* frame in hand with it.
Disconnect ==
    /\ MayDisconnect /\ up
    /\ up' = FALSE
    /\ wire' = [s \in Sides |-> <<>>]
    /\ held' = [s \in Sides |-> None]
    /\ UNCHANGED <<tunnels, rx, stream, readSide, writeSide, closing>>

Read(s) == ReadBuffered(s) \/ ReadChunk(s) \/ ReadEos(s)
Write(s) == PollWriteNew(s) \/ PollWriteAgain(s) \/ PollWriteFails(s)
Demux(s) == RouteToTunnel(s) \/ Deliver(s)

Next ==
    \/ \E s \in Sides :
           \/ Accept(s) \/ Demux(s) \/ Read(s) \/ Write(s)
           \/ PollFlush(s) \/ PollShutdown(s) \/ Drop(s) \/ CloseTunnel(s)
    \/ Disconnect

Spec == Init /\ [][Next]_vars

\* The sessions and the spawned tasks run; an application accepts the channel it
\* asked for, and reads its stream as long as it has one.
FairSpec ==
    /\ Spec
    /\ \A s \in Sides :
           WF_vars(Accept(s)) /\ WF_vars(Demux(s)) /\ WF_vars(Read(s)) /\ SF_vars(CloseTunnel(s))

(***************************************************************************)
(* Properties                                                              *)
(***************************************************************************)
\* No byte is skipped, whatever waits, lags or is dropped, and no byte is read
\* that the other side has not at least begun to write (poll_read, poll_write).
NoByteIsSkipped ==
    \A s \in Sides :
        /\ ~gap[s]
        /\ at[s] <= LastByte(written[Other(s)] + 1)

\* When the reader is told of the end, by a shutdown or a drop, it has read every
\* byte that poll_write accepted (poll_shutdown flushes before the EOS).
EofIsComplete == \A s \in Sides : read_eof[s] => at[s] >= LastByte(written[Other(s)])

\* The EOS is the last frame of its direction, in the receiver, in the hands of
\* the demux loop and on the wire: not followed by a chunk, by a second EOS, or
\* by a task that will send one (write_closed, drop).
EosSeen(s) ==
    LET o == Other(s) IN
    \/ read_eof[o] \/ held[o] = EOS
    \/ \E i \in 1 .. Len(rx[o]) : rx[o][i] = EOS
    \/ \E i \in 1 .. Len(wire[s]) : wire[s][i] = EOS

NothingFollowsEos ==
    \A s \in Sides :
        LET o == Other(s) IN
        /\ \A i \in 1 .. Len(wire[s]) : wire[s][i] = EOS => i = Len(wire[s])
        /\ held[o] = EOS => wire[s] = <<>>
        /\ \A i \in 1 .. Len(rx[o]) : rx[o][i] = EOS =>
               i = Len(rx[o]) /\ held[o] = None /\ wire[s] = <<>>
        /\ read_eof[o] => rx[o] = <<>> /\ held[o] = None /\ wire[s] = <<>>
        /\ EosSeen(s) => ~closing[s] /\ pending_send[s] = None

\* A reader does not wait for ever once the other side has shut down or dropped
\* its stream, even with both wires and both tunnels full (drop, close_tunnel).
ReaderIsTold ==
    \A s \in Sides :
        up /\ stream[s] = "live" /\ (write_closed[Other(s)] \/ stream[Other(s)] = "dropped")
            ~> ~up \/ read_eof[s] \/ stream[s] = "dropped"

\* Every byte is read once (docs/content/spec/core.md:350).
NoByteIsRepeated == \A s \in Sides : ~again[s]

\* A reader is told when the connection is lost.
DisconnectIsTold == \A s \in Sides : ~up /\ stream[s] = "live" ~> read_eof[s] \/ stream[s] = "dropped"
====
