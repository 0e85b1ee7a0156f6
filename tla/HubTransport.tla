---- MODULE HubTransport ----
(***************************************************************************)
(* The two ends of a hub transport between the host and one cell             *)
(* (rust/rapace-core/src/transport/shm/hub_transport.rs): send_frame with    *)
(* its waits for a slot and for room on the ring, recv_frame with its        *)
(* doorbell, close(), and what the death of an end leaves behind.  The       *)
(* ring is the queue that SpscRing implements and the allocator a set of     *)
(* slots, as HubAllocator implements it.  The futexes and the doorbell are   *)
(* those of rust/shm-primitives: a waiter first loads the futex word and     *)
(* sleeps only while it is unchanged, so every signal after the load ends    *)
(* its wait, and none before; pc "arm_..." lies between the test that        *)
(* failed and that load.  Every wait on a futex has a time-out.              *)
(***************************************************************************)
EXTENDS Naturals, Sequences, FiniteSets

CONSTANTS HostTasks,      \* the tasks of the host that call send_frame
          CellTasks,      \* those of the cell
          Quota,          \* [Tasks -> how many frames it sends]
          Slots,          \* the slots of the hub that are large enough
          RingCapacity,   \* entries of a ring
          Kinds,          \* [SentFrames -> what its payload may be]: see PayloadKinds
          MayClose,       \* the ends whose application may call close()
          MayDie          \* the ends whose process may die

Tasks == HostTasks \cup CellTasks
Ends == {"host", "cell"}
PayloadKinds == {"inline", "slot", "too_large"}
SentFrames == UNION {{t} \X (1 .. Quota[t]) : t \in Tasks}

NoSlot == "inline"                    \* INLINE_PAYLOAD_SLOT

ASSUME TransportAssumption ==
    /\ HostTasks \cap CellTasks = {}
    /\ Quota \in [Tasks -> Nat]
    /\ NoSlot \notin Slots
    /\ RingCapacity \in Nat \ {0}
    /\ Kinds \in [SentFrames -> SUBSET PayloadKinds]
    /\ MayClose \subseteq Ends /\ MayDie \subseteq Ends

End(t) == IF t \in HostTasks THEN "host" ELSE "cell"
Other(e) == IF e = "host" THEN "cell" ELSE "host"

Descriptors == [frame : SentFrames, slot : Slots \cup {NoSlot}]
NoFrame == <<>>
Nothing == [frame |-> NoFrame, slot |-> NoSlot]

VARIABLES
    slot_state,  \* [Slots -> {"free", "allocated", "in_flight"}]
    memory,      \* [Slots -> the frame whose payload was written last]
    ring,        \* [Ends -> the descriptors on their way to this end]
    doorbell,    \* [Ends -> whether a byte waits in this end's socket]
    closed,      \* [Ends -> the closed flag of this end's transport]
    alive,       \* the ends whose process lives
    reported,    \* peer_death_logged of the host's transport
    pc,          \* [Tasks -> where send_frame is]
    sending,     \* [Tasks -> the descriptor it is sending]
    waited,      \* the tasks that waited for a slot since they asked for one
    begun,       \* [Tasks -> the number of frames it began to send]
    outcome,     \* [SentFrames -> how their send_frame ended]
    recv_pc,     \* [Ends -> where the loop around recv_frame is]
    got,         \* [Ends -> the descriptor it took off the ring]
    returned,    \* [Ends -> the frames recv_frame returned: name and payload]
    lost         \* the slots that a send gave up while they were in its hands

send_vars == <<pc, sending, waited, begun, outcome>>
recv_vars == <<recv_pc, got, returned>>
transportVars == <<slot_state, memory, ring, doorbell, closed, alive, reported,
          pc, sending, waited, begun, outcome, recv_pc, got, returned, lost>>

TransportInit ==
    /\ slot_state = [s \in Slots |-> "free"]
    /\ memory = [s \in Slots |-> NoFrame]
    /\ ring = [e \in Ends |-> <<>>]
    /\ doorbell = [e \in Ends |-> FALSE]
    /\ closed = [e \in Ends |-> FALSE]
    /\ alive = Ends
    /\ reported = FALSE
    /\ pc = [t \in Tasks |-> "idle"]
    /\ sending = [t \in Tasks |-> Nothing]
    /\ waited = {}
    /\ begun = [t \in Tasks |-> 0]
    /\ outcome = [f \in SentFrames |-> "none"]
    /\ recv_pc = [e \in Ends |-> "idle"]
    /\ got = [e \in Ends |-> Nothing]
    /\ returned = [e \in Ends |-> <<>>]
    /\ lost = {}

-----------------------------------------------------------------------------
(* Futexes.  A signal adds one to the word and wakes all who wait: those     *)
(* that have loaded it are on their way to try again.                        *)

(* futex_signal on slot_available_futex(0), which every wait for a slot      *)
(* uses, whatever the class.                                                 *)
WakeSlotWaiters(at) ==
    [t \in Tasks |-> IF at[t] = "wait_slot" THEN "alloc" ELSE at[t]]

(* futex_signal on the data futex of the ring towards e: sender and          *)
(* receiver signal the same word.                                            *)
WakeRoomWaiters(at, e) ==
    [t \in Tasks |-> IF at[t] = "wait_room" /\ Other(End(t)) = e
                     THEN "enqueue" ELSE at[t]]

(* Doorbell::signal: a byte for the other end, one that is already there     *)
(* is as good.  It fails when the process that holds the other end died.     *)
Ring(e) == doorbell' = [doorbell EXCEPT ![e] = TRUE]

-----------------------------------------------------------------------------
(* send_frame                                                                *)

Goto(t, where) == pc' = [pc EXCEPT ![t] = where]

(* send_frame returns, or its future is dropped: the slot it held is         *)
(* nobody's from then on, unless the ring has it.                            *)
Finish(t, how) ==
    /\ Goto(t, "idle")
    /\ outcome' = [outcome EXCEPT ![sending[t].frame] = how]
    /\ sending' = [sending EXCEPT ![t] = Nothing]
    /\ waited' = waited \ {t}
    /\ UNCHANGED begun

KeepsSlot(t) == pc[t] \in {"mark", "enqueue", "full", "arm_room", "wait_room"}

(* Mutant: a dropped send does not notice that it holds a slot.              *)
AbandonNothing(t) == UNCHANGED lost

Abandon(t) ==
    lost' = IF KeepsSlot(t) /\ sending[t].slot # NoSlot
            THEN lost \cup {sending[t].slot} ELSE lost

SendBegin(t, kind) ==
    /\ pc[t] = "idle" /\ begun[t] < Quota[t]
    /\ LET f == <<t, begun[t] + 1>> IN
       /\ kind \in Kinds[f]
       /\ begun' = [begun EXCEPT ![t] = @ + 1]
       /\ IF closed[End(t)]
          THEN /\ outcome' = [outcome EXCEPT ![f] = "closed"]
               /\ UNCHANGED <<pc, sending>>
          ELSE /\ sending' = [sending EXCEPT ![t] = [frame |-> f, slot |-> NoSlot]]
               /\ Goto(t, CASE kind = "inline" -> "enqueue"
                            [] kind = "slot" -> "alloc"
                            [] OTHER -> "too_large")
               /\ UNCHANGED outcome
    /\ UNCHANGED <<slot_state, memory, ring, doorbell, closed, alive, reported,
                   waited, recv_vars, lost>>

(* alloc() fails for good: the payload is larger than every slot.            *)
SendTooLarge(t) ==
    /\ pc[t] = "too_large"
    /\ Finish(t, "failed")
    /\ UNCHANGED <<slot_state, memory, ring, doorbell, closed, alive, reported,
                   recv_vars, lost>>

(* alloc() and the copy into the slot.                                       *)
AllocSlot(t) ==
    /\ pc[t] = "alloc"
    /\ \E s \in Slots :
        /\ slot_state[s] = "free"
        /\ slot_state' = [slot_state EXCEPT ![s] = "allocated"]
        /\ memory' = [memory EXCEPT ![s] = sending[t].frame]
        /\ sending' = [sending EXCEPT ![t].slot = s]
    /\ Goto(t, "mark")
    /\ UNCHANGED <<ring, doorbell, closed, alive, reported, waited, begun,
                   outcome, recv_vars, lost>>

NoFreeSlot == \A s \in Slots : slot_state[s] # "free"

(* MAX_WAIT has passed, which it has not at the first attempt.               *)
AllocTimesOut(t) ==
    /\ pc[t] = "alloc" /\ NoFreeSlot /\ t \in waited
    /\ Finish(t, "failed")
    /\ UNCHANGED <<slot_state, memory, ring, doorbell, closed, alive, reported,
                   recv_vars, lost>>

(* The transport was closed, or on to the next wait.                         *)
AllocFails(t) ==
    /\ pc[t] = "alloc" /\ NoFreeSlot
    /\ IF closed[End(t)]
       THEN Finish(t, "closed")
       ELSE Goto(t, "arm_slot") /\ UNCHANGED <<sending, waited, begun, outcome>>
    /\ UNCHANGED <<slot_state, memory, ring, doorbell, closed, alive, reported,
                   recv_vars, lost>>

(* After yield_now, futex_wait_async_ptr loads the word.                     *)
ArmSlotWait(t) ==
    /\ pc[t] = "arm_slot"
    /\ Goto(t, "wait_slot")
    /\ waited' = waited \cup {t}
    /\ UNCHANGED <<slot_state, memory, ring, doorbell, closed, alive, reported,
                   sending, begun, outcome, recv_vars, lost>>

SlotWaitTimesOut(t) ==
    /\ pc[t] = "wait_slot"
    /\ Goto(t, "alloc")
    /\ UNCHANGED <<slot_state, memory, ring, doorbell, closed, alive, reported,
                   sending, waited, begun, outcome, recv_vars, lost>>

MarkInFlight(t) ==
    /\ pc[t] = "mark"
    /\ slot_state' = [slot_state EXCEPT ![sending[t].slot] = "in_flight"]
    /\ Goto(t, "enqueue")
    /\ UNCHANGED <<memory, ring, doorbell, closed, alive, reported,
                   sending, waited, begun, outcome, recv_vars, lost>>

(* Under local_send_head: one producer at a time.                            *)
Enqueue(t) ==
    LET e == Other(End(t)) IN
    /\ pc[t] = "enqueue"
    /\ IF Len(ring[e]) < RingCapacity
       THEN /\ ring' = [ring EXCEPT ![e] = Append(@, sending[t])]
            /\ Goto(t, "signal")
       ELSE Goto(t, "full") /\ UNCHANGED ring
    /\ UNCHANGED <<slot_state, memory, doorbell, closed, alive, reported,
                   sending, waited, begun, outcome, recv_vars, lost>>

(* The ring was full.                                                        *)
GiveUpIfClosed(t) ==
    /\ pc[t] = "full"
    /\ IF closed[End(t)]
       THEN Finish(t, "closed") /\ Abandon(t)
       ELSE Goto(t, "arm_room") /\ UNCHANGED <<sending, waited, begun, outcome, lost>>
    /\ UNCHANGED <<slot_state, memory, ring, doorbell, closed, alive, reported,
                   recv_vars>>

ArmRoomWait(t) ==
    /\ pc[t] = "arm_room"
    /\ Goto(t, "wait_room")
    /\ UNCHANGED <<slot_state, memory, ring, doorbell, closed, alive, reported,
                   sending, waited, begun, outcome, recv_vars, lost>>

(* Mutant: the wait for room has no time-out.                                *)
RoomWaitForEver(t) == FALSE /\ UNCHANGED transportVars

RoomWaitTimesOut(t) ==
    /\ pc[t] = "wait_room"
    /\ Goto(t, "enqueue")
    /\ UNCHANGED <<slot_state, memory, ring, doorbell, closed, alive, reported,
                   sending, waited, begun, outcome, recv_vars, lost>>

(* Mutant: closed is looked at after the frame went onto the ring, too.      *)
SignalDoorbellIfOpen(t) ==
    LET e == Other(End(t)) IN
    /\ pc[t] = "signal"
    /\ IF e \in alive /\ ~closed[End(t)]
       THEN Ring(e) /\ Goto(t, "wake")
       ELSE UNCHANGED doorbell /\ Goto(t, "wake_dead")
    /\ UNCHANGED <<slot_state, memory, ring, closed, alive, reported,
                   sending, waited, begun, outcome, recv_vars, lost>>

(* doorbell.signal().  A host that finds the cell dead reports it, closes,   *)
(* and signals the futex; a cell signals the futex, and closes.              *)
SignalDoorbell(t) ==
    LET e == Other(End(t)) IN
    /\ pc[t] = "signal"
    /\ IF e \in alive
       THEN Ring(e) /\ Goto(t, "wake")
       ELSE UNCHANGED doorbell /\ Goto(t, IF End(t) = "host" THEN "report" ELSE "wake_dead")
    /\ UNCHANGED <<slot_state, memory, ring, closed, alive, reported,
                   sending, waited, begun, outcome, recv_vars, lost>>

(* handle_signal_result: the callback, once, before closed is set.           *)
ReportDeath(t) ==
    /\ pc[t] = "report"
    /\ reported' = TRUE
    /\ Goto(t, "close")
    /\ UNCHANGED <<slot_state, memory, ring, doorbell, closed, alive,
                   sending, waited, begun, outcome, recv_vars, lost>>

(* closed is set: by the host before the futex is signalled, by the cell     *)
(* after it.                                                                 *)
CloseOnDeath(t) ==
    /\ pc[t] = "close"
    /\ closed' = [closed EXCEPT ![End(t)] = TRUE]
    /\ IF End(t) = "host"
       THEN Goto(t, "wake_dead") /\ UNCHANGED <<sending, waited, begun, outcome>>
       ELSE Finish(t, "closed")
    /\ UNCHANGED <<slot_state, memory, ring, doorbell, alive, reported,
                   recv_vars, lost>>

(* futex_signal on the data futex of the ring, then the return.              *)
SignalData(t) ==
    LET e == Other(End(t))
        how == IF pc[t] = "wake" THEN "ok" ELSE "closed"
        woken == WakeRoomWaiters(pc, e) IN
    /\ pc[t] \in {"wake", "wake_dead"}
    /\ IF pc[t] = "wake_dead" /\ End(t) = "cell"
       THEN /\ pc' = [woken EXCEPT ![t] = "close"]
            /\ UNCHANGED <<sending, waited, begun, outcome>>
       ELSE /\ pc' = [woken EXCEPT ![t] = "idle"]
            /\ outcome' = [outcome EXCEPT ![sending[t].frame] = how]
            /\ sending' = [sending EXCEPT ![t] = Nothing]
            /\ waited' = waited \ {t}
            /\ UNCHANGED begun
    /\ UNCHANGED <<slot_state, memory, ring, doorbell, closed, alive, reported,
                   recv_vars, lost>>

(* The future of send_frame is dropped at one of its awaits.                 *)
DropSend(t) ==
    /\ pc[t] \in {"arm_slot", "wait_slot", "enqueue", "wait_room"}
    /\ Finish(t, "dropped")
    /\ Abandon(t)
    /\ UNCHANGED <<slot_state, memory, ring, doorbell, closed, alive, reported,
                   recv_vars>>

-----------------------------------------------------------------------------
(* recv_frame, called in a loop until it returns an error                    *)

RecvBegin(e) ==
    /\ recv_pc[e] = "idle"
    /\ recv_pc' = [recv_pc EXCEPT ![e] = IF closed[e] THEN "ended" ELSE "poll"]
    /\ UNCHANGED <<slot_state, memory, ring, doorbell, closed, alive, reported,
                   send_vars, got, returned, lost>>

Dequeue(e) ==
    /\ recv_pc[e] = "poll"
    /\ IF ring[e] # <<>>
       THEN /\ got' = [got EXCEPT ![e] = Head(ring[e])]
            /\ ring' = [ring EXCEPT ![e] = Tail(@)]
            /\ recv_pc' = [recv_pc EXCEPT ![e] = "taken"]
       ELSE /\ recv_pc' = [recv_pc EXCEPT ![e] = "empty"]
            /\ UNCHANGED <<got, ring>>
    /\ UNCHANGED <<slot_state, memory, doorbell, closed, alive, reported,
                   send_vars, returned, lost>>

(* Mutant: the receiver gives the slot back before it copies the payload.    *)
SignalRoomFreeingEarly(e) ==
    /\ recv_pc[e] = "taken"
    /\ pc' = WakeSlotWaiters(WakeRoomWaiters(pc, e))
    /\ slot_state' = IF got[e].slot = NoSlot THEN slot_state
                     ELSE [slot_state EXCEPT ![got[e].slot] = "free"]
    /\ recv_pc' = [recv_pc EXCEPT ![e] = "copy"]
    /\ UNCHANGED <<memory, ring, doorbell, closed, alive, reported,
                   sending, waited, begun, outcome, got, returned, lost>>

(* futex_signal: there is room.                                              *)
SignalRoom(e) ==
    /\ recv_pc[e] = "taken"
    /\ pc' = WakeRoomWaiters(pc, e)
    /\ recv_pc' = [recv_pc EXCEPT ![e] = "copy"]
    /\ UNCHANGED <<slot_state, memory, ring, doorbell, closed, alive, reported,
                   sending, waited, begun, outcome, got, returned, lost>>

(* An inline payload came with the descriptor; another is copied out.        *)
Payload(d) == IF d.slot = NoSlot THEN d.frame ELSE memory[d.slot]
CopyOut(e) ==
    /\ recv_pc[e] = "copy"
    /\ returned' = [returned EXCEPT ![e] =
                      Append(@, [frame |-> got[e].frame, payload |-> Payload(got[e])])]
    /\ recv_pc' = [recv_pc EXCEPT ![e] = IF got[e].slot = NoSlot THEN "idle" ELSE "free"]
    /\ got' = IF got[e].slot = NoSlot THEN [got EXCEPT ![e] = Nothing] ELSE got
    /\ UNCHANGED <<slot_state, memory, ring, doorbell, closed, alive, reported,
                   send_vars, lost>>

(* free() and its signal to those that wait for a slot.                      *)
FreeSlot(e) ==
    /\ recv_pc[e] = "free"
    /\ slot_state' = [slot_state EXCEPT ![got[e].slot] = "free"]
    /\ got' = [got EXCEPT ![e] = Nothing]
    /\ pc' = WakeSlotWaiters(pc)
    /\ recv_pc' = [recv_pc EXCEPT ![e] = "idle"]
    /\ UNCHANGED <<memory, ring, doorbell, closed, alive, reported,
                   sending, waited, begun, outcome, returned, lost>>

(* Mutant: the doorbell is drained on the way to the wait, after the ring    *)
(* was found empty.                                                          *)
RecvEmptyDraining(e) ==
    /\ recv_pc[e] = "empty"
    /\ recv_pc' = [recv_pc EXCEPT ![e] = IF closed[e] THEN "ended" ELSE "wait"]
    /\ doorbell' = [doorbell EXCEPT ![e] = FALSE]
    /\ UNCHANGED <<slot_state, memory, ring, closed, alive, reported,
                   send_vars, got, returned, lost>>

(* Nothing there: the transport was closed, or wait for the doorbell.        *)
RecvEmpty(e) ==
    /\ recv_pc[e] = "empty"
    /\ recv_pc' = [recv_pc EXCEPT ![e] = IF closed[e] THEN "ended" ELSE "wait"]
    /\ UNCHANGED <<slot_state, memory, ring, doorbell, closed, alive, reported,
                   send_vars, got, returned, lost>>

(* Doorbell::wait takes the bytes that are there.                            *)
DoorbellWait(e) ==
    /\ recv_pc[e] = "wait" /\ doorbell[e]
    /\ doorbell' = [doorbell EXCEPT ![e] = FALSE]
    /\ recv_pc' = [recv_pc EXCEPT ![e] = "drain"]
    /\ UNCHANGED <<slot_state, memory, ring, closed, alive, reported,
                   send_vars, got, returned, lost>>

(* Doorbell::drain takes those that came since.                              *)
DoorbellDrain(e) ==
    /\ recv_pc[e] = "drain"
    /\ doorbell' = [doorbell EXCEPT ![e] = FALSE]
    /\ recv_pc' = [recv_pc EXCEPT ![e] = "poll"]
    /\ UNCHANGED <<slot_state, memory, ring, closed, alive, reported,
                   send_vars, got, returned, lost>>

-----------------------------------------------------------------------------
Close(e) ==
    /\ e \in MayClose \cap alive /\ ~closed[e]
    /\ closed' = [closed EXCEPT ![e] = TRUE]
    /\ UNCHANGED <<slot_state, memory, ring, doorbell, alive, reported,
                   send_vars, recv_vars, lost>>

Die(e) ==
    /\ e \in MayDie \cap alive
    /\ alive' = alive \ {e}
    /\ UNCHANGED <<slot_state, memory, ring, doorbell, closed, reported,
                   send_vars, recv_vars, lost>>

SendStep(t) ==
    \/ SendTooLarge(t) \/ AllocSlot(t) \/ AllocFails(t) \/ ArmSlotWait(t)
    \/ MarkInFlight(t) \/ Enqueue(t) \/ GiveUpIfClosed(t) \/ ArmRoomWait(t)
    \/ SignalDoorbell(t) \/ ReportDeath(t) \/ CloseOnDeath(t) \/ SignalData(t)

(* The two time-outs of futex_wait, and that of the search for a slot.       *)
TimeOut(t) == SlotWaitTimesOut(t) \/ RoomWaitTimesOut(t)

RecvStep(e) ==
    \/ RecvBegin(e) \/ Dequeue(e) \/ SignalRoom(e) \/ CopyOut(e) \/ FreeSlot(e)
    \/ RecvEmpty(e) \/ DoorbellWait(e) \/ DoorbellDrain(e)

SendFrame(t) ==
    \/ \E kind \in PayloadKinds : SendBegin(t, kind)
    \/ SendStep(t) \/ TimeOut(t) \/ AllocTimesOut(t) \/ DropSend(t)

HostSendFrame == "host" \in alive /\ \E t \in HostTasks : SendFrame(t)
HostRecvFrame == "host" \in alive /\ RecvStep("host")
PeerSendFrame == "cell" \in alive /\ \E t \in CellTasks : SendFrame(t)
PeerRecvFrame == "cell" \in alive /\ RecvStep("cell")

TransportNext ==
    \/ HostSendFrame \/ HostRecvFrame \/ PeerSendFrame \/ PeerRecvFrame
    \/ \E e \in Ends : Close(e) \/ Die(e)

TransportSpec == TransportInit /\ [][TransportNext]_transportVars

(* The runtime polls what is ready, futex waits time out, and somebody       *)
(* receives at each end.  MAX_WAIT passes for a send that finds no slot      *)
(* again and again.  Nobody has to send, close, drop or die.                 *)
FairTransportSpec ==
    /\ TransportSpec
    /\ \A t \in Tasks : WF_transportVars(End(t) \in alive /\ (SendStep(t) \/ TimeOut(t)))
    /\ \A t \in Tasks : SF_transportVars(End(t) \in alive /\ AllocTimesOut(t))
    /\ \A e \in Ends : WF_transportVars(e \in alive /\ RecvStep(e))

-----------------------------------------------------------------------------
TransportTypeOK ==
    /\ slot_state \in [Slots -> {"free", "allocated", "in_flight"}]
    /\ memory \in [Slots -> SentFrames \cup {NoFrame}]
    /\ ring \in [Ends -> Seq(Descriptors)]
    /\ \A e \in Ends : Len(ring[e]) <= RingCapacity
    /\ doorbell \in [Ends -> BOOLEAN] /\ closed \in [Ends -> BOOLEAN]
    /\ alive \subseteq Ends /\ reported \in BOOLEAN
    /\ pc \in [Tasks -> {"idle", "alloc", "too_large", "arm_slot", "wait_slot",
                         "mark", "enqueue", "full", "arm_room", "wait_room",
                         "signal", "report", "close", "wake", "wake_dead"}]
    /\ sending \in [Tasks -> Descriptors \cup {Nothing}]
    /\ waited \subseteq Tasks
    /\ begun \in [Tasks -> Nat] /\ \A t \in Tasks : begun[t] <= Quota[t]
    /\ outcome \in [SentFrames -> {"none", "ok", "failed", "closed", "dropped"}]
    /\ recv_pc \in [Ends -> {"idle", "poll", "taken", "copy", "free", "empty",
                             "wait", "drain", "ended"}]
    /\ got \in [Ends -> Descriptors \cup {Nothing}]
    /\ returned \in [Ends -> Seq([frame : SentFrames, payload : SentFrames])]
    /\ lost \subseteq Slots

(* Every slot that is not free is in one place: in the hands of one send,    *)
(* on one ring, with one receiver, or lost to a send that gave up or was     *)
(* dropped while the ring was full.  No slot vanishes in any other way and   *)
(* none is used twice, whatever is closed, dropped or dies when.             *)
Holders(s) ==
    Cardinality({t \in Tasks : KeepsSlot(t) /\ sending[t].slot = s})
    + Cardinality({p \in Ends \X (1 .. RingCapacity) :
                     p[2] <= Len(ring[p[1]]) /\ ring[p[1]][p[2]].slot = s})
    + Cardinality({e \in Ends : recv_pc[e] \in {"taken", "copy", "free"}
                                /\ got[e].slot = s})
    + Cardinality(lost \cap {s})
SlotsAccounted ==
    \A s \in Slots : Holders(s) = IF slot_state[s] = "free" THEN 0 ELSE 1

(* What recv_frame returns under a descriptor is what was sent under it,     *)
(* each frame once, and those of one task in the order it sent them.         *)
ArrivesIntact ==
    \A e \in Ends : \A i \in 1 .. Len(returned[e]) :
        /\ returned[e][i].payload = returned[e][i].frame
        /\ \A j \in 1 .. i - 1 :
             returned[e][j].frame[1] = returned[e][i].frame[1]
               => returned[e][j].frame[2] < returned[e][i].frame[2]

(* send_frame tells the truth: after Ok the frame is on its way or there;    *)
(* after an error, or when its future was dropped, it will not arrive,       *)
(* unless the other end died, which may have read it first.                  *)
OnTheWay(e) == {ring[e][i].frame : i \in 1 .. Len(ring[e])}
               \cup {got[x].frame : x \in {y \in {e} : recv_pc[y] \in {"taken", "copy"}}}
Arrived(e) == {returned[e][i].frame : i \in 1 .. Len(returned[e])}
OutcomeHonest ==
    \A f \in SentFrames :
        LET e == Other(End(f[1]))
            somewhere == f \in OnTheWay(e) \cup Arrived(e) IN
        /\ outcome[f] = "ok" => somewhere
        /\ outcome[f] \in {"failed", "closed", "dropped"} /\ e \in alive
             => ~somewhere

(* No wake-up is lost: what is on a ring is read, as long as both ends       *)
(* live.  (A sender that dies between enqueue and signal leaves a frame      *)
(* that nobody is told of.)                                                  *)
EveryFrameIsRead ==
    \A e \in Ends : ring[e] # <<>>
        ~> (ring[e] = <<>> \/ recv_pc[e] = "ended" \/ alive # Ends)

(* No send waits for ever, for a slot or for room, while the other end       *)
(* lives and receives.                                                       *)
EverySendEnds ==
    \A t \in Tasks : pc[t] # "idle"
        ~> (pc[t] = "idle" \/ recv_pc[Other(End(t))] = "ended" \/ alive # Ends)

(* The session of the host notices that its cell died: its receive loop      *)
(* ends.  (It does not: nothing rings its doorbell any more.)                *)
DeathIsNoticed == "cell" \notin alive ~> recv_pc["host"] = "ended" \/ "host" \notin alive
=============================================================================
