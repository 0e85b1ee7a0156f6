---- MODULE ChannelSession ----
(***************************************************************************)
(* The Session of the rapace crate (rust/rapace/src/session.rs): half-     *)
(* close, credits, cancellation and the tombstones of ended channels, used *)
(* by any number of tasks at once.  The two maps have a lock each, taken   *)
(* one after the other: one step per critical section.                     *)
(*                                                                         *)
(* What the peer sends is any frame at any time.  Channel 0 and frames     *)
(* that carry neither DATA nor EOS change no state of a channel and are    *)
(* left out.  Nothing sets the cancelled flag of a tracked channel, so it  *)
(* is left out too; the one of a tombstone is its value in tombstones.     *)
(***************************************************************************)
EXTENDS Integers, Sequences, FiniteSets

CONSTANTS Tasks,          \* the tasks that share the session
          Channels,
          Shapes,         \* the frames the application sends: [data, eos, payload_len]
          InitialCredits, \* DEFAULT_INITIAL_CREDITS
          MaxCredits,     \* u32::MAX
          MaxTracked,     \* RAPACE_SESSION_MAX_TRACKED_CHANNELS
          MaxTombstones,  \* RAPACE_MAX_TOMBSTONES
          Grants,         \* the amounts a GRANT_CREDITS may carry
          MaxFrames       \* bound on the frames each way on a channel

ASSUME ChannelAssumption ==
    /\ Shapes \subseteq [data : BOOLEAN, eos : BOOLEAN, payload_len : Nat]
    /\ \A f \in Shapes : f.data \/ f.eos
    /\ {InitialCredits, MaxCredits, MaxFrames} \subseteq Nat
    /\ InitialCredits <= MaxCredits
    /\ {MaxTracked, MaxTombstones} \subseteq Nat \ {0}
    /\ Grants \subseteq Nat

VARIABLES
    channels,    \* [tracked channels -> [lifecycle, send_credits]]
    tombstones,  \* [tombstoned channels -> BOOLEAN]: was it cancelled?
    order,       \* the tombstones from the oldest on
    pc,          \* [Tasks -> the next critical section]
    chan, shape, \* [Tasks -> the channel and the frame it is about]
    sent,        \* history: [Channels -> Seq], the DATA frames send_frame lets through
    bare_eos,    \* history: [Channels -> SUBSET Nat], after how many of them it let
                 \* through an EOS without DATA
    delivered    \* history: [Channels -> Seq], what recv_frame returns

locals == <<chan, shape>>
history == <<sent, bare_eos, delivered>>
vars == <<channels, tombstones, order, pc, chan, shape, sent, bare_eos,
          delivered>>

Lifecycles == {"Open", "HalfClosedLocal", "HalfClosedRemote", "Closed"}
Fresh == [lifecycle |-> "Open", send_credits |-> InitialCredits]
EosOnly == [data |-> FALSE, eos |-> TRUE, payload_len |-> 0]

Tracked == DOMAIN channels
Tombstoned == DOMAIN tombstones
Entry(c) == IF c \in Tracked THEN channels[c] ELSE Fresh   \* entry().or_default()
With(c, st) == [d \in Tracked \cup {c} |-> IF d = c THEN st ELSE channels[d]]
Without(c) == [d \in Tracked \ {c} |-> channels[d]]

CanSend(st) == st.lifecycle \in {"Open", "HalfClosedRemote"}
CanReceive(st) == st.lifecycle \in {"Open", "HalfClosedLocal"}

LocalEos(l) == CASE l = "Open" -> "HalfClosedLocal"
                 [] l = "HalfClosedRemote" -> "Closed"
                 [] OTHER -> l
RemoteEos(l) == CASE l = "Open" -> "HalfClosedRemote"
                  [] l = "HalfClosedLocal" -> "Closed"
                  [] OTHER -> l

Init ==
    /\ channels = [c \in {} |-> Fresh]
    /\ tombstones = [c \in {} |-> FALSE]
    /\ order = <<>>
    /\ pc = [t \in Tasks |-> "idle"]
    /\ chan \in [Tasks -> Channels]
    /\ shape = [t \in Tasks |-> EosOnly]
    /\ sent = [c \in Channels |-> <<>>]
    /\ bare_eos = [c \in Channels |-> {}]
    /\ delivered = [c \in Channels |-> <<>>]

Goto(t, step) == pc' = [pc EXCEPT ![t] = step]
At(t, step) == pc[t] = step
Holding(t, c, f) == chan' = [chan EXCEPT ![t] = c] /\ shape' = [shape EXCEPT ![t] = f]
Full(c) == c \notin Tracked /\ Cardinality(Tracked) >= MaxTracked

\* What the histories keep of a frame.  The application that receives an EOS does
\* not tell whether it came with DATA.
Kind(f) == IF f.eos THEN "eos" ELSE "data"

-----------------------------------------------------------------------------
(* Tombstones *)

\* Mutant of Ordered: a tombstone that is already there is queued again.
OrderedTwice(c) == Append(order, c)

Ordered(c) == IF c \in Tombstoned THEN order ELSE Append(order, c)

\* insert: one channel more, hence at most one to evict.  The number of the
\* evicted one may be used afresh.
Insert(c, cancelled) ==
    LET evicted == IF Len(Ordered(c)) > MaxTombstones THEN {Head(Ordered(c))} ELSE {}
    IN  /\ order' = IF evicted = {} THEN Ordered(c) ELSE Tail(Ordered(c))
        /\ tombstones' = [d \in (Tombstoned \cup {c}) \ evicted |->
                             IF d = c THEN cancelled ELSE tombstones[d]]
        /\ sent' = [d \in Channels |-> IF d \in evicted THEN <<>> ELSE sent[d]]
        /\ bare_eos' = [d \in Channels |-> IF d \in evicted THEN {} ELSE bare_eos[d]]
        /\ delivered' = [d \in Channels |-> IF d \in evicted THEN <<>> ELSE delivered[d]]

\* tombstone or tombstone_cancelled, after the lock on the channels is released.
Tombstone(t) ==
    /\ At(t, "tombstone") \/ At(t, "tombstone_cancelled")
    /\ Insert(chan[t], At(t, "tombstone_cancelled"))
    /\ Goto(t, "idle")
    /\ UNCHANGED <<channels, locals>>

\* A tombstoned channel is not tracked any more, whoever tracked it again.
Purge(t) ==
    /\ At(t, "purge")
    /\ channels' = Without(chan[t])
    /\ Goto(t, "idle")
    /\ UNCHANGED <<tombstones, order, locals, history>>

-----------------------------------------------------------------------------
(* send_frame *)

\* Only frames with the DATA flag are looked at.
SendCheck(t, c, f) ==
    /\ At(t, "idle")
    /\ Holding(t, c, f)
    /\ \/ /\ f.data
          /\ Len(sent[c]) < MaxFrames
          /\ Goto(t, IF c \in Tombstoned THEN "purge" ELSE "admit_send")
          /\ UNCHANGED bare_eos
       \/ /\ ~f.data
          /\ bare_eos' = [bare_eos EXCEPT ![c] = @ \cup {Len(sent[c])}]
          /\ UNCHANGED pc
    /\ UNCHANGED <<channels, tombstones, order, sent, delivered>>

\* An entry that has become Closed leaves the map, and is then tombstoned.
Store(t, c, st) ==
    /\ channels' = IF st.lifecycle = "Closed" THEN Without(c) ELSE With(c, st)
    /\ Goto(t, IF st.lifecycle = "Closed" THEN "tombstone" ELSE "idle")

\* Mutant of Accepts: the credits are not compared with the length.
AcceptsUnpaid(t) == ~Full(chan[t]) /\ CanSend(Entry(chan[t]))

Accepts(t) == LET st == Entry(chan[t])
              IN  ~Full(chan[t]) /\ CanSend(st) /\ shape[t].payload_len <= st.send_credits

SendAdmit(t) ==
    LET c == chan[t]  f == shape[t]  st == Entry(c)
    IN  /\ At(t, "admit_send")
        /\ Accepts(t)
        /\ Store(t, c, [lifecycle |-> IF f.eos THEN LocalEos(st.lifecycle) ELSE st.lifecycle,
                        send_credits |-> st.send_credits - f.payload_len])
        /\ sent' = [sent EXCEPT ![c] = Append(@, Kind(f))]
        /\ UNCHANGED <<tombstones, order, locals, bare_eos, delivered>>

\* Dropped, or ResourceExhausted; for want of credits the entry stays made.
SendRefuse(t) ==
    /\ At(t, "admit_send")
    /\ ~Accepts(t)
    /\ channels' = IF Full(chan[t]) THEN channels ELSE With(chan[t], Entry(chan[t]))
    /\ Goto(t, "idle")
    /\ UNCHANGED <<tombstones, order, locals, history>>

-----------------------------------------------------------------------------
(* recv_frame, of whatever the transport yields *)

\* Mutant of RecvCheck: late frames are not looked for.
RecvCheckNoTombstones(t, c, f) ==
    /\ At(t, "idle")
    /\ Len(delivered[c]) < MaxFrames
    /\ Holding(t, c, f)
    /\ Goto(t, "admit_recv")
    /\ UNCHANGED <<channels, tombstones, order, history>>

RecvCheck(t, c, f) ==
    /\ At(t, "idle")
    /\ Len(delivered[c]) < MaxFrames
    /\ Holding(t, c, f)
    /\ Goto(t, IF c \in Tombstoned THEN "purge" ELSE "admit_recv")
    /\ UNCHANGED <<channels, tombstones, order, history>>

RecvAdmit(t) ==
    LET c == chan[t]  f == shape[t]  st == Entry(c)
    IN  /\ At(t, "admit_recv")
        /\ ~Full(c) /\ CanReceive(st)
        /\ Store(t, c, IF f.eos THEN [st EXCEPT !.lifecycle = RemoteEos(@)] ELSE st)
        /\ delivered' = [delivered EXCEPT ![c] = Append(@, Kind(f))]
        /\ UNCHANGED <<tombstones, order, locals, sent, bare_eos>>

\* Dropped; a channel for which there is no room is tombstoned at once.
RecvDrop(t) ==
    /\ At(t, "admit_recv")
    /\ Full(chan[t]) \/ ~CanReceive(Entry(chan[t]))
    /\ Goto(t, IF Full(chan[t]) THEN "tombstone" ELSE "idle")
    /\ UNCHANGED <<channels, tombstones, order, locals, history>>

-----------------------------------------------------------------------------
(* Control frames, and the same calls made by the application *)

CancelChannel(t, c) ==
    /\ At(t, "idle")
    /\ channels' = Without(c)
    /\ Holding(t, c, EosOnly)
    /\ Goto(t, "tombstone_cancelled")
    /\ UNCHANGED <<tombstones, order, history>>

\* The tombstones are not asked, nor is the number of channels limited here.
GrantCredits(t, c, bytes) ==
    /\ At(t, "idle")
    /\ channels' = With(c, [Entry(c) EXCEPT
                        !.send_credits = IF @ + bytes > MaxCredits THEN MaxCredits ELSE @ + bytes])
    /\ UNCHANGED <<tombstones, order, pc, locals, history>>

\* is_cancelled, in one step: nothing else runs between its two locks here.
IsCancelled(c) == c \notin Tracked /\ c \in Tombstoned /\ tombstones[c]

-----------------------------------------------------------------------------
Next ==
    \E t \in Tasks :
        \/ Tombstone(t) \/ Purge(t) \/ SendAdmit(t) \/ SendRefuse(t)
        \/ RecvAdmit(t) \/ RecvDrop(t)
        \/ \E c \in Channels :
              \/ \E f \in Shapes : SendCheck(t, c, f)
              \/ \E f \in Shapes \cup {EosOnly} : RecvCheck(t, c, f)
              \/ CancelChannel(t, c)
              \/ \E bytes \in Grants : GrantCredits(t, c, bytes)

Spec == Init /\ [][Next]_vars

-----------------------------------------------------------------------------
(* Properties *)

LiveStates == [lifecycle : Lifecycles \ {"Closed"}, send_credits : 0 .. MaxCredits]

\* Every variable stays within its type: credits do not run below zero, and no
\* Closed channel is tracked.
TypeOK ==
    /\ Tracked \subseteq Channels
    /\ channels \in [Tracked -> LiveStates]
    /\ Tombstoned \subseteq Channels
    /\ tombstones \in [Tombstoned -> BOOLEAN]
    /\ order \in Seq(Channels)
    /\ pc \in [Tasks -> {"idle", "purge", "admit_send", "admit_recv", "tombstone",
                         "tombstone_cancelled"}]
    /\ chan \in [Tasks -> Channels]
    /\ shape \in [Tasks -> Shapes \cup {EosOnly}]
    /\ sent \in [Channels -> Seq({"data", "eos"})]
    /\ bare_eos \in [Channels -> SUBSET Nat]
    /\ delivered \in [Channels -> Seq({"data", "eos"})]

\* The queue of tombstones and their map name the same channels, each once, and
\* no more than the limit, whoever inserts what again.
TombstonesExact ==
    /\ {order[i] : i \in DOMAIN order} = Tombstoned
    /\ Len(order) = Cardinality(Tombstoned)
    /\ Len(order) <= MaxTombstones

\* Used by one task, the session keeps the promise of HalfClose: no DATA frame
\* passes on a channel after its EOS in that direction, nor after it ended.  Of
\* what is sent, frames without DATA are not counted: see NoDataAfterEos.
Promise == INSTANCE HalfClose
               WITH MaxRemembered <- MaxTombstones, ended <- Tombstoned
KeepsHalfClose == Promise!Spec

\* "After sending EOS, the sender MUST NOT send more DATA frames on that channel."
NoDataAfterEos ==
    \A c \in Channels : \A j \in DOMAIN sent[c] :
        sent[c][j] = "data" => /\ \A i \in 1 .. j : sent[c][i] # "eos"
                               /\ \A n \in bare_eos[c] : n >= j

\* "Bounded set of channels that are fully closed/cancelled (drop late frames,
\* prevent re-open)": a channel with the tombstone of a cancelled one is cancelled.
CancelledIsSeen == \A c \in Tombstoned : tombstones[c] => IsCancelled(c)
====
