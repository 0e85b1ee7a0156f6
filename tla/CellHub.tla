---- MODULE CellHub ----
(***************************************************************************)
(* A host and the cells it starts on one hub: the peer table               *)
(* (transport/shm/hub_session.rs), the ticket that carries the doorbell to *)
(* the child process (hub_host.rs), the start of a cell up to its ready    *)
(* signal (rapace-cell/src/lib.rs), the Hello handshake between the two    *)
(* sessions (rapace-core/src/session.rs) and how either side learns that   *)
(* the other has died (shm-primitives/src/doorbell.rs,                     *)
(* ur-taking-me-with-you/src/linux.rs).                                    *)
(*                                                                         *)
(* A launch is one attempt of the application to start a cell: add_peer,   *)
(* then the child process, then the drop of the ticket.  The process of    *)
(* launch l is named l too.  A doorbell is a pair of sockets; each end is  *)
(* the set of processes that hold a descriptor of it, because socketpair   *)
(* is called without SOCK_CLOEXEC and a child inherits every end that is   *)
(* open when it is forked.  A signal fails once nobody holds the other     *)
(* end.  The rings keep what was sent whether or not the receiver lives.   *)
(***************************************************************************)
EXTENDS Integers, Sequences, FiniteSets

CONSTANTS
    MaxPeers,      \* HubConfig::max_peers
    IdSpace,       \* the values of peer_id_counter, 2^16 in the code
    Launches,      \* bound on the attempts to start a cell: 1 .. Launches
    Calls,         \* bound on the host's calls to one cell before it dies
    Incompatible,  \* the launches whose cell refuses the Hello of the host
    Serial,        \* does the application drop a ticket before its next launch?
    HostMayDie

Ids == 0 .. MaxPeers - 1
Cells == 1 .. Launches
Host == 0
Processes == Cells \cup {Host}
NoId == -1

ASSUME CellHubAssumption ==
    /\ MaxPeers \in Nat \ {0} /\ IdSpace \in Nat \ {0} /\ MaxPeers <= IdSpace
    /\ Launches \in Nat /\ Calls \in Nat
    /\ Incompatible \subseteq Cells
    /\ Serial \in BOOLEAN /\ HostMayDie \in BOOLEAN

VARIABLES
    hostUp,
    peer_id_counter, active_peers,
    flags,       \* [Ids -> SUBSET {"RESERVED", "ACTIVE", "DEAD"}]
    launch,      \* how far the host is with each launch
    id,          \* the peer id of a launch
    ticket,      \* does the host still hold the ticket?
    peerEnd, hostEnd, \* who holds each end of the doorbell of a launch
    transport,   \* the host's end of the connection: "none", "open", "closed"
    told,        \* has on_death been called?
    hostRun,     \* the host's RpcSession::run: "none", "greet", "hello", "running", "ended"
    cell,        \* the step the main task of the cell is at
    dispatcher,  \* has the cell set its dispatcher?
    cellRun,     \* the cell's RpcSession::run, as hostRun, or "failed"
    toCell, toHost, \* the frames on the two rings
    acked,       \* has the host answered ready() of this cell?
    unserved,    \* a call reached a cell without a dispatcher
    calls        \* calls made, by cell

table == <<peer_id_counter, active_peers, flags>>
ends == <<peerEnd, hostEnd>>
hostSide == <<launch, id, ticket, transport, told, hostRun, acked, calls>>
cellSide == <<cell, dispatcher, cellRun, unserved>>
wires == <<toCell, toHost>>
vars == <<hostUp, table, ends, hostSide, cellSide, wires>>

HostPhases == {"none", "claimed", "added", "spawned", "rejected", "removing", "removed"}
\* Between these the process of a cell exists.
CellSteps == {"forked", "armed", "opened", "registering", "registered", "dispatching",
              "ready", "asked", "joining"}
Frames == {"hello", "ready", "ack", "call"}

Alive(l) == cell[l] \in CellSteps
Added(l) == launch[l] \in {"added", "spawned", "removing"}
\* RpcSession::wait_ready: handshake_complete was sent.
Complete(run) == run \in {"running", "ended"}

TypeOK ==
    /\ hostUp \in BOOLEAN
    /\ peer_id_counter \in 0 .. IdSpace - 1
    /\ active_peers \in 0 .. MaxPeers
    /\ flags \in [Ids -> SUBSET {"RESERVED", "ACTIVE", "DEAD"}]
    /\ launch \in [Cells -> HostPhases]
    /\ id \in [Cells -> Ids \cup {NoId}]
    /\ ticket \in [Cells -> BOOLEAN]
    /\ peerEnd \in [Cells -> SUBSET Processes]
    /\ hostEnd \in [Cells -> SUBSET Processes]
    /\ transport \in [Cells -> {"none", "open", "closed"}]
    /\ told \in [Cells -> BOOLEAN]
    /\ hostRun \in [Cells -> {"none", "greet", "hello", "running", "ended"}]
    /\ cell \in [Cells -> CellSteps \cup {"none", "exited"}]
    /\ dispatcher \in [Cells -> BOOLEAN]
    /\ cellRun \in [Cells -> {"none", "hello", "reply", "running", "ended", "failed"}]
    /\ toCell \in [Cells -> Seq(Frames)]
    /\ toHost \in [Cells -> Seq(Frames)]
    /\ acked \in [Cells -> BOOLEAN]
    /\ unserved \in [Cells -> BOOLEAN]
    /\ calls \in [Cells -> 0 .. Calls]

Init ==
    /\ hostUp = TRUE
    /\ peer_id_counter = 0
    /\ active_peers = 0
    /\ flags = [i \in Ids |-> {}]
    /\ launch = [l \in Cells |-> "none"]
    /\ id = [l \in Cells |-> NoId]
    /\ ticket = [l \in Cells |-> FALSE]
    /\ peerEnd = [l \in Cells |-> {}]
    /\ hostEnd = [l \in Cells |-> {}]
    /\ transport = [l \in Cells |-> "none"]
    /\ told = [l \in Cells |-> FALSE]
    /\ hostRun = [l \in Cells |-> "none"]
    /\ cell = [l \in Cells |-> "none"]
    /\ dispatcher = [l \in Cells |-> FALSE]
    /\ cellRun = [l \in Cells |-> "none"]
    /\ toCell = [l \in Cells |-> <<>>]
    /\ toHost = [l \in Cells |-> <<>>]
    /\ acked = [l \in Cells |-> FALSE]
    /\ unserved = [l \in Cells |-> FALSE]
    /\ calls = [l \in Cells |-> 0]

(***************************************************************************)
(* The host: the peer table and the ticket.                                *)
(***************************************************************************)
\* Mutant: giving an id away does not advance the counter.
ClaimIdUncounted(l) ==
    /\ peer_id_counter < MaxPeers
    /\ launch' = [launch EXCEPT ![l] = "claimed"]
    /\ id' = [id EXCEPT ![l] = peer_id_counter]
    /\ flags' = [flags EXCEPT ![peer_id_counter] = {"RESERVED"}]
    /\ UNCHANGED peer_id_counter

\* The id is taken whether or not there is room in the table for it.
ClaimId(l) ==
    /\ peer_id_counter' = (peer_id_counter + 1) % IdSpace
    /\ \/ /\ peer_id_counter >= MaxPeers
          /\ launch' = [launch EXCEPT ![l] = "rejected"]
          /\ UNCHANGED <<id, flags>>
       \/ /\ peer_id_counter < MaxPeers
          /\ launch' = [launch EXCEPT ![l] = "claimed"]
          /\ id' = [id EXCEPT ![l] = peer_id_counter]
          /\ flags' = [flags EXCEPT ![peer_id_counter] = {"RESERVED"}]

AddPeerClaim(l) ==
    /\ hostUp /\ launch[l] = "none"
    /\ \A k \in Cells : k < l => launch[k] # "none"
    /\ Serial => \A k \in Cells : launch[k] # "claimed" /\ ~ticket[k]
    /\ ClaimId(l)
    /\ UNCHANGED <<hostUp, active_peers, ends, ticket, transport, told, hostRun, acked,
                   calls, cellSide, wires>>

\* Mutant: the peer is counted although its doorbell could not be made.
AddPeerNoDoorbellCounted(l) ==
    /\ hostUp /\ launch[l] = "claimed"
    /\ launch' = [launch EXCEPT ![l] = "rejected"]
    /\ active_peers' = active_peers + 1
    /\ UNCHANGED <<hostUp, peer_id_counter, flags, ends, id, ticket, transport, told,
                   hostRun, acked, calls, cellSide, wires>>

\* The doorbell cannot be made: add_peer returns the error and leaves the entry
\* RESERVED, its id spent.
AddPeerNoDoorbell(l) ==
    /\ hostUp /\ launch[l] = "claimed"
    /\ launch' = [launch EXCEPT ![l] = "rejected"]
    /\ UNCHANGED <<hostUp, table, ends, id, ticket, transport, told, hostRun, acked, calls,
                   cellSide, wires>>

AddPeerTransport(l) ==
    /\ hostUp /\ launch[l] = "claimed"
    /\ launch' = [launch EXCEPT ![l] = "added"]
    /\ active_peers' = active_peers + 1
    /\ ticket' = [ticket EXCEPT ![l] = TRUE]
    /\ peerEnd' = [peerEnd EXCEPT ![l] = {Host}]
    /\ hostEnd' = [hostEnd EXCEPT ![l] = {Host}]
    /\ transport' = [transport EXCEPT ![l] = "open"]
    /\ hostRun' = [hostRun EXCEPT ![l] = "greet"]
    /\ UNCHANGED <<hostUp, peer_id_counter, flags, id, told, acked, calls, cellSide, wires>>

Inherit(end, l) ==
    [k \in Cells |-> IF Host \in end[k] THEN end[k] \cup {l} ELSE end[k]]

\* The child inherits every end of every doorbell that the host has open.
Spawn(l) ==
    /\ hostUp /\ launch[l] = "added"
    /\ launch' = [launch EXCEPT ![l] = "spawned"]
    /\ cell' = [cell EXCEPT ![l] = "forked"]
    /\ peerEnd' = Inherit(peerEnd, l)
    /\ hostEnd' = Inherit(hostEnd, l)
    /\ UNCHANGED <<hostUp, table, id, ticket, transport, told, hostRun, acked, calls,
                   dispatcher, cellRun, unserved, wires>>

\* Mutant: the descriptor is left open when the ticket is dropped.
DropTicketLeaksFd(l) ==
    /\ hostUp /\ ticket[l]
    /\ ticket' = [ticket EXCEPT ![l] = FALSE]
    /\ UNCHANGED <<hostUp, table, ends, launch, id, transport, told, hostRun, acked,
                   calls, cellSide, wires>>

\* The application need not wait for the child before it drops the ticket.
DropTicket(l) ==
    /\ hostUp /\ ticket[l]
    /\ ticket' = [ticket EXCEPT ![l] = FALSE]
    /\ peerEnd' = [peerEnd EXCEPT ![l] = @ \ {Host}]
    /\ UNCHANGED <<hostUp, table, hostEnd, launch, id, transport, told, hostRun, acked,
                   calls, cellSide, wires>>

\* remove_peer, called once the death of the peer was reported: mark_dead sets
\* one flag and then clears the other.
RemovePeerMark(l) ==
    /\ hostUp /\ told[l] /\ launch[l] \in {"added", "spawned"}
    /\ launch' = [launch EXCEPT ![l] = "removing"]
    /\ flags' = [flags EXCEPT ![id[l]] = @ \cup {"DEAD"}]
    /\ UNCHANGED <<hostUp, peer_id_counter, active_peers, ends, id, ticket, transport,
                   told, hostRun, acked, calls, cellSide, wires>>

RemovePeerCount(l) ==
    /\ hostUp /\ launch[l] = "removing"
    /\ launch' = [launch EXCEPT ![l] = "removed"]
    /\ flags' = [flags EXCEPT ![id[l]] = @ \ {"ACTIVE"}]
    /\ active_peers' = active_peers - 1
    /\ UNCHANGED <<hostUp, peer_id_counter, ends, id, ticket, transport, told, hostRun,
                   acked, calls, cellSide, wires>>

(***************************************************************************)
(* The host: the session with one cell.  Every send ends in a signal; the  *)
(* first that finds the other end closed calls on_death and closes the     *)
(* transport.  Nothing else tells the host that a cell is gone.            *)
(***************************************************************************)
\* Mutant: whoever still waits for its child to start is taken for dead.
HostSignalUnregistered(l) ==
    IF peerEnd[l] = {} \/ "RESERVED" \in flags[id[l]]
    THEN /\ told' = [told EXCEPT ![l] = TRUE]
         /\ transport' = [transport EXCEPT ![l] = "closed"]
    ELSE UNCHANGED <<told, transport>>

HostSignal(l) ==
    IF peerEnd[l] = {}
    THEN /\ told' = [told EXCEPT ![l] = TRUE]
         /\ transport' = [transport EXCEPT ![l] = "closed"]
    ELSE UNCHANGED <<told, transport>>

HostSend(l, frame) ==
    /\ hostUp /\ transport[l] = "open"
    /\ toCell' = [toCell EXCEPT ![l] = Append(@, frame)]
    /\ HostSignal(l)
    /\ UNCHANGED <<hostUp, table, ends, launch, id, ticket, cellSide>>

\* Mutant: the host waits for the Hello of the cell before it sends its own.
HostSendsHelloLast(l) ==
    /\ toHost[l] # <<>>
    /\ hostRun[l] = "greet"
    /\ HostSend(l, "hello")
    /\ hostRun' = [hostRun EXCEPT ![l] = IF peerEnd[l] = {} THEN "ended" ELSE "hello"]
    /\ UNCHANGED <<toHost, acked, calls>>

\* The host is the initiator: its Hello goes first.
HostSendsHello(l) ==
    /\ hostRun[l] = "greet"
    /\ HostSend(l, "hello")
    /\ hostRun' = [hostRun EXCEPT ![l] = IF peerEnd[l] = {} THEN "ended" ELSE "hello"]
    /\ UNCHANGED <<toHost, acked, calls>>

HostRecv(l, frame) ==
    /\ hostUp /\ toHost[l] # <<>> /\ Head(toHost[l]) = frame
    /\ toHost' = [toHost EXCEPT ![l] = Tail(@)]

HostRecvHello(l) ==
    /\ hostRun[l] = "hello" /\ HostRecv(l, "hello")
    /\ hostRun' = [hostRun EXCEPT ![l] = "running"]
    /\ UNCHANGED <<hostUp, table, ends, launch, id, ticket, transport, told, acked, calls,
                   cellSide, toCell>>

\* CellLifecycle::ready of the host.
HostRecvReady(l) ==
    /\ hostRun[l] = "running" /\ HostRecv(l, "ready")
    /\ HostSend(l, "ack")
    /\ acked' = [acked EXCEPT ![l] = TRUE]
    /\ UNCHANGED <<hostRun, calls>>

HostCalls(l) ==
    /\ Complete(hostRun[l])
    /\ calls[l] < Calls \/ peerEnd[l] = {}
    /\ calls' = [calls EXCEPT ![l] = IF @ < Calls THEN @ + 1 ELSE @]
    /\ HostSend(l, "call")
    /\ UNCHANGED <<hostRun, toHost, acked>>

HostRunEnds(l) ==
    /\ hostUp /\ hostRun[l] = "running" /\ transport[l] = "closed"
    /\ hostRun' = [hostRun EXCEPT ![l] = "ended"]
    /\ UNCHANGED <<hostUp, table, ends, launch, id, ticket, transport, told, acked, calls,
                   cellSide, wires>>

(***************************************************************************)
(* The cell: setup_cell, then the body of run, run_with_session and        *)
(* run_multi, which differ only in how they build the dispatcher.          *)
(***************************************************************************)
Step(l, from, to) ==
    /\ cell[l] = from
    /\ cell' = [cell EXCEPT ![l] = to]

Exit(end, dying) == [k \in Cells |-> end[k] \ dying]

\* die_with_parent: from here on the kernel kills the cell with its parent; a
\* parent that is already gone is not noticed.
Arm(l) ==
    /\ Step(l, "forked", "armed")
    /\ UNCHANGED <<hostUp, table, ends, hostSide, dispatcher, cellRun, unserved, wires>>

OpenHub(l) ==
    \/ /\ l \in peerEnd[l]
       /\ Step(l, "armed", "opened")
       /\ UNCHANGED <<hostUp, table, ends, hostSide, dispatcher, cellRun, unserved, wires>>
    \/ /\ l \notin peerEnd[l]   \* validate_doorbell_fd fails
       /\ Step(l, "armed", "exited")
       /\ peerEnd' = Exit(peerEnd, {l})
       /\ hostEnd' = Exit(hostEnd, {l})
       /\ UNCHANGED <<hostUp, table, hostSide, dispatcher, cellRun, unserved, wires>>

RegisterActive(l) ==
    /\ Step(l, "opened", "registering")
    /\ flags' = [flags EXCEPT ![id[l]] = @ \cup {"ACTIVE"}]
    /\ UNCHANGED <<hostUp, peer_id_counter, active_peers, ends, hostSide, dispatcher,
                   cellRun, unserved, wires>>

RegisterUnreserve(l) ==
    /\ Step(l, "registering", "registered")
    /\ flags' = [flags EXCEPT ![id[l]] = @ \ {"RESERVED"}]
    /\ UNCHANGED <<hostUp, peer_id_counter, active_peers, ends, hostSide, dispatcher,
                   cellRun, unserved, wires>>

\* Mutant: the dispatcher is set when the ready signal is on its way.
SetDispatcherLate(l) ==
    /\ \/ Step(l, "registered", "dispatching") /\ UNCHANGED dispatcher
       \/ /\ cell[l] = "asked" /\ ~dispatcher[l]
          /\ dispatcher' = [dispatcher EXCEPT ![l] = TRUE]
          /\ UNCHANGED cell
    /\ UNCHANGED <<hostUp, table, ends, hostSide, cellRun, unserved, wires>>

SetDispatcher(l) ==
    /\ Step(l, "registered", "dispatching")
    /\ dispatcher' = [dispatcher EXCEPT ![l] = TRUE]
    /\ UNCHANGED <<hostUp, table, ends, hostSide, cellRun, unserved, wires>>

SpawnRun(l) ==
    /\ Step(l, "dispatching", "ready")
    /\ cellRun' = [cellRun EXCEPT ![l] = "hello"]
    /\ UNCHANGED <<hostUp, table, ends, hostSide, dispatcher, unserved, wires>>

CellRecv(l, frame) ==
    /\ Alive(l) /\ toCell[l] # <<>> /\ Head(toCell[l]) = frame
    /\ toCell' = [toCell EXCEPT ![l] = Tail(@)]

\* The cell is the acceptor.  A Hello it refuses ends run, and nothing ever
\* tells those who wait for the handshake.
CellRecvHello(l) ==
    /\ cellRun[l] = "hello" /\ CellRecv(l, "hello")
    /\ cellRun' = [cellRun EXCEPT ![l] = IF l \in Incompatible THEN "failed" ELSE "reply"]
    /\ UNCHANGED <<hostUp, table, ends, hostSide, cell, dispatcher, unserved, toHost>>

\* The signal after the send fails only once nobody holds the host's end, and
\* the cell itself inherited it.
CellSendsHello(l) ==
    /\ Alive(l) /\ cellRun[l] = "reply"
    /\ toHost' = [toHost EXCEPT ![l] = Append(@, "hello")]
    /\ cellRun' = [cellRun EXCEPT ![l] = IF hostEnd[l] = {} THEN "failed" ELSE "running"]
    /\ UNCHANGED <<hostUp, table, ends, hostSide, cell, dispatcher, unserved, toCell>>

\* ready(), which first waits for the handshake.
AskReady(l) ==
    /\ cellRun[l] = "running"
    /\ Step(l, "ready", "asked")
    /\ toHost' = [toHost EXCEPT ![l] = Append(@, "ready")]
    /\ UNCHANGED <<hostUp, table, ends, hostSide, dispatcher, cellRun, unserved, toCell>>

\* ready() failed until ready_total_timeout had passed; the result is not used.
GiveUpReady(l) ==
    /\ cell[l] = "asked" \/ (cell[l] = "ready" /\ Complete(cellRun[l]))
    /\ cell' = [cell EXCEPT ![l] = "joining"]
    /\ UNCHANGED <<hostUp, table, ends, hostSide, dispatcher, cellRun, unserved, wires>>

\* An answer that comes after the time-out finds nobody waiting.
CellRecvAck(l) ==
    /\ cellRun[l] = "running" /\ CellRecv(l, "ack")
    /\ cell' = [cell EXCEPT ![l] = IF @ = "asked" THEN "joining" ELSE @]
    /\ UNCHANGED <<hostUp, table, ends, hostSide, dispatcher, cellRun, unserved, toHost>>

CellRecvCall(l) ==
    /\ cellRun[l] = "running" /\ CellRecv(l, "call")
    /\ unserved' = [unserved EXCEPT ![l] = @ \/ ~dispatcher[l]]
    /\ UNCHANGED <<hostUp, table, ends, hostSide, cell, dispatcher, cellRun, toHost>>

\* A service of the cell closes the session it was given.
CellCloses(l) ==
    /\ Alive(l) /\ cellRun[l] = "running"
    /\ cellRun' = [cellRun EXCEPT ![l] = "ended"]
    /\ UNCHANGED <<hostUp, table, ends, hostSide, cell, dispatcher, unserved, wires>>

\* The process ends once run has; or it crashes.
CellExits(l) ==
    /\ Step(l, "joining", "exited")
    /\ cellRun[l] \in {"ended", "failed"}
    /\ peerEnd' = Exit(peerEnd, {l})
    /\ hostEnd' = Exit(hostEnd, {l})
    /\ UNCHANGED <<hostUp, table, hostSide, dispatcher, cellRun, unserved, wires>>

CellCrashes(l) ==
    /\ Alive(l)
    /\ cell' = [cell EXCEPT ![l] = "exited"]
    /\ peerEnd' = Exit(peerEnd, {l})
    /\ hostEnd' = Exit(hostEnd, {l})
    /\ UNCHANGED <<hostUp, table, hostSide, dispatcher, cellRun, unserved, wires>>

\* The kernel kills the cells that asked for it.
HostDies ==
    LET killed == {l \in Cells : Alive(l) /\ cell[l] # "forked"} IN
    /\ HostMayDie /\ hostUp
    /\ hostUp' = FALSE
    /\ cell' = [l \in Cells |-> IF l \in killed THEN "exited" ELSE cell[l]]
    /\ peerEnd' = Exit(peerEnd, killed \cup {Host})
    /\ hostEnd' = Exit(hostEnd, killed \cup {Host})
    /\ UNCHANGED <<table, hostSide, dispatcher, cellRun, unserved, wires>>

\* What the host and the cells do when left alone ...
Progress(l) ==
    \/ AddPeerTransport(l) \/ DropTicket(l) \/ RemovePeerMark(l) \/ RemovePeerCount(l)
    \/ HostSendsHello(l) \/ HostRecvHello(l) \/ HostRecvReady(l) \/ HostRunEnds(l)
    \/ Arm(l) \/ OpenHub(l) \/ RegisterActive(l) \/ RegisterUnreserve(l)
    \/ SetDispatcher(l) \/ SpawnRun(l) \/ CellRecvHello(l) \/ CellSendsHello(l)
    \/ AskReady(l) \/ GiveUpReady(l) \/ CellRecvAck(l) \/ CellRecvCall(l) \/ CellExits(l)

\* ... and what need not happen.
Chance(l) ==
    \/ AddPeerClaim(l) \/ AddPeerNoDoorbell(l) \/ Spawn(l)
    \/ CellCloses(l) \/ CellCrashes(l)

Next ==
    \/ \E l \in Cells : Progress(l) \/ Chance(l) \/ HostCalls(l)
    \/ HostDies

Spec == Init /\ [][Next]_vars

\* Threads and processes that can run do, and the host goes on using its cells.
FairSpec ==
    /\ Spec
    /\ \A l \in Cells : WF_vars(Progress(l)) /\ WF_vars(HostCalls(l))

(***************************************************************************)
(* Properties                                                              *)
(***************************************************************************)
\* Two launches never have the same peer id, whatever failed before: a dead
\* cell's id, ring pair and slots are never those of a living one (add_peer).
IdsNeverShared ==
    \A k, l \in Cells : k # l /\ id[k] # NoId => id[k] # id[l]

\* active_peers counts the peers that were handed out and not yet removed, also
\* after an add_peer that failed half-way (add_peer, remove_peer).
ActivePeersExact == active_peers = Cardinality({l \in Cells : Added(l)})

\* on_death is called only for a process that does not use the doorbell: it has
\* gone, or cannot get past the check of its descriptor (handle_signal_result).
CallbackOnlyWhenGone ==
    \A l \in Cells : told[l] => cell[l] \in {"none", "forked", "armed", "exited"}

\* A cell whose ready() the host has answered can serve: its entry is active
\* and no longer reserved, its run loop is past the handshake, and no call has
\* reached it before its dispatcher was set (setup_cell, run).
ReadyCellServes ==
    \A l \in Cells :
        /\ ~unserved[l]
        /\ acked[l] /\ Alive(l) =>
               /\ dispatcher[l] /\ Complete(cellRun[l])
               /\ flags[id[l]] = {"ACTIVE"}

\* A cell that waits to say it is ready does get through the handshake: the two
\* sides never wait for each other's Hello (perform_handshake).
HandshakeEnds ==
    \A l \in Cells : cell[l] = "ready" /\ l \notin Incompatible ~>
        cell[l] \in {"joining", "exited"} \/ ~hostUp

\* The death of a cell that had answered the Hello of the host is reported, as
\* long as the host goes on calling it and launches cells one at a time.
DeathIsReported ==
    \A l \in Cells : hostRun[l] = "running" /\ cell[l] = "exited" ~> told[l] \/ ~hostUp

\* The death of any cell is reported (docs/content/guide/cell-lifecycle.md:15).
EveryDeathIsReported ==
    \A l \in Cells : cell[l] = "exited" ~> told[l] \/ ~hostUp

\* No cell outlives its host (rapace-cell/src/lib.rs:442).
CellsDieWithHost == \A l \in Cells : ~hostUp ~> ~Alive(l)
====
