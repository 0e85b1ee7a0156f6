---- MODULE ChannelSessionProofs ----
(***************************************************************************)
(* For every number of tasks and of channels, and every limit: the types   *)
(* of a channel session, and that its tombstones stay exact.               *)
(***************************************************************************)
EXTENDS ChannelSession, TLAPS, SequenceTheorems, FiniteSetTheorems, Functions

USE ChannelAssumption

\* The queue of tombstones lists each of them once.
QueueInv ==
    /\ \A i \in 1 .. Len(order) : order[i] \in Tombstoned
    /\ \A c \in Tombstoned : \E i \in 1 .. Len(order) : order[i] = c
    /\ \A i, j \in 1 .. Len(order) : order[i] = order[j] => i = j
    /\ Len(order) <= MaxTombstones

SessionInv == TypeOK /\ QueueInv

\* A list without repetitions is as long as the set of its elements is large.
LEMMA QueueIsExact == SessionInv => TombstonesExact
<1> SUFFICES ASSUME SessionInv PROVE TombstonesExact
  OBVIOUS
<1> USE DEF SessionInv, QueueInv
<1>1. order \in Seq(Channels) /\ Len(order) \in Nat /\ DOMAIN order = 1 .. Len(order)
      /\ order \in [1 .. Len(order) -> Channels]
  BY LenProperties DEF TypeOK
<1>2. {order[i] : i \in DOMAIN order} = Tombstoned
  BY <1>1
<1>3. order \in Bijection(1 .. Len(order), Tombstoned)
  BY <1>1 DEF Bijection, Injection, Surjection, IsInjective
<1>4. Cardinality(Tombstoned) = Len(order)
  BY <1>1, <1>3, FS_CountingElements DEF ExistsBijection
<1> QED
  BY <1>2, <1>4 DEF TombstonesExact

-----------------------------------------------------------------------------
(* Insertion of a tombstone *)

\* With the new one at its end the queue is one longer than the limit at most.
LEMMA OrderedExtends ==
  ASSUME SessionInv, NEW c \in Channels
  PROVE  LET q == Ordered(c)
         IN  /\ q \in Seq(Channels) /\ q # <<>> /\ Len(q) <= MaxTombstones + 1
             /\ \A i \in 1 .. Len(q) : q[i] \in Tombstoned \cup {c}
             /\ \A d \in Tombstoned \cup {c} : \E i \in 1 .. Len(q) : q[i] = d
             /\ \A i, j \in 1 .. Len(q) : q[i] = q[j] => i = j
<1> USE DEF SessionInv, QueueInv
<1>1. order \in Seq(Channels) /\ Len(order) \in Nat
  BY LenProperties DEF TypeOK
<1>2. CASE c \in Tombstoned
  <2>1. Len(order) # 0
    BY <1>1, <1>2
  <2> QED
    BY <1>1, <1>2, <2>1, EmptySeq DEF Ordered
<1>3. CASE c \notin Tombstoned
  <2>1. /\ Append(order, c) \in Seq(Channels) /\ Append(order, c) # <<>>
        /\ Len(Append(order, c)) = Len(order) + 1
        /\ \A i \in 1 .. Len(order) : Append(order, c)[i] = order[i]
        /\ Append(order, c)[Len(order) + 1] = c
    BY <1>1, AppendProperties
  <2>2. \A i \in 1 .. Len(order) + 1 : i \in 1 .. Len(order) \/ i = Len(order) + 1
    BY <1>1
  <2> QED
    BY <1>1, <1>3, <2>1, <2>2 DEF Ordered
<1> QED
  BY <1>2, <1>3

\* insert keeps map and queue in step, whichever channel it evicts.
LEMMA InsertKeepsQueue ==
  ASSUME SessionInv, NEW c \in Channels, NEW cancelled \in BOOLEAN, Insert(c, cancelled)
  PROVE  /\ QueueInv'
         /\ order' \in Seq(Channels)
         /\ Tombstoned' \subseteq Channels
         /\ tombstones' \in [Tombstoned' -> BOOLEAN]
         /\ sent' \in [Channels -> Seq({"data", "eos"})]
         /\ bare_eos' \in [Channels -> SUBSET Nat]
         /\ delivered' \in [Channels -> Seq({"data", "eos"})]
<1> DEFINE q == Ordered(c)
           evicted == IF Len(q) > MaxTombstones THEN {Head(q)} ELSE {}
<1>1. /\ q \in Seq(Channels) /\ q # <<>> /\ Len(q) <= MaxTombstones + 1
      /\ \A i \in 1 .. Len(q) : q[i] \in Tombstoned \cup {c}
      /\ \A d \in Tombstoned \cup {c} : \E i \in 1 .. Len(q) : q[i] = d
      /\ \A i, j \in 1 .. Len(q) : q[i] = q[j] => i = j
  BY OrderedExtends
<1>2. /\ order' = IF evicted = {} THEN q ELSE Tail(q)
      /\ tombstones' = [d \in (Tombstoned \cup {c}) \ evicted |->
                            IF d = c THEN cancelled ELSE tombstones[d]]
      /\ sent' = [d \in Channels |-> IF d \in evicted THEN <<>> ELSE sent[d]]
      /\ bare_eos' = [d \in Channels |-> IF d \in evicted THEN {} ELSE bare_eos[d]]
      /\ delivered' = [d \in Channels |-> IF d \in evicted THEN <<>> ELSE delivered[d]]
  BY DEF Insert
<1>3. Tombstoned' = (Tombstoned \cup {c}) \ evicted
  BY <1>2 DEF Tombstoned
<1> HIDE DEF q
<1>4. Len(q) \in Nat \ {0}
  BY <1>1, EmptySeq
<1>5. QueueInv' /\ order' \in Seq(Channels)
  <2>1. CASE evicted = {}
    <3>1. ~(Len(q) > MaxTombstones) /\ MaxTombstones \in Nat
      BY <2>1
    <3>2. Len(order') <= MaxTombstones /\ order' = q /\ Tombstoned' = Tombstoned \cup {c}
      BY <1>2, <1>3, <1>4, <2>1, <3>1
    <3> QED
      BY <1>1, <3>2 DEF QueueInv
  <2>2. CASE evicted # {}
    <3>1. Len(q) = MaxTombstones + 1 /\ evicted = {q[1]}
      BY <1>1, <1>4, <2>2
    <3>2. /\ order' \in Seq(Channels) /\ Len(order') = Len(q) - 1
          /\ \A i \in 1 .. Len(order') : order'[i] = q[i + 1]
      BY <1>1, <1>2, <2>2, HeadTailProperties
    <3>3. \A i \in 1 .. Len(order') : order'[i] \in Tombstoned' /\ i + 1 \in 1 .. Len(q)
      BY <1>1, <1>3, <1>4, <3>1, <3>2
    <3>4. \A d \in Tombstoned' : \E i \in 1 .. Len(order') : order'[i] = d
      <4> SUFFICES ASSUME NEW d \in Tombstoned' PROVE \E i \in 1 .. Len(order') : order'[i] = d
        OBVIOUS
      <4>1. PICK k \in 1 .. Len(q) : q[k] = d
        BY <1>1, <1>3
      <4>2. k # 1
        BY <1>3, <3>1, <4>1
      <4>3. k - 1 \in 1 .. Len(order') /\ order'[k - 1] = d
        BY <1>4, <3>2, <4>1, <4>2
      <4> QED
        BY <4>3
    <3>5. \A i, j \in 1 .. Len(order') : order'[i] = order'[j] => i = j
      BY <1>1, <3>2, <3>3
    <3> QED
      BY <3>1, <3>2, <3>3, <3>4, <3>5 DEF QueueInv
  <2> QED
    BY <2>1, <2>2
<1>6. Tombstoned' \subseteq Channels /\ tombstones' \in [Tombstoned' -> BOOLEAN]
  BY <1>2, <1>3 DEF SessionInv, TypeOK
<1>7. /\ sent' \in [Channels -> Seq({"data", "eos"})]
      /\ bare_eos' \in [Channels -> SUBSET Nat]
      /\ delivered' \in [Channels -> Seq({"data", "eos"})]
  BY <1>2, EmptySeq DEF SessionInv, TypeOK
<1> QED
  BY <1>5, <1>6, <1>7

-----------------------------------------------------------------------------
(* The steps of the session *)

\* A session without channels and tombstones satisfies the invariant.
LEMMA InitSessionInv == Init => SessionInv
<1> SUFFICES ASSUME Init PROVE SessionInv
  OBVIOUS
<1> USE DEF Init
<1>1. Tracked = {} /\ Tombstoned = {} /\ order = <<>>
  BY DEF Tracked, Tombstoned
<1>2. TypeOK
  BY <1>1, EmptySeq DEF TypeOK
<1>3. QueueInv
  <2>1. Len(order) = 0 /\ 1 .. Len(order) = {}
    BY <1>1
  <2> QED
    BY <1>1, <2>1 DEF QueueInv
<1> QED
  BY <1>2, <1>3 DEF SessionInv

\* An entry before it is stored: it may just have become Closed.
States == [lifecycle : Lifecycles, send_credits : 0 .. MaxCredits]

\* What entry().or_default() yields is a well-typed state of an open channel.
LEMMA EntryType ==
  ASSUME TypeOK, NEW c \in Channels
  PROVE  Entry(c) \in LiveStates
<1>1. Fresh \in LiveStates
  BY DEF Fresh, Lifecycles, LiveStates
<1> QED
  BY <1>1 DEF TypeOK, Entry

\* An entry that is stored is never Closed.
LEMMA StoreType ==
  ASSUME TypeOK, NEW t \in Tasks, NEW c \in Channels, NEW st \in States,
         Store(t, c, st)
  PROVE  /\ Tracked' \subseteq Channels
         /\ channels' \in [Tracked' -> LiveStates]
         /\ pc' = [pc EXCEPT ![t] = IF st.lifecycle = "Closed" THEN "tombstone" ELSE "idle"]
<1>1. CASE st.lifecycle = "Closed"
  BY <1>1 DEF Store, Goto, Without, Tracked, TypeOK
<1>2. CASE st.lifecycle # "Closed"
  BY <1>2 DEF Store, Goto, With, Tracked, TypeOK, States, LiveStates
<1> QED
  BY <1>1, <1>2

\* Every step keeps the types; those that touch the queue keep it exact.
LEMMA NextSessionInv == SessionInv /\ [Next]_vars => SessionInv'
<1> SUFFICES ASSUME SessionInv, [Next]_vars PROVE SessionInv'
  OBVIOUS
<1>0. TypeOK /\ QueueInv
  BY DEF SessionInv
<1>q. ASSUME UNCHANGED <<tombstones, order>> PROVE QueueInv'
  BY <1>0, <1>q DEF QueueInv, Tombstoned
<1>1. ASSUME NEW t \in Tasks, Tombstone(t) PROVE SessionInv'
  <2>1. chan[t] \in Channels /\ At(t, "tombstone_cancelled") \in BOOLEAN
    BY <1>0 DEF TypeOK, At
  <2>2. Insert(chan[t], At(t, "tombstone_cancelled"))
    BY <1>1 DEF Tombstone
  <2>3. /\ QueueInv'
        /\ order' \in Seq(Channels)
        /\ Tombstoned' \subseteq Channels
        /\ tombstones' \in [Tombstoned' -> BOOLEAN]
        /\ sent' \in [Channels -> Seq({"data", "eos"})]
        /\ bare_eos' \in [Channels -> SUBSET Nat]
        /\ delivered' \in [Channels -> Seq({"data", "eos"})]
    BY <2>1, <2>2, InsertKeepsQueue
  <2> QED
    BY <1>0, <1>1, <2>3 DEF Tombstone, Goto, locals, SessionInv, TypeOK, Tracked
<1>2. ASSUME NEW t \in Tasks, Purge(t) PROVE SessionInv'
  BY <1>0, <1>2, <1>q DEF Purge, Goto, Without, locals, history, SessionInv, TypeOK, Tracked,
                           Tombstoned
<1>3. ASSUME NEW t \in Tasks, SendAdmit(t) PROVE SessionInv'
  <2> DEFINE c == chan[t]
             st == Entry(c)
             new == [lifecycle |-> IF shape[t].eos THEN LocalEos(st.lifecycle) ELSE st.lifecycle,
                     send_credits |-> st.send_credits - shape[t].payload_len]
  <2>1. c \in Channels /\ shape[t] \in Shapes \cup {EosOnly}
    BY <1>0 DEF TypeOK
  <2>2. shape[t].payload_len \in Nat
    BY <2>1 DEF EosOnly
  <2>3. st \in LiveStates
    BY <1>0, <2>1, EntryType
  <2>4. shape[t].payload_len <= st.send_credits /\ MaxCredits \in Nat
    BY <1>3 DEF SendAdmit, Accepts
  <2>5. new \in States
    BY <2>2, <2>3, <2>4 DEF LocalEos, Lifecycles, States, LiveStates
  <2>6. Store(t, c, new) /\ UNCHANGED <<tombstones, order, chan, shape, bare_eos, delivered>>
        /\ sent' = [sent EXCEPT ![c] = Append(@, Kind(shape[t]))]
    BY <1>3 DEF SendAdmit, locals
  <2> HIDE DEF new
  <2>7. /\ Tracked' \subseteq Channels
        /\ channels' \in [Tracked' -> LiveStates]
        /\ pc' = [pc EXCEPT ![t] = IF new.lifecycle = "Closed" THEN "tombstone" ELSE "idle"]
    BY <1>0, <2>1, <2>5, <2>6, StoreType
  <2>8. sent' \in [Channels -> Seq({"data", "eos"})]
    BY <1>0, <2>1, <2>6 DEF TypeOK, Kind
  <2> QED
    BY <1>0, <1>q, <2>6, <2>7, <2>8 DEF SessionInv, TypeOK, Tombstoned
<1>4. ASSUME NEW t \in Tasks, SendRefuse(t) PROVE SessionInv'
  <2>1. chan[t] \in Channels
    BY <1>0 DEF TypeOK
  <2>2. /\ Tracked' \subseteq Channels
        /\ channels' \in [Tracked' -> LiveStates]
    BY <1>0, <1>4, <2>1, EntryType DEF SendRefuse, With, Tracked, TypeOK
  <2> QED
    BY <1>0, <1>4, <1>q, <2>2 DEF SendRefuse, Goto, locals, history, SessionInv, TypeOK,
                                  Tombstoned
<1>5. ASSUME NEW t \in Tasks, RecvAdmit(t) PROVE SessionInv'
  <2> DEFINE c == chan[t]
             st == Entry(c)
             new == IF shape[t].eos THEN [st EXCEPT !.lifecycle = RemoteEos(@)] ELSE st
  <2>1. c \in Channels
    BY <1>0 DEF TypeOK
  <2>2. st \in LiveStates
    BY <1>0, <2>1, EntryType
  <2>3. new \in States
    BY <2>2 DEF RemoteEos, Lifecycles, States, LiveStates
  <2>4. Store(t, c, new) /\ UNCHANGED <<tombstones, order, chan, shape, sent, bare_eos>>
        /\ delivered' = [delivered EXCEPT ![c] = Append(@, Kind(shape[t]))]
    BY <1>5 DEF RecvAdmit, locals
  <2> HIDE DEF new
  <2>5. /\ Tracked' \subseteq Channels
        /\ channels' \in [Tracked' -> LiveStates]
        /\ pc' = [pc EXCEPT ![t] = IF new.lifecycle = "Closed" THEN "tombstone" ELSE "idle"]
    BY <1>0, <2>1, <2>3, <2>4, StoreType
  <2>6. delivered' \in [Channels -> Seq({"data", "eos"})]
    BY <1>0, <2>1, <2>4 DEF TypeOK, Kind
  <2> QED
    BY <1>0, <1>q, <2>4, <2>5, <2>6 DEF SessionInv, TypeOK, Tombstoned
<1>6. ASSUME NEW t \in Tasks, RecvDrop(t) PROVE SessionInv'
  BY <1>0, <1>6, <1>q DEF RecvDrop, Goto, locals, history, SessionInv, TypeOK, Tracked,
                          Tombstoned
<1>7. ASSUME NEW t \in Tasks, NEW c \in Channels, NEW f \in Shapes, SendCheck(t, c, f)
      PROVE  SessionInv'
  <2>1. bare_eos' \in [Channels -> SUBSET Nat]
    <3>1. Len(sent[c]) \in Nat
      BY <1>0 DEF TypeOK
    <3>2. bare_eos' = bare_eos \/ bare_eos' = [bare_eos EXCEPT ![c] = @ \cup {Len(sent[c])}]
      BY <1>7 DEF SendCheck
    <3>3. bare_eos \in [Channels -> SUBSET Nat] /\ bare_eos[c] \cup {Len(sent[c])} \in SUBSET Nat
      BY <1>0, <3>1 DEF TypeOK
    <3> QED
      BY <3>2, <3>3
  <2> QED
    BY <1>0, <1>7, <1>q, <2>1 DEF SendCheck, Goto, Holding, SessionInv, TypeOK, Tracked,
                                  Tombstoned
<1>8. ASSUME NEW t \in Tasks, NEW c \in Channels, NEW f \in Shapes \cup {EosOnly},
             RecvCheck(t, c, f)
      PROVE  SessionInv'
  BY <1>0, <1>8, <1>q DEF RecvCheck, Goto, Holding, history, SessionInv, TypeOK, Tracked,
                          Tombstoned
<1>9. ASSUME NEW t \in Tasks, NEW c \in Channels, CancelChannel(t, c) PROVE SessionInv'
  BY <1>0, <1>9, <1>q DEF CancelChannel, Goto, Holding, Without, history, SessionInv, TypeOK,
                          Tracked, Tombstoned
<1>10. ASSUME NEW t \in Tasks, NEW c \in Channels, NEW bytes \in Grants,
              GrantCredits(t, c, bytes)
       PROVE  SessionInv'
  <2> DEFINE st == Entry(c)
             new == [st EXCEPT !.send_credits =
                        IF @ + bytes > MaxCredits THEN MaxCredits ELSE @ + bytes]
  <2>1. st \in LiveStates
    BY <1>0, EntryType
  <2>2. bytes \in Nat /\ MaxCredits \in Nat
    OBVIOUS
  <2>3. new \in LiveStates
    BY <2>1, <2>2 DEF LiveStates
  <2>4. channels' = With(c, new) /\ UNCHANGED <<tombstones, order, pc, locals, history>>
    BY <1>10 DEF GrantCredits
  <2> HIDE DEF new
  <2> QED
    BY <1>0, <1>q, <2>3, <2>4 DEF With, locals, history, SessionInv, TypeOK, Tracked, Tombstoned
<1>11. CASE UNCHANGED vars
  BY <1>0, <1>11, <1>q DEF vars, SessionInv, TypeOK, Tracked, Tombstoned
<1> QED
  BY <1>1, <1>2, <1>3, <1>4, <1>5, <1>6, <1>7, <1>8, <1>9, <1>10, <1>11 DEF Next

-----------------------------------------------------------------------------
\* Whatever the tasks of a session do at once, its state keeps its types: no
\* credit is spent twice, and no channel that ended stays in the map.
THEOREM SessionTypes == Spec => []TypeOK
<1>1. SessionInv => TypeOK
  BY DEF SessionInv
<1> QED
  BY <1>1, InitSessionInv, NextSessionInv, PTL DEF Spec

\* Whoever ends or ends again what channel, the tombstones and their queue name
\* the same channels, each once, and no more than RAPACE_MAX_TOMBSTONES.
THEOREM TombstonesStayExact == Spec => []TombstonesExact
  BY QueueIsExact, InitSessionInv, NextSessionInv, PTL DEF Spec

-----------------------------------------------------------------------------
(* The promise of HalfClose, where one task uses the session.  Between two   *)
(* critical sections of one call another task can end the channel the call   *)
(* is about, so that the promise needs this.                                 *)

OneTask == \E t : Tasks = {t}

Ending == {"tombstone", "tombstone_cancelled"}
Silent(s) == Promise!Finished(s)

\* The lifecycle a channel has, or would be given, knows of the EOS that went by,
\* except on a channel that has ended or is about to.
Knows(t, c) ==
    \/ c \in Tombstoned
    \/ pc[t] \in Ending /\ chan[t] = c
    \/ /\ Silent(sent[c]) => ~CanSend(Entry(c))
       /\ Silent(delivered[c]) => ~CanReceive(Entry(c))

HalfInv(t) ==
    /\ \A c \in Channels : Knows(t, c)
    /\ pc[t] \in {"admit_send", "admit_recv"} => chan[t] \notin Tombstoned
    /\ pc[t] = "purge" => chan[t] \in Tombstoned

\* An EOS is the last frame that was let through.
LEMMA SilentAfter ==
    ASSUME NEW s \in Seq({"data", "eos"}), NEW f \in [data : BOOLEAN, eos : BOOLEAN, payload_len : Nat]
    PROVE  /\ Append(s, Kind(f)) \in Seq({"data", "eos"})
           /\ Silent(Append(s, Kind(f))) <=> Silent(s) \/ f.eos
           /\ ~Silent(<<>>)
<1>1. Kind(f) \in {"data", "eos"} /\ (Kind(f) = "eos" <=> f.eos)
  BY DEF Kind
<1>2. /\ Append(s, Kind(f)) \in Seq({"data", "eos"}) /\ Len(s) \in Nat
      /\ Len(Append(s, Kind(f))) = Len(s) + 1
      /\ \A i \in 1 .. Len(s) : Append(s, Kind(f))[i] = s[i]
      /\ Append(s, Kind(f))[Len(s) + 1] = Kind(f)
  BY <1>1, AppendProperties
<1>3. DOMAIN s = 1 .. Len(s) /\ DOMAIN Append(s, Kind(f)) = 1 .. Len(s) + 1
  BY <1>2
<1>4. ~Silent(<<>>)
  BY DEF Silent, Promise!Finished
<1>5. ASSUME Silent(s) PROVE Silent(Append(s, Kind(f)))
  BY <1>2, <1>3, <1>5 DEF Silent, Promise!Finished
<1>6. ASSUME f.eos PROVE Silent(Append(s, Kind(f)))
  BY <1>1, <1>2, <1>3, <1>6 DEF Silent, Promise!Finished
<1>7. ASSUME Silent(Append(s, Kind(f))), ~f.eos PROVE Silent(s)
  <2>1. PICK i \in 1 .. Len(s) + 1 : Append(s, Kind(f))[i] = "eos"
    BY <1>3, <1>7 DEF Silent, Promise!Finished
  <2>2. i \in 1 .. Len(s)
    BY <1>1, <1>2, <1>7, <2>1
  <2> QED BY <1>2, <1>3, <2>1, <2>2 DEF Silent, Promise!Finished
<1> QED BY <1>2, <1>4, <1>5, <1>6, <1>7

LEMMA ShapeType ==
    ASSUME TypeOK, NEW t \in Tasks
    PROVE  shape[t] \in [data : BOOLEAN, eos : BOOLEAN, payload_len : Nat] /\ chan[t] \in Channels
<1>1. /\ shape[t] \in Shapes \cup {EosOnly} /\ chan[t] \in Channels
      /\ Shapes \subseteq [data : BOOLEAN, eos : BOOLEAN, payload_len : Nat]
  BY DEF TypeOK
<1>2. EosOnly \in [data : BOOLEAN, eos : BOOLEAN, payload_len : Nat]
  BY DEF EosOnly
<1> QED BY <1>1, <1>2

\* What insert evicts is a tombstone, and there were too many of them.
LEMMA EvictsOld ==
    ASSUME SessionInv, NEW c \in Channels, NEW cancelled \in BOOLEAN, Insert(c, cancelled)
    PROVE  \E forgotten \in SUBSET Tombstoned :
               /\ forgotten # {} => Cardinality(Tombstoned \cup {c}) > MaxTombstones
               /\ c \notin forgotten
               /\ Tombstoned' = (Tombstoned \cup {c}) \ forgotten
               /\ sent' = [d \in Channels |-> IF d \in forgotten THEN <<>> ELSE sent[d]]
               /\ delivered' = [d \in Channels |-> IF d \in forgotten THEN <<>> ELSE delivered[d]]
<1> DEFINE q == Ordered(c)
<1>2. PICK evicted : evicted = IF Len(q) > MaxTombstones THEN {Head(q)} ELSE {}
  OBVIOUS
<1>3. /\ q \in Seq(Channels) /\ q # <<>> /\ Len(q) <= MaxTombstones + 1
      /\ \A i \in 1 .. Len(q) : q[i] \in Tombstoned \cup {c}
      /\ \A d \in Tombstoned \cup {c} : \E i \in 1 .. Len(q) : q[i] = d
      /\ \A i, j \in 1 .. Len(q) : q[i] = q[j] => i = j
  BY OrderedExtends
<1>1. q = Ordered(c)
  OBVIOUS
<1> HIDE DEF q
<1>4. /\ tombstones' = [d \in (Tombstoned \cup {c}) \ evicted |->
                            IF d = c THEN cancelled ELSE tombstones[d]]
      /\ sent' = [d \in Channels |-> IF d \in evicted THEN <<>> ELSE sent[d]]
      /\ delivered' = [d \in Channels |-> IF d \in evicted THEN <<>> ELSE delivered[d]]
  BY <1>1, <1>2 DEF Insert
<1>5. Tombstoned' = (Tombstoned \cup {c}) \ evicted
  BY <1>4 DEF Tombstoned
<1>6. Cardinality(Tombstoned \cup {c}) = Len(q)
  <2>1. Len(q) \in Nat /\ q \in [1 .. Len(q) -> Channels]
    BY <1>3, LenProperties
  <2>2. q \in Bijection(1 .. Len(q), Tombstoned \cup {c})
    BY <1>3, <2>1 DEF Bijection, Injection, Surjection, IsInjective
  <2> QED BY <2>1, <2>2, FS_CountingElements DEF ExistsBijection
<1>7. evicted \subseteq Tombstoned /\ c \notin evicted
  <2>1. CASE Len(q) > MaxTombstones
    <3>1. Len(q) > Len(order)
      BY <2>1, LenProperties DEF SessionInv, QueueInv, TypeOK
    <3>2. /\ order \in Seq(Channels) /\ c \notin Tombstoned /\ q = Append(order, c)
          /\ Len(order) \in Nat /\ Len(q) = Len(order) + 1 /\ Len(order) # 0
      BY <1>1, <2>1, <3>1, AppendProperties, LenProperties DEF Ordered, SessionInv, TypeOK
    <3>3. Head(q) = order[1] /\ 1 \in 1 .. Len(order)
      BY <1>3, <3>2, AppendProperties, HeadTailProperties
    <3>4. order[1] \in Tombstoned
      BY <3>3 DEF SessionInv, QueueInv
    <3> QED BY <1>2, <3>2, <3>3, <3>4
  <2>2. CASE ~(Len(q) > MaxTombstones)
    BY <1>2, <2>2
  <2> QED BY <2>1, <2>2
<1>8. evicted # {} => Cardinality(Tombstoned \cup {c}) > MaxTombstones
  BY <1>2, <1>6
<1> QED BY <1>4, <1>5, <1>7, <1>8

\* The channels a step is not about.
LEMMA KnowsKept ==
    ASSUME NEW t, NEW c \in Channels, Knows(t, c), c \in Tombstoned => c \in Tombstoned',
           pc[t] \in Ending /\ chan[t] = c => pc'[t] \in Ending /\ chan'[t] = c,
           sent'[c] = sent[c], delivered'[c] = delivered[c], Entry(c)' = Entry(c)
    PROVE  Knows(t, c)'
BY DEF Knows

LEMMA EntryKept ==
    ASSUME NEW c, NEW d, d # c,
           channels' = Without(c) \/ (\E st : channels' = With(c, st)) \/ channels' = channels
    PROVE  Entry(d)' = Entry(d)
BY DEF Entry, Tracked, Without, With

LEMMA EntryStored ==
    ASSUME NEW c, NEW st, channels' = With(c, st)
    PROVE  Entry(c)' = st
BY DEF Entry, Tracked, With

\* A step that leaves the two histories and the lifecycles alone.
LEMMA QuietKept ==
    ASSUME NEW t \in Tasks, HalfInv(t), UNCHANGED <<tombstones, sent, delivered>>,
           pc[t] \notin Ending,
           \A c \in Channels : Entry(c)'.lifecycle = Entry(c).lifecycle \/ c \in Tombstoned
                              \/ (pc'[t] \in Ending /\ chan'[t] = c),
           pc'[t] \in {"admit_send", "admit_recv"} => chan'[t] \notin Tombstoned,
           pc'[t] = "purge" => chan'[t] \in Tombstoned
    PROVE  HalfInv(t)' /\ UNCHANGED Promise!vars
<1>1. Tombstoned' = Tombstoned
  BY DEF Tombstoned
<1>2. ASSUME NEW c \in Channels PROVE Knows(t, c)'
  <2>1. Knows(t, c)
    BY DEF HalfInv
  <2>2. CASE c \in Tombstoned \/ (pc'[t] \in Ending /\ chan'[t] = c)
    BY <1>1, <2>2 DEF Knows
  <2>3. CASE Entry(c)'.lifecycle = Entry(c).lifecycle /\ c \notin Tombstoned
    BY <2>1, <2>3 DEF Knows, CanSend, CanReceive
  <2> QED BY <2>2, <2>3
<1>3. UNCHANGED Promise!vars
  BY <1>1 DEF Promise!vars
<1> QED BY <1>1, <1>2, <1>3 DEF HalfInv

\* A frame that is let through, and what is stored for its channel.
LEMMA AdmitKept ==
    ASSUME SessionInv, NEW t \in Tasks, HalfInv(t), NEW c \in Channels, c = chan[t], NEW st,
           pc[t] \in {"admit_send", "admit_recv"}, Store(t, c, st), UNCHANGED <<tombstones, chan>>,
           \A d \in Channels \ {c} : sent'[d] = sent[d] /\ delivered'[d] = delivered[d],
           st.lifecycle # "Closed" => /\ Silent(sent'[c]) => ~CanSend(st)
                                      /\ Silent(delivered'[c]) => ~CanReceive(st)
    PROVE  HalfInv(t)'
<1>1. Tombstoned' = Tombstoned /\ c \notin Tombstoned /\ pc[t] \notin Ending
  BY DEF Tombstoned, HalfInv, Ending
<1>2. /\ st.lifecycle = "Closed" => channels' = Without(c) /\ pc'[t] = "tombstone"
      /\ st.lifecycle # "Closed" => channels' = With(c, st) /\ pc'[t] = "idle"
  BY DEF Store, Goto, SessionInv, TypeOK
<1>3. ASSUME NEW d \in Channels \ {c} PROVE Knows(t, d)'
  <2>1. Entry(d)' = Entry(d)
    <3>1. channels' = Without(c) \/ channels' = With(c, st)
      BY <1>2
    <3>2. CASE channels' = Without(c)
      BY <3>2, EntryKept
    <3>3. CASE channels' = With(c, st)
      BY <3>3, EntryKept
    <3> QED BY <3>1, <3>2, <3>3
  <2>2. Knows(t, d)
    BY DEF HalfInv
  <2> QED BY <1>1, <2>1, <2>2, KnowsKept
<1>4. Knows(t, c)'
  <2>1. CASE st.lifecycle = "Closed"
    BY <1>2, <2>1 DEF Knows, Ending
  <2>2. CASE st.lifecycle # "Closed"
    <3>1. Entry(c)' = st
      BY <1>2, <2>2, EntryStored
    <3> QED BY <2>2, <3>1 DEF Knows, CanSend, CanReceive
  <2> QED BY <2>1, <2>2
<1>5. pc'[t] \in {"tombstone", "idle"}
  BY <1>2
<1> QED BY <1>3, <1>4, <1>5 DEF HalfInv

LEMMA HalfKept ==
    ASSUME SessionInv, NEW t \in Tasks, Tasks = {t}, HalfInv(t), [Next]_vars
    PROVE  HalfInv(t)' /\ (Promise!Next \/ UNCHANGED Promise!vars)
<1>1. TypeOK /\ chan[t] \in Channels /\ shape[t] \in [data : BOOLEAN, eos : BOOLEAN, payload_len : Nat]
  BY ShapeType DEF SessionInv
<1>2. CASE Tombstone(t)
  <2>1. PICK c \in Channels : c = chan[t]
    BY <1>1
  <2>2. PICK cancelled \in BOOLEAN : Insert(c, cancelled)
    BY <1>2, <2>1 DEF Tombstone, At
  <2>3. PICK forgotten \in SUBSET Tombstoned :
            /\ forgotten # {} => Cardinality(Tombstoned \cup {c}) > MaxTombstones
            /\ c \notin forgotten
            /\ Tombstoned' = (Tombstoned \cup {c}) \ forgotten
            /\ sent' = [d \in Channels |-> IF d \in forgotten THEN <<>> ELSE sent[d]]
            /\ delivered' = [d \in Channels |-> IF d \in forgotten THEN <<>> ELSE delivered[d]]
    BY <2>2, EvictsOld
  <2>4. Promise!End(c, forgotten)
    <3>1. \A S : Promise!Cardinality(S) = Cardinality(S)
      BY DEF Promise!Cardinality, Cardinality
    <3> QED BY <2>3, <3>1 DEF Promise!End
  <2>5. Promise!Next
    BY <2>3, <2>4 DEF Promise!Next
  <2>6. channels' = channels /\ pc'[t] = "idle" /\ chan'[t] = chan[t]
    BY <1>1, <1>2 DEF Tombstone, Goto, locals, TypeOK
  <2>7. ASSUME NEW d \in Channels PROVE Knows(t, d)'
    <3>1. Knows(t, d) /\ Entry(d)' = Entry(d)
      BY <2>6 DEF HalfInv, Entry, Tracked
    <3>2. CASE d \in forgotten
      BY <2>3, <3>2 DEF Knows, Silent, Promise!Finished
    <3>3. CASE d \notin forgotten
      BY <2>1, <2>3, <3>1, <3>3 DEF Knows
    <3> QED BY <3>2, <3>3
  <2> QED BY <2>5, <2>6, <2>7 DEF HalfInv
<1>3. CASE SendAdmit(t)
  <2> DEFINE c == chan[t]
             f == shape[t]
             st == [lifecycle |-> IF f.eos THEN LocalEos(Entry(c).lifecycle) ELSE Entry(c).lifecycle,
                    send_credits |-> Entry(c).send_credits - f.payload_len]
  <2>1. /\ pc[t] = "admit_send" /\ CanSend(Entry(c)) /\ Store(t, c, st)
        /\ sent' = [sent EXCEPT ![c] = Append(@, Kind(f))]
        /\ UNCHANGED <<tombstones, chan, delivered>>
    BY <1>3 DEF SendAdmit, Accepts, At, locals
  <2>2. Knows(t, c) /\ c \notin Tombstoned
    BY <1>1, <2>1 DEF HalfInv
  <2>3. ~Silent(sent[c]) /\ (Silent(delivered[c]) => ~CanReceive(Entry(c)))
    BY <2>1, <2>2 DEF Knows, Ending
  <2>4. Entry(c).lifecycle \in Lifecycles
    BY <1>1, EntryType DEF LiveStates
  <2>5. sent'[c] = Append(sent[c], Kind(f)) /\ \A d \in Channels \ {c} : sent'[d] = sent[d]
    BY <1>1, <2>1 DEF TypeOK
  <2>6. Silent(sent'[c]) <=> f.eos
    BY <1>1, <2>3, <2>5, SilentAfter DEF TypeOK
  <2>7. st.lifecycle # "Closed" => /\ Silent(sent'[c]) => ~CanSend(st)
                                   /\ Silent(delivered'[c]) => ~CanReceive(st)
    BY <1>1, <2>1, <2>3, <2>4, <2>6 DEF CanSend, CanReceive, LocalEos, Lifecycles
  <2>8. Kind(f) \in Promise!Kinds
    BY DEF Kind, Promise!Kinds
  <2>9. Promise!Send(c, Kind(f))
    BY <2>1, <2>2, <2>3 DEF Promise!Send, Silent, Tombstoned
  <2>10. Promise!Next
    BY <1>1, <2>8, <2>9 DEF Promise!Next
  <2> HIDE DEF st
  <2>11. HalfInv(t)'
    BY <1>1, <2>1, <2>5, <2>7, AdmitKept
  <2> QED BY <2>10, <2>11
<1>4. CASE RecvAdmit(t)
  <2> DEFINE c == chan[t]
             f == shape[t]
             st == IF f.eos THEN [Entry(c) EXCEPT !.lifecycle = RemoteEos(@)] ELSE Entry(c)
  <2>1. /\ pc[t] = "admit_recv" /\ CanReceive(Entry(c)) /\ Store(t, c, st)
        /\ delivered' = [delivered EXCEPT ![c] = Append(@, Kind(f))]
        /\ UNCHANGED <<tombstones, chan, sent>>
    BY <1>4 DEF RecvAdmit, At, locals
  <2>2. Knows(t, c) /\ c \notin Tombstoned
    BY <1>1, <2>1 DEF HalfInv
  <2>3. ~Silent(delivered[c]) /\ (Silent(sent[c]) => ~CanSend(Entry(c)))
    BY <2>1, <2>2 DEF Knows, Ending
  <2>4. Entry(c) \in LiveStates
    BY <1>1, EntryType
  <2>5. delivered'[c] = Append(delivered[c], Kind(f)) /\ \A d \in Channels \ {c} : delivered'[d] = delivered[d]
    BY <1>1, <2>1 DEF TypeOK
  <2>6. Silent(delivered'[c]) <=> f.eos
    BY <1>1, <2>3, <2>5, SilentAfter DEF TypeOK
  <2>7. st.lifecycle = IF f.eos THEN RemoteEos(Entry(c).lifecycle) ELSE Entry(c).lifecycle
    BY <2>4 DEF LiveStates
  <2>8. st.lifecycle # "Closed" => /\ Silent(sent'[c]) => ~CanSend(st)
                                   /\ Silent(delivered'[c]) => ~CanReceive(st)
    BY <1>1, <2>1, <2>3, <2>4, <2>6, <2>7 DEF CanSend, CanReceive, RemoteEos, LiveStates, Lifecycles
  <2>9. Kind(f) \in Promise!Kinds
    BY DEF Kind, Promise!Kinds
  <2>10. Promise!Deliver(c, Kind(f))
    BY <2>1, <2>2, <2>3 DEF Promise!Deliver, Silent, Tombstoned
  <2>11. Promise!Next
    BY <1>1, <2>9, <2>10 DEF Promise!Next
  <2> HIDE DEF st
  <2>12. HalfInv(t)'
    BY <1>1, <2>1, <2>5, <2>8, AdmitKept
  <2> QED BY <2>11, <2>12
<1>5. CASE Purge(t)
  <2>1. /\ pc[t] = "purge" /\ pc'[t] = "idle" /\ channels' = Without(chan[t]) /\ chan[t] \in Tombstoned
        /\ UNCHANGED <<tombstones, sent, delivered>>
    BY <1>1, <1>5 DEF Purge, At, Goto, history, TypeOK, HalfInv
  <2>2. \A c \in Channels : Entry(c)' = Entry(c) \/ c \in Tombstoned
    BY <2>1, EntryKept
  <2> QED BY <2>1, <2>2, QuietKept DEF Ending
<1>6. CASE SendRefuse(t)
  <2>1. /\ pc[t] = "admit_send" /\ pc'[t] = "idle" /\ UNCHANGED <<tombstones, sent, delivered>>
        /\ channels' = channels \/ channels' = With(chan[t], Entry(chan[t]))
    BY <1>1, <1>6 DEF SendRefuse, At, Goto, history, TypeOK
  <2>2. \A c \in Channels : Entry(c)' = Entry(c)
    <3>1. CASE channels' = channels
      BY <3>1 DEF Entry, Tracked
    <3>2. CASE channels' = With(chan[t], Entry(chan[t]))
      BY <3>2, EntryKept, EntryStored
    <3> QED BY <2>1, <3>1, <3>2
  <2> QED BY <2>1, <2>2, QuietKept DEF Ending
<1>7. CASE RecvDrop(t)
  <2>1. /\ pc[t] = "admit_recv" /\ pc'[t] \in {"tombstone", "idle"}
        /\ UNCHANGED <<tombstones, sent, delivered, channels>>
    BY <1>1, <1>7 DEF RecvDrop, At, Goto, history, TypeOK
  <2>2. \A c \in Channels : Entry(c)' = Entry(c)
    BY <2>1 DEF Entry, Tracked
  <2> QED BY <2>1, <2>2, QuietKept DEF Ending
<1>8. ASSUME NEW c \in Channels, NEW f, SendCheck(t, c, f) \/ RecvCheck(t, c, f)
      PROVE  HalfInv(t)' /\ UNCHANGED Promise!vars
  <2>1. /\ pc[t] = "idle" /\ chan'[t] = c /\ UNCHANGED <<tombstones, sent, delivered, channels>>
        /\ \/ pc'[t] \in {"admit_send", "admit_recv"} /\ c \notin Tombstoned
           \/ pc'[t] = "purge" /\ c \in Tombstoned
           \/ pc'[t] = "idle"
    BY <1>1, <1>8 DEF SendCheck, RecvCheck, At, Goto, Holding, history, TypeOK
  <2>2. \A d \in Channels : Entry(d)' = Entry(d)
    BY <2>1 DEF Entry, Tracked
  <2> QED BY <2>1, <2>2, QuietKept DEF Ending
<1>9. ASSUME NEW c \in Channels, CancelChannel(t, c) PROVE HalfInv(t)' /\ UNCHANGED Promise!vars
  <2>1. /\ pc[t] = "idle" /\ chan'[t] = c /\ pc'[t] = "tombstone_cancelled" /\ channels' = Without(c)
        /\ UNCHANGED <<tombstones, sent, delivered>>
    BY <1>1, <1>9 DEF CancelChannel, At, Goto, Holding, history, TypeOK
  <2>2. \A d \in Channels \ {c} : Entry(d)' = Entry(d)
    BY <2>1, EntryKept
  <2> QED BY <2>1, <2>2, QuietKept DEF Ending
<1>10. ASSUME NEW c \in Channels, NEW bytes \in Grants, GrantCredits(t, c, bytes)
       PROVE  HalfInv(t)' /\ UNCHANGED Promise!vars
  <2>1. PICK st : /\ st = [Entry(c) EXCEPT !.send_credits =
                               IF @ + bytes > MaxCredits THEN MaxCredits ELSE @ + bytes]
                  /\ channels' = With(c, st)
    BY <1>10 DEF GrantCredits
  <2>2. Entry(c) \in LiveStates
    BY <1>1, EntryType
  <2>3. st.lifecycle = Entry(c).lifecycle
    BY <2>1, <2>2 DEF LiveStates
  <2>4. ASSUME NEW d \in Channels PROVE Entry(d)'.lifecycle = Entry(d).lifecycle
    <3>1. d = c => Entry(d)' = st
      BY <2>1, EntryStored
    <3>2. d # c => Entry(d)' = Entry(d)
      BY <2>1, EntryKept
    <3> QED BY <2>3, <3>1, <3>2
  <2>5. pc[t] = "idle" /\ UNCHANGED <<tombstones, sent, delivered, pc, chan>>
    BY <1>10 DEF GrantCredits, At, locals, history
  <2> QED BY <2>4, <2>5, QuietKept DEF Ending
<1>11. CASE UNCHANGED vars
  <2>1. UNCHANGED <<channels, tombstones, order, pc, chan, shape, sent, delivered>>
    BY <1>11 DEF vars
  <2>2. Tombstoned' = Tombstoned /\ \A d \in Channels : Entry(d)' = Entry(d)
    BY <2>1 DEF Tombstoned, Entry, Tracked
  <2>3. \A d \in Channels : Knows(t, d)'
    BY <2>1, <2>2 DEF HalfInv, Knows
  <2> QED BY <2>1, <2>2, <2>3 DEF HalfInv, Promise!vars
<1> QED BY <1>2, <1>3, <1>4, <1>5, <1>6, <1>7, <1>8, <1>9, <1>10, <1>11 DEF Next

\* send_frame, recv_frame and cancel_channel, called by one task at a time, keep what
\* HalfClose promises: no DATA frame passes after the EOS of its direction nor on a
\* channel that has ended, until insert has evicted its tombstone for later ones.
THEOREM HalfCloseKept == ASSUME OneTask PROVE Spec => KeepsHalfClose
<1>1. PICK t : Tasks = {t}
  BY DEF OneTask
<1>2. ASSUME Init PROVE HalfInv(t) /\ Promise!Init
  <2>1. Tombstoned = {} /\ Tracked = {} /\ pc[t] = "idle"
    BY <1>1, <1>2 DEF Init, Tombstoned, Tracked
  <2>2. \A c \in Channels : ~Silent(sent[c]) /\ ~Silent(delivered[c])
    BY <1>2 DEF Init, Silent, Promise!Finished
  <2> QED BY <1>2, <2>1, <2>2 DEF HalfInv, Knows, Promise!Init, Init
<1>3. SessionInv /\ HalfInv(t) /\ [Next]_vars => HalfInv(t)' /\ [Promise!Next]_(Promise!vars)
  BY <1>1, HalfKept
<1> QED BY <1>2, <1>3, InitSessionInv, NextSessionInv, PTL DEF Spec, KeepsHalfClose, Promise!Spec
====
