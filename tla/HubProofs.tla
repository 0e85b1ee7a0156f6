---- MODULE HubProofs ----
(***************************************************************************)
(* The hub.                                                                *)
(*                                                                         *)
(* The first half: for any number of tasks, frames, slots and entries of a *)
(* ring, the two ends of a hub transport account for every slot, deliver   *)
(* what was sent, once and in order, and tell each send_frame the truth,   *)
(* whatever is closed, dropped or dies when.                               *)
(*                                                                         *)
(* The second half: for every number of peers, launches and calls, as long *)
(* as there are no more launches than peer ids: ids are never shared, the  *)
(* count of peers is exact, a peer reported dead does not use its          *)
(* doorbell, and a cell that was told it is ready can serve.               *)
(***************************************************************************)
EXTENDS CellHub, HubTransport, TLAPS, SequenceTheorems, FiniteSetTheorems

-----------------------------------------------------------------------------
(* The inductive invariant of a hub transport *)

\* Where a send is: no slot yet, a slot or an inline payload in its hands, its
\* descriptor on the ring.
Choosing == {"alloc", "too_large", "arm_slot", "wait_slot"}
Keeping == {"mark", "enqueue", "full", "arm_room", "wait_room"}
Enqueued == {"signal", "report", "close", "wake", "wake_dead"}
FoundDead == {"report", "close", "wake_dead"}

\* A send has its own frame, the last it began, and no outcome yet.
SendOf(t) ==
    /\ pc[t] # "idle" => /\ sending[t] \in Descriptors
                         /\ sending[t].frame = <<t, begun[t]>>
    /\ pc[t] = "mark" => sending[t].slot # NoSlot
    /\ \A n \in 1 .. Quota[t] :
         n > begun[t] \/ (n = begun[t] /\ pc[t] # "idle") => outcome[<<t, n>>] = "none"
    /\ pc[t] \in FoundDead => Other(End(t)) \notin alive
Sends == \A t \in Tasks : SendOf(t)

\* What a receiver has in its hands, the last frame it returned while it frees.
InHands(e) == recv_pc[e] \in {"taken", "copy"}
RecvOf(e) ==
    /\ InHands(e) => got[e] \in Descriptors
    /\ recv_pc[e] = "free" => /\ got[e] \in Descriptors /\ got[e].slot # NoSlot
                              /\ Len(returned[e]) # 0
                              /\ returned[e][Len(returned[e])].frame = got[e].frame
    /\ \A i \in DOMAIN returned[e] : returned[e][i].payload = returned[e][i].frame
Recvs == \A e \in Ends : RecvOf(e)

\* The frames returned at e, in its hands and on its ring, in their order.
Taken(e) == IF InHands(e) THEN 1 ELSE 0
Line(e) ==
    [i \in 1 .. Len(returned[e]) + Taken(e) + Len(ring[e]) |->
        IF i <= Len(returned[e]) THEN returned[e][i].frame
        ELSE IF i <= Len(returned[e]) + Taken(e) THEN got[e].frame
        ELSE ring[e][i - (Len(returned[e]) + Taken(e))].frame]
InLine(e, f) == \E i \in DOMAIN Line(e) : Line(e)[i] = f

\* They were sent from the other end, and no later frame of a task is ahead of an
\* earlier one; a frame whose send has not enqueued it yet is not among them.
LineOf(e) ==
    /\ \A i \in DOMAIN Line(e) :
         /\ Line(e)[i] \in SentFrames /\ Other(End(Line(e)[i][1])) = e
         /\ Line(e)[i][2] <= begun[Line(e)[i][1]]
         /\ pc[Line(e)[i][1]] \in Choosing \cup Keeping => Line(e)[i][2] # begun[Line(e)[i][1]]
    /\ \A i, j \in DOMAIN Line(e) :
         i < j /\ Line(e)[i][1] = Line(e)[j][1] => Line(e)[i][2] < Line(e)[j][2]
Lines == \A e \in Ends : LineOf(e)

\* What send_frame said, and what it is about to say, is true.
Target(f) == Other(End(f[1]))
Outcomes ==
    /\ \A f \in SentFrames :
         /\ outcome[f] = "ok" => InLine(Target(f), f)
         /\ outcome[f] \in {"failed", "closed", "dropped"} /\ Target(f) \in alive
              => ~InLine(Target(f), f)
    /\ \A t \in Tasks : pc[t] \in Enqueued => InLine(Other(End(t)), sending[t].frame)

\* A slot in the hands of a send, on a ring or with a receiver is not free and
\* holds the payload of the frame it is for; a lost one holds that of a frame
\* that has an outcome and that no end will see.
Sender(t, s) == pc[t] \in Keeping /\ sending[t].slot = s
Receiver(e, s) == recv_pc[e] \in {"taken", "copy", "free"} /\ got[e].slot = s
Queued(e, i, s) == ring[e][i].slot = s
Held(s) == \/ \E t \in Tasks : Sender(t, s)
           \/ \E e \in Ends : Receiver(e, s)
           \/ \E e \in Ends : \E i \in DOMAIN ring[e] : Queued(e, i, s)
           \/ s \in lost
Filled ==
    /\ \A t \in Tasks, s \in Slots : Sender(t, s) => memory[s] = sending[t].frame
    /\ \A e \in Ends, s \in Slots : Receiver(e, s) => memory[s] = got[e].frame
    /\ \A e \in Ends, s \in Slots : \A i \in DOMAIN ring[e] :
         Queued(e, i, s) => memory[s] = ring[e][i].frame
    /\ \A s \in lost : /\ memory[s] \in SentFrames /\ outcome[memory[s]] # "none"
                       /\ ~InLine(Target(memory[s]), memory[s])
Covered == \A s \in Slots : Held(s) <=> slot_state[s] # "free"

\* The books: what must stay right, next to the types.
Bookkeeping == Sends /\ Recvs /\ Lines /\ Outcomes /\ Filled /\ Covered
TransportInv == TransportTypeOK /\ Bookkeeping

-----------------------------------------------------------------------------
(* Frames and lines *)

\* A frame is a task and the number of one of its sends.
LEMMA FramesOfTasks ==
    /\ \A f \in SentFrames : /\ f = <<f[1], f[2]>> /\ f[1] \in Tasks
                             /\ f[2] \in 1 .. Quota[f[1]] /\ f # NoFrame
    /\ \A t \in Tasks : \A n \in 1 .. Quota[t] : <<t, n>> \in SentFrames
  BY DEF SentFrames, NoFrame

\* No slot is the mark of an inline payload, and an end has one other end.
LEMMA EndsAndSlots ==
    /\ NoSlot \notin Slots
    /\ \A t \in Tasks : End(t) \in Ends
    /\ \A e \in Ends : Other(e) \in Ends /\ Other(e) # e /\ Other(Other(e)) = e
  BY TransportAssumption DEF Ends, End, Other

\* The places of a line.
LEMMA LineLength ==
    ASSUME TransportTypeOK, NEW e \in Ends
    PROVE  /\ Len(returned[e]) \in Nat /\ Len(ring[e]) \in Nat /\ Taken(e) \in {0, 1}
           /\ DOMAIN Line(e) = 1 .. Len(returned[e]) + Taken(e) + Len(ring[e])
           /\ returned[e] \in Seq([frame : SentFrames, payload : SentFrames])
           /\ ring[e] \in Seq(Descriptors)
<1>1. returned[e] \in Seq([frame : SentFrames, payload : SentFrames])
        /\ ring[e] \in Seq(Descriptors)
  BY DEF TransportTypeOK
<1>2. Len(returned[e]) \in Nat /\ Len(ring[e]) \in Nat
  BY <1>1
<1>3. Taken(e) \in {0, 1}
  BY DEF Taken
<1>4. DOMAIN Line(e) = 1 .. Len(returned[e]) + Taken(e) + Len(ring[e])
  BY DEF Line
<1> QED  BY <1>1, <1>2, <1>3, <1>4

\* What is returned, in a receiver's hands or on a ring is in the line.
LEMMA InTheLine ==
    ASSUME TransportTypeOK, NEW e \in Ends
    PROVE  /\ \A i \in 1 .. Len(returned[e]) :
                /\ i \in DOMAIN Line(e) /\ Line(e)[i] = returned[e][i].frame
           /\ InHands(e) =>
                /\ Len(returned[e]) + 1 \in DOMAIN Line(e)
                /\ Line(e)[Len(returned[e]) + 1] = got[e].frame
           /\ \A i \in 1 .. Len(ring[e]) :
                /\ Len(returned[e]) + Taken(e) + i \in DOMAIN Line(e)
                /\ Line(e)[Len(returned[e]) + Taken(e) + i] = ring[e][i].frame
<1>1. ASSUME NEW i \in 1 .. Len(returned[e])
      PROVE  i \in DOMAIN Line(e) /\ Line(e)[i] = returned[e][i].frame
  <2>1. i \in 1 .. Len(returned[e]) + Taken(e) + Len(ring[e]) /\ i <= Len(returned[e])
    BY <1>1, LineLength
  <2> QED  BY <2>1, LineLength DEF Line
<1>2. ASSUME InHands(e)
      PROVE  /\ Len(returned[e]) + 1 \in DOMAIN Line(e)
             /\ Line(e)[Len(returned[e]) + 1] = got[e].frame
  <2>1. Taken(e) = 1
    BY <1>2 DEF Taken
  <2>2. Len(returned[e]) + 1 \in 1 .. Len(returned[e]) + Taken(e) + Len(ring[e])
    <3> Len(returned[e]) \in Nat /\ Len(ring[e]) \in Nat
      BY LineLength
    <3>1. \A a, b \in Nat : a + 1 \in 1 .. a + 1 + b
      OBVIOUS
    <3> QED  BY <2>1, <3>1
  <2>3. ~(Len(returned[e]) + 1 <= Len(returned[e]))
        /\ Len(returned[e]) + 1 <= Len(returned[e]) + Taken(e)
    BY <2>1, LineLength
  <2> QED  BY <2>2, <2>3, LineLength DEF Line
<1>3. ASSUME NEW i \in 1 .. Len(ring[e])
      PROVE  /\ Len(returned[e]) + Taken(e) + i \in DOMAIN Line(e)
             /\ Line(e)[Len(returned[e]) + Taken(e) + i] = ring[e][i].frame
  <2> DEFINE k == Len(returned[e]) + Taken(e) + i
  <2>1. k \in 1 .. Len(returned[e]) + Taken(e) + Len(ring[e])
    BY LineLength
  <2>2. /\ ~(k <= Len(returned[e])) /\ ~(k <= Len(returned[e]) + Taken(e))
        /\ k - (Len(returned[e]) + Taken(e)) = i
    BY LineLength
  <2> HIDE DEF k
  <2>3. Line(e)[k] = ring[e][k - (Len(returned[e]) + Taken(e))].frame
    BY <2>1, <2>2 DEF Line
  <2>4. k \in DOMAIN Line(e) /\ Line(e)[k] = ring[e][i].frame
    BY <2>1, <2>2, <2>3, LineLength
  <2> QED  BY <2>4 DEF k
<1> QED  BY <1>1, <1>2, <1>3

\* A line stands as long as nothing is taken, returned or enqueued.
LEMMA SameLine ==
    ASSUME NEW e \in Ends, returned'[e] = returned[e], ring'[e] = ring[e],
           got'[e] = got[e], InHands(e)' <=> InHands(e)
    PROVE  Line(e)' = Line(e)
  BY DEF Line, Taken

-----------------------------------------------------------------------------
(* Steps that move nothing *)

\* A send goes from a step to a step of the same part of send_frame.
SamePlace(t) ==
    /\ pc'[t] = "idle" <=> pc[t] = "idle"
    /\ pc'[t] \in Choosing <=> pc[t] \in Choosing
    /\ pc'[t] \in Keeping <=> pc[t] \in Keeping
    /\ pc'[t] \in Enqueued <=> pc[t] \in Enqueued
    /\ pc'[t] = "mark" => pc[t] = "mark"
    /\ pc'[t] \in FoundDead => pc[t] \in FoundDead \/ Other(End(t)) \notin alive

SameReceiver(e) ==
    /\ InHands(e)' <=> InHands(e)
    /\ recv_pc'[e] = "free" <=> recv_pc[e] = "free"

\* A step that leaves every frame where it is keeps the books.
LEMMA Moves ==
    ASSUME TransportInv,
           UNCHANGED <<memory, ring, sending, begun, outcome, got, returned, lost>>,
           alive' \subseteq alive,
           \A t \in Tasks : SamePlace(t),
           \A e \in Ends : SameReceiver(e),
           \A s \in Slots : slot_state'[s] = "free" <=> slot_state[s] = "free"
    PROVE  Bookkeeping'
<1> USE DEF TransportInv, Bookkeeping
<1>0. \A e \in Ends : Line(e)' = Line(e)
  BY SameLine DEF SameReceiver
<1>1. Sends'
  BY EndsAndSlots DEF Sends, SendOf, SamePlace
<1>2. Recvs'
  BY DEF Recvs, RecvOf, SameReceiver
<1>3. Lines'
  BY <1>0, FramesOfTasks DEF Lines, LineOf, SamePlace
<1>4. Outcomes'
  <2>1. \A e \in Ends : \A f : InLine(e, f)' <=> InLine(e, f)
    BY <1>0 DEF InLine
  <2>2. \A f \in SentFrames : Target(f) \in Ends
    BY FramesOfTasks, EndsAndSlots DEF Target
  <2> QED  BY <2>1, <2>2, EndsAndSlots DEF Outcomes, Target, SamePlace
<1>5. Filled'
  <2>1. \A e \in Ends : \A f : InLine(e, f)' <=> InLine(e, f)
    BY <1>0 DEF InLine
  <2>2. \A f \in SentFrames : Target(f) \in Ends
    BY FramesOfTasks, EndsAndSlots DEF Target
  <2> QED  BY <2>1, <2>2 DEF Filled, Sender, Receiver, Queued, Target, SamePlace,
                              SameReceiver, InHands
<1>6. Covered'
  BY DEF Covered, Held, Sender, Receiver, Queued, SamePlace, SameReceiver, InHands
<1> QED  BY <1>1, <1>2, <1>3, <1>4, <1>5, <1>6

\* A send that ends with Ok has its frame in the line; one that ends otherwise
\* has not enqueued it, or the other end is dead.  The slot it held is lost.
LEMMA Settles ==
    ASSUME TransportInv,
           NEW t \in Tasks, pc[t] # "idle",
           NEW how \in {"ok", "failed", "closed", "dropped"},
           IF how = "ok" THEN pc[t] \in Enqueued
           ELSE pc[t] \in Choosing \cup Keeping \/ Other(End(t)) \notin alive,
           pc'[t] = "idle", \A u \in Tasks \ {t} : SamePlace(u),
           outcome' = [outcome EXCEPT ![sending[t].frame] = how],
           sending' = [sending EXCEPT ![t] = Nothing],
           Abandon(t),
           alive' = alive,
           UNCHANGED <<slot_state, memory, ring, begun, recv_vars>>
    PROVE  Bookkeeping'
<1> USE DEF TransportInv, Bookkeeping
<1>f. PICK f \in SentFrames : f = sending[t].frame /\ f = <<t, begun[t]>>
  BY DEF Sends, SendOf, Descriptors
<1>g. /\ f[1] = t /\ f[2] = begun[t] /\ outcome[f] = "none" /\ begun[t] \in 1 .. Quota[t]
      /\ \A g \in SentFrames : g # f => outcome'[g] = outcome[g]
      /\ outcome'[f] = how
  <2>1. f[1] = t /\ f[2] = begun[t]
    BY <1>f
  <2>2. begun[t] \in 1 .. Quota[t]
    BY <2>1, FramesOfTasks
  <2>3. outcome[<<t, begun[t]>>] = "none"
    BY <2>2 DEF Sends, SendOf
  <2>4. \A g \in SentFrames : outcome'[g] = IF g = f THEN how ELSE outcome[g]
    BY <1>f DEF TransportTypeOK
  <2> QED  BY <1>f, <2>1, <2>2, <2>3, <2>4
<1>h. sending'[t] = Nothing /\ \A u \in Tasks \ {t} : sending'[u] = sending[u]
  BY DEF TransportTypeOK
<1>l. \A e \in Ends : Line(e)' = Line(e)
  BY SameLine DEF InHands, recv_vars
<1>i. /\ \A e \in Ends : \A g : InLine(e, g)' <=> InLine(e, g)
      /\ \A g \in SentFrames : Target(g) \in Ends
  BY <1>l, FramesOfTasks, EndsAndSlots DEF InLine, Target
<1>n. pc[t] \in Choosing \cup Keeping => ~InLine(Target(f), f)
  BY <1>g, <1>i DEF Lines, LineOf, InLine
<1>1. Sends'
  <2>1. ASSUME NEW u \in Tasks \ {t}
        PROVE  SendOf(u)'
    <3>1. \A n \in 1 .. Quota[u] : <<u, n>> \in SentFrames /\ <<u, n>> # f
      BY <1>g, <2>1, FramesOfTasks
    <3>2. \A n \in 1 .. Quota[u] : outcome'[<<u, n>>] = outcome[<<u, n>>]
      BY <3>1, <1>g
    <3> QED  BY <2>1, <3>2, <1>h, EndsAndSlots DEF Sends, SendOf, SamePlace
  <2>2. SendOf(t)'
    <3>1. \A n \in 1 .. Quota[t] : n > begun[t] => <<t, n>> # f
      BY <1>g
    <3>2. \A n \in 1 .. Quota[t] : n > begun[t] => outcome'[<<t, n>>] = "none"
      BY <3>1, <1>g, FramesOfTasks DEF Sends, SendOf
    <3> QED  BY <3>2 DEF SendOf, FoundDead
  <2> QED  BY <2>1, <2>2 DEF Sends
<1>2. Recvs'
  BY DEF Recvs, RecvOf, InHands, recv_vars
<1>3. Lines'
  <2>1. \A u \in Tasks : pc'[u] \in Choosing \cup Keeping => pc[u] \in Choosing \cup Keeping
    BY DEF SamePlace, Choosing, Keeping
  <2> QED  BY <1>l, <2>1, FramesOfTasks DEF Lines, LineOf
<1>4. Outcomes'
  <2>1. how = "ok" => InLine(Target(f), f)
    BY <1>f, <1>g DEF Outcomes, Target
  <2>2. how # "ok" /\ Target(f) \in alive => ~InLine(Target(f), f)
    BY <1>g, <1>n DEF Target
  <2>3. ASSUME NEW g \in SentFrames
        PROVE  /\ outcome'[g] = "ok" => InLine(Target(g), g)
               /\ outcome'[g] \in {"failed", "closed", "dropped"} /\ Target(g) \in alive
                     => ~InLine(Target(g), g)
    BY <1>g, <2>1, <2>2 DEF Outcomes
  <2>4. \A u \in Tasks : pc'[u] \in Enqueued => InLine(Other(End(u)), sending'[u].frame)
    BY <1>h DEF Outcomes, SamePlace, Enqueued
  <2> QED  BY <1>i, <2>3, <2>4, EndsAndSlots DEF Outcomes, Target
<1>5. Filled'
  <2>1. \A u \in Tasks, s \in Slots : Sender(u, s)' => memory[s] = sending'[u].frame
    BY <1>h DEF Filled, Sender, SamePlace, Keeping
  <2>2. ASSUME NEW s \in lost'
        PROVE  /\ memory[s] \in SentFrames /\ outcome'[memory[s]] # "none"
               /\ ~InLine(Target(memory[s]), memory[s])
    <3>1. CASE s \in lost
      BY <3>1, <1>g DEF Filled
    <3>2. CASE s \notin lost
      <4>1. KeepsSlot(t) /\ s = sending[t].slot /\ s # NoSlot
        BY <2>2, <3>2 DEF Abandon
      <4>2. s \in Slots
        BY <4>1, <1>f DEF Sends, SendOf, Descriptors
      <4>3. Sender(t, s) /\ pc[t] \in Keeping
        BY <4>1 DEF Sender, Keeping, KeepsSlot
      <4>4. memory[s] = f
        BY <4>2, <4>3, <1>f DEF Filled
      <4> QED  BY <4>3, <4>4, <1>g, <1>n
    <3> QED  BY <3>1, <3>2
  <2>3. \A g \in SentFrames : Target(g)' = Target(g)
    BY DEF Target
  <2>4. \A s \in lost' : /\ memory'[s] \in SentFrames /\ outcome'[memory'[s]] # "none"
                         /\ ~InLine(Target(memory[s]), memory[s])'
    BY <2>2, <2>3, <1>i
  <2> QED  BY <2>1, <2>4 DEF Filled, Receiver, Queued, Sender, recv_vars
<1>6. Covered'
  <2>1. ASSUME NEW s \in Slots
        PROVE  Held(s)' <=> Held(s)
    <3>1. \A u \in Tasks \ {t} : Sender(u, s)' <=> Sender(u, s)
      BY <1>h DEF Sender, SamePlace
    <3>2. ~Sender(t, s)'
      BY DEF Sender, Keeping
    <3>3. s \in lost' <=> s \in lost \/ Sender(t, s)
      BY EndsAndSlots DEF Abandon, KeepsSlot, Sender, Keeping
    <3>4. (\E e \in Ends : Receiver(e, s)') <=> (\E e \in Ends : Receiver(e, s))
      BY DEF Receiver, recv_vars
    <3>5. (\E e \in Ends : \E i \in DOMAIN ring'[e] : Queued(e, i, s)')
            <=> (\E e \in Ends : \E i \in DOMAIN ring[e] : Queued(e, i, s))
      BY DEF Queued
    <3>6. (\E u \in Tasks : Sender(u, s)') \/ s \in lost'
            <=> (\E u \in Tasks : Sender(u, s)) \/ s \in lost
      BY <3>1, <3>2, <3>3
    <3> QED  BY <3>4, <3>5, <3>6 DEF Held
  <2> QED  BY <2>1 DEF Covered
<1> QED  BY <1>1, <1>2, <1>3, <1>4, <1>5, <1>6

-----------------------------------------------------------------------------
(* Steps along the line *)

\* The line of an end from its parts: r returned, k in its hands (d), q on the ring.
LineFrom(r, k, d, q) ==
    [i \in 1 .. Len(r) + k + Len(q) |->
        IF i <= Len(r) THEN r[i].frame
        ELSE IF i <= Len(r) + k THEN d.frame
        ELSE q[i - (Len(r) + k)].frame]

Returns == Seq([frame : SentFrames, payload : SentFrames])

\* One line is another with a frame at its end.
LongerBy(old, new, f) ==
    \E n \in Nat : /\ DOMAIN old = 1 .. n /\ DOMAIN new = 1 .. n + 1
                   /\ \A i \in 1 .. n : new[i] = old[i]
                   /\ new[n + 1] = f

\* A descriptor put on the ring comes at the end of the line.
LEMMA EnqueuedLast ==
    ASSUME NEW r \in Returns, NEW k \in {0, 1}, NEW d,
           NEW q \in Seq(Descriptors), NEW x \in Descriptors
    PROVE  LongerBy(LineFrom(r, k, d, q), LineFrom(r, k, d, Append(q, x)), x.frame)
<1> DEFINE p == Append(q, x)
           a == Len(r) + k
           n == a + Len(q)
           old == LineFrom(r, k, d, q)
           new == LineFrom(r, k, d, p)
<1>1. Len(r) \in Nat /\ Len(q) \in Nat /\ a \in Nat /\ n \in Nat
  BY DEF Returns
<1>2. Len(p) = Len(q) + 1 /\ p[Len(q) + 1] = x /\ \A i \in 1 .. Len(q) : p[i] = q[i]
  OBVIOUS
<1>3. DOMAIN old = 1 .. n /\ DOMAIN new = 1 .. n + 1
  BY <1>1, <1>2 DEF LineFrom
<1>4. ASSUME NEW i \in 1 .. n
      PROVE  new[i] = old[i]
  <2>1. i \in 1 .. n + 1
    BY <1>1
  <2>2. CASE i <= a
    BY <1>1, <1>2, <2>1, <2>2 DEF LineFrom
  <2>3. CASE ~(i <= a)
    <3>1. i - a \in 1 .. Len(q)
      BY <1>1, <2>3
    <3>2. ~(i <= Len(r))
      BY <1>1, <2>3
    <3>3. new[i] = p[i - a].frame /\ old[i] = q[i - a].frame
      BY <1>1, <1>2, <2>1, <2>3, <3>2 DEF LineFrom
    <3> QED  BY <1>2, <3>1, <3>3
  <2> QED  BY <2>2, <2>3
<1>5. new[n + 1] = x.frame
  <2>1. n + 1 \in 1 .. n + 1 /\ ~(n + 1 <= Len(r)) /\ ~(n + 1 <= a) /\ (n + 1) - a = Len(q) + 1
    BY <1>1
  <2>2. new[n + 1] = p[(n + 1) - a].frame
    BY <1>1, <1>2, <2>1 DEF LineFrom
  <2> QED  BY <1>2, <2>1, <2>2
<1> HIDE DEF n
<1> HIDE DEF old, new
<1>6. LongerBy(old, new, x.frame)
  BY <1>1, <1>3, <1>4, <1>5 DEF LongerBy
<1> QED  BY <1>6 DEF old, new

\* A receiver takes the frame that is next.
LEMMA TakenNext ==
    ASSUME NEW r \in Returns, NEW d, NEW q \in Seq(Descriptors), q # <<>>
    PROVE  LineFrom(r, 1, Head(q), Tail(q)) = LineFrom(r, 0, d, q)
<1> DEFINE p == Tail(q)
           a == Len(r)
           old == LineFrom(r, 0, d, q)
           new == LineFrom(r, 1, Head(q), p)
<1>1. a \in Nat /\ Len(q) \in Nat \ {0} /\ Len(p) = Len(q) - 1 /\ Head(q) = q[1]
  BY DEF Returns
<1>2. \A i \in 1 .. Len(q) - 1 : p[i] = q[i + 1]
  BY <1>1
<1>3. DOMAIN old = 1 .. a + Len(q) /\ DOMAIN new = 1 .. a + Len(q)
  BY <1>1 DEF LineFrom
<1>4. ASSUME NEW i \in 1 .. a + Len(q)
      PROVE  new[i] = old[i]
  <2>1. i \in 1 .. a + 1 + Len(p) /\ i \in 1 .. a + 0 + Len(q)
    BY <1>1
  <2>2. CASE i <= a
    <3>1. new[i] = r[i].frame
      BY <2>1, <2>2 DEF LineFrom
    <3>2. old[i] = r[i].frame
      BY <2>1, <2>2 DEF LineFrom
    <3> QED  BY <3>1, <3>2
  <2>3. CASE i = a + 1
    <3>1. ~(i <= a) /\ i <= a + 1 /\ ~(i <= a + 0) /\ i - (a + 0) = 1
      BY <1>1, <2>3
    <3>2. new[i] = Head(q).frame
      BY <2>1, <3>1 DEF LineFrom
    <3>3. old[i] = q[i - (a + 0)].frame
      BY <2>1, <3>1 DEF LineFrom
    <3> QED  BY <1>1, <3>1, <3>2, <3>3
  <2>4. CASE a + 1 < i
    <3>1. /\ ~(i <= a) /\ ~(i <= a + 1) /\ ~(i <= a + 0)
          /\ i - (a + 1) \in 1 .. Len(q) - 1 /\ i - (a + 0) = (i - (a + 1)) + 1
      BY <1>1, <2>4
    <3>2. new[i] = p[i - (a + 1)].frame
      BY <2>1, <3>1 DEF LineFrom
    <3>3. old[i] = q[i - (a + 0)].frame
      BY <2>1, <3>1 DEF LineFrom
    <3> QED  BY <1>2, <3>1, <3>2, <3>3
  <2> QED  BY <1>1, <2>2, <2>3, <2>4
<1>5. old = [i \in 1 .. a + Len(q) |-> old[i]] /\ new = [i \in 1 .. a + Len(q) |-> new[i]]
  BY <1>3 DEF LineFrom
<1> HIDE DEF old, new
<1>6. old = new
  BY <1>4, <1>5
<1> QED  BY <1>6 DEF old, new

\* What it returns is what it had in its hands.
LEMMA ReturnedNext ==
    ASSUME NEW r \in Returns, NEW d, NEW c, NEW q \in Seq(Descriptors),
           NEW x \in [frame : SentFrames, payload : SentFrames], x.frame = d.frame
    PROVE  LineFrom(Append(r, x), 0, c, q) = LineFrom(r, 1, d, q)
<1> DEFINE p == Append(r, x)
           a == Len(r)
           old == LineFrom(r, 1, d, q)
           new == LineFrom(p, 0, c, q)
           N == 1 .. a + 1 + Len(q)
<1>1. a \in Nat /\ Len(q) \in Nat /\ Len(p) = a + 1 /\ p[a + 1] = x
        /\ \A i \in 1 .. a : p[i] = r[i]
  BY DEF Returns
<1>2. DOMAIN old = N /\ DOMAIN new = N
  BY <1>1 DEF LineFrom
<1>3. ASSUME NEW i \in N
      PROVE  new[i] = old[i]
  <2>1. i \in 1 .. Len(p) + 0 + Len(q) /\ i \in 1 .. a + 1 + Len(q)
    BY <1>1
  <2>2. CASE i <= a
    <3>1. i <= Len(p) /\ i \in 1 .. a
      BY <1>1, <2>2
    <3>2. new[i] = p[i].frame
      BY <2>1, <3>1 DEF LineFrom
    <3>3. old[i] = r[i].frame
      BY <2>1, <2>2 DEF LineFrom
    <3> QED  BY <1>1, <3>1, <3>2, <3>3
  <2>3. CASE i = a + 1
    <3>1. ~(i <= a) /\ i <= a + 1 /\ i <= Len(p)
      BY <1>1, <2>3
    <3>2. new[i] = p[i].frame
      BY <2>1, <3>1 DEF LineFrom
    <3>3. old[i] = d.frame
      BY <2>1, <3>1 DEF LineFrom
    <3> QED  BY <1>1, <2>3, <3>2, <3>3
  <2>4. CASE a + 1 < i
    <3>1. /\ ~(i <= a) /\ ~(i <= a + 1) /\ ~(i <= Len(p)) /\ ~(i <= Len(p) + 0)
          /\ i - (Len(p) + 0) = i - (a + 1)
      BY <1>1, <2>4
    <3>2. new[i] = q[i - (Len(p) + 0)].frame
      BY <2>1, <3>1 DEF LineFrom
    <3>3. old[i] = q[i - (a + 1)].frame
      BY <2>1, <3>1 DEF LineFrom
    <3> QED  BY <3>1, <3>2, <3>3
  <2> QED  BY <1>1, <2>2, <2>3, <2>4
<1>4. old = [i \in N |-> old[i]] /\ new = [i \in N |-> new[i]]
  BY <1>2 DEF LineFrom
<1> HIDE DEF old, new, N
<1>5. old = new
  BY <1>3, <1>4
<1> QED  BY <1>5 DEF old, new

\* A line is made of its parts.
LEMMA LineParts ==
    ASSUME NEW e
    PROVE  /\ Line(e) = LineFrom(returned[e], Taken(e), got[e], ring[e])
           /\ Line(e)' = LineFrom(returned'[e], Taken(e)', got'[e], ring'[e])
  BY DEF Line, LineFrom

\* A receiver takes a descriptor off its ring.
LEMMA Takes ==
    ASSUME TransportInv, NEW e \in Ends, recv_pc[e] = "poll", ring[e] # <<>>, Dequeue(e)
    PROVE  Bookkeeping'
<1> USE DEF TransportInv, Bookkeeping
<1>1. /\ got' = [got EXCEPT ![e] = Head(ring[e])]
      /\ ring' = [ring EXCEPT ![e] = Tail(ring[e])]
      /\ recv_pc' = [recv_pc EXCEPT ![e] = "taken"]
      /\ UNCHANGED <<slot_state, memory, alive, send_vars, returned, lost>>
  BY DEF Dequeue
<1>2. /\ got'[e] = Head(ring[e]) /\ ring'[e] = Tail(ring[e]) /\ recv_pc'[e] = "taken"
      /\ \A x \in Ends \ {e} : got'[x] = got[x] /\ ring'[x] = ring[x]
                               /\ recv_pc'[x] = recv_pc[x]
  BY <1>1 DEF TransportTypeOK
<1>3. /\ returned[e] \in Returns /\ ring[e] \in Seq(Descriptors)
      /\ Head(ring[e]) = ring[e][1] /\ 1 \in DOMAIN ring[e] /\ ring[e][1] \in Descriptors
      /\ DOMAIN ring'[e] = 1 .. Len(ring[e]) - 1
      /\ \A i \in 1 .. Len(ring[e]) - 1 : ring'[e][i] = ring[e][i + 1]
      /\ DOMAIN ring[e] = 1 .. Len(ring[e]) /\ Len(ring[e]) \in Nat
  <2>1. returned[e] \in Returns /\ ring[e] \in Seq(Descriptors)
    BY LineLength DEF Returns
  <2>2. \A q \in Seq(Descriptors) : q # <<>> =>
          /\ Head(q) = q[1] /\ 1 \in DOMAIN q /\ q[1] \in Descriptors
          /\ DOMAIN Tail(q) = 1 .. Len(q) - 1
          /\ \A i \in 1 .. Len(q) - 1 : Tail(q)[i] = q[i + 1]
          /\ DOMAIN q = 1 .. Len(q) /\ Len(q) \in Nat
    OBVIOUS
  <2> QED  BY <1>2, <2>1, <2>2
<1>4. \A x \in Ends : Line(x)' = Line(x)
  <2>1. Taken(e) = 0 /\ Taken(e)' = 1
    BY <1>2 DEF Taken, InHands
  <2>2. Line(e)' = Line(e)
    BY <1>1, <1>2, <1>3, <2>1, LineParts, TakenNext
  <2>3. \A x \in Ends \ {e} : Line(x)' = Line(x)
    BY <1>1, <1>2, SameLine DEF InHands
  <2> QED  BY <2>2, <2>3
<1>5. /\ \A x \in Ends : \A f : InLine(x, f)' <=> InLine(x, f)
      /\ \A f \in SentFrames : Target(f) \in Ends
  BY <1>4, FramesOfTasks, EndsAndSlots DEF InLine, Target
<1>6. Sends'
  BY <1>1 DEF Sends, SendOf, send_vars
<1>7. Recvs'
  <2>1. RecvOf(e)'
    BY <1>1, <1>2, <1>3 DEF RecvOf, Recvs
  <2>2. \A x \in Ends \ {e} : RecvOf(x)'
    BY <1>1, <1>2 DEF RecvOf, Recvs, InHands
  <2> QED  BY <2>1, <2>2 DEF Recvs
<1>8. Lines'
  BY <1>1, <1>4 DEF Lines, LineOf, send_vars
<1>9. Outcomes'
  BY <1>1, <1>5, EndsAndSlots DEF Outcomes, Target, send_vars
<1>10. ASSUME NEW s
       PROVE  /\ \A i \in DOMAIN ring'[e] : Queued(e, i, s)' <=> Queued(e, i + 1, s)
              /\ Receiver(e, s)' <=> Queued(e, 1, s)
              /\ ~Receiver(e, s)
              /\ \A x \in Ends \ {e} : /\ Receiver(x, s)' <=> Receiver(x, s)
                                       /\ \A i : Queued(x, i, s)' <=> Queued(x, i, s)
              /\ \A t \in Tasks : Sender(t, s)' <=> Sender(t, s)
  BY <1>1, <1>2, <1>3 DEF Queued, Receiver, Sender, send_vars
<1>11. Filled'
  <2>1. \A t \in Tasks, s \in Slots : Sender(t, s)' => memory'[s] = sending'[t].frame
    BY <1>1, <1>10 DEF Filled, send_vars
  <2>2. \A s \in Slots : Receiver(e, s)' => memory'[s] = got'[e].frame
    BY <1>1, <1>2, <1>3, <1>10 DEF Filled
  <2>3. \A x \in Ends \ {e}, s \in Slots : Receiver(x, s)' => memory'[s] = got'[x].frame
    BY <1>1, <1>2, <1>10 DEF Filled
  <2>4. ASSUME NEW s \in Slots, NEW i \in DOMAIN ring'[e], Queued(e, i, s)'
        PROVE  memory'[s] = ring'[e][i].frame
    <3>1. i + 1 \in DOMAIN ring[e] /\ ring'[e][i] = ring[e][i + 1]
      BY <1>3
    <3> QED  BY <1>1, <1>10, <2>4, <3>1 DEF Filled
  <2>5. \A x \in Ends \ {e}, s \in Slots : \A i \in DOMAIN ring'[x] :
          Queued(x, i, s)' => memory'[s] = ring'[x][i].frame
    BY <1>1, <1>2, <1>10 DEF Filled
  <2>6. \A s \in lost' : /\ memory'[s] \in SentFrames /\ outcome'[memory'[s]] # "none"
                         /\ ~InLine(Target(memory[s]), memory[s])'
    BY <1>1, <1>5 DEF Filled, Target, send_vars
  <2> QED  BY <1>1, <2>1, <2>2, <2>3, <2>4, <2>5, <2>6 DEF Filled
<1>12. Covered'
  <2>1. ASSUME NEW s \in Slots
        PROVE  Held(s)' <=> Held(s)
    <3>1. (\E i \in DOMAIN ring[e] : Queued(e, i, s))
            <=> Queued(e, 1, s) \/ \E i \in DOMAIN ring'[e] : Queued(e, i + 1, s)
      <4>1. \A i \in DOMAIN ring[e] : i = 1 \/ (i - 1 \in DOMAIN ring'[e] /\ (i - 1) + 1 = i)
        BY <1>3
      <4>2. \A i \in DOMAIN ring'[e] : i + 1 \in DOMAIN ring[e]
        BY <1>3
      <4> QED  BY <1>3, <4>1, <4>2
    <3>2. (\E i \in DOMAIN ring'[e] : Queued(e, i, s)')
            <=> (\E i \in DOMAIN ring'[e] : Queued(e, i + 1, s))
      BY <1>10
    <3>3. \A x \in Ends \ {e} : (\E i \in DOMAIN ring'[x] : Queued(x, i, s)')
                                  <=> (\E i \in DOMAIN ring[x] : Queued(x, i, s))
      BY <1>2, <1>10
    <3>4. \A x \in Ends : Receiver(x, s)' \/ (\E i \in DOMAIN ring'[x] : Queued(x, i, s)')
                      <=> Receiver(x, s) \/ (\E i \in DOMAIN ring[x] : Queued(x, i, s))
      BY <1>10, <3>1, <3>2, <3>3
    <3>5. Held(s) <=> \/ \E t \in Tasks : Sender(t, s)
                      \/ \E x \in Ends : Receiver(x, s) \/ (\E i \in DOMAIN ring[x] : Queued(x, i, s))
                      \/ s \in lost
      BY DEF Held
    <3>6. Held(s)' <=> \/ \E t \in Tasks : Sender(t, s)'
                       \/ \E x \in Ends : Receiver(x, s)'
                                          \/ (\E i \in DOMAIN ring'[x] : Queued(x, i, s)')
                       \/ s \in lost'
      BY DEF Held
    <3> QED  BY <1>1, <1>10, <3>4, <3>5, <3>6
  <2> QED  BY <1>1, <2>1 DEF Covered
<1> QED  BY <1>6, <1>7, <1>8, <1>9, <1>11, <1>12

\* It copies the payload out: the frame was the one written there.
LEMMA Copies ==
    ASSUME TransportInv, NEW e \in Ends, CopyOut(e)
    PROVE  Bookkeeping'
<1> USE DEF TransportInv, Bookkeeping
<1> DEFINE x == [frame |-> got[e].frame, payload |-> Payload(got[e])]
<1>1. /\ recv_pc[e] = "copy" /\ InHands(e) /\ Taken(e) = 1 /\ got[e] \in Descriptors
  BY DEF CopyOut, InHands, Taken, Recvs, RecvOf
<1>2. x.payload = got[e].frame /\ x \in [frame : SentFrames, payload : SentFrames]
  <2>1. got[e].slot # NoSlot => got[e].slot \in Slots /\ Receiver(e, got[e].slot)
    BY <1>1 DEF Descriptors, Receiver
  <2>2. Payload(got[e]) = got[e].frame
    BY <2>1 DEF Payload, Filled
  <2> QED  BY <1>1, <2>2 DEF Descriptors
<1>3. /\ returned' = [returned EXCEPT ![e] = Append(returned[e], x)]
      /\ recv_pc' = [recv_pc EXCEPT ![e] = IF got[e].slot = NoSlot THEN "idle" ELSE "free"]
      /\ got' = IF got[e].slot = NoSlot THEN [got EXCEPT ![e] = Nothing] ELSE got
      /\ UNCHANGED <<slot_state, memory, ring, alive, send_vars, lost>>
  BY DEF CopyOut
<1>4. returned[e] \in Returns /\ ring[e] \in Seq(Descriptors)
  BY LineLength DEF Returns
<1> HIDE DEF x
<1>5. /\ returned'[e] = Append(returned[e], x)
      /\ recv_pc'[e] = IF got[e].slot = NoSlot THEN "idle" ELSE "free"
      /\ got[e].slot # NoSlot => got'[e] = got[e]
      /\ \A y \in Ends \ {e} : returned'[y] = returned[y] /\ got'[y] = got[y]
                               /\ recv_pc'[y] = recv_pc[y]
  BY <1>3 DEF TransportTypeOK
<1>6. x.frame = got[e].frame
  BY DEF x
<1>7. ~InHands(e)' /\ Taken(e)' = 0
  BY <1>5 DEF InHands, Taken
<1>8. \A y \in Ends : Line(y)' = Line(y)
  <2>1. Line(e)' = Line(e)
    BY <1>1, <1>2, <1>3, <1>4, <1>5, <1>6, <1>7, LineParts, ReturnedNext
  <2>2. \A y \in Ends \ {e} : Line(y)' = Line(y)
    BY <1>3, <1>5, SameLine DEF InHands
  <2> QED  BY <2>1, <2>2
<1>9. /\ \A y \in Ends : \A f : InLine(y, f)' <=> InLine(y, f)
      /\ \A f \in SentFrames : Target(f) \in Ends
  BY <1>8, FramesOfTasks, EndsAndSlots DEF InLine, Target
<1>10. Sends'
  BY <1>3 DEF Sends, SendOf, send_vars
<1>11. Recvs'
  <2>1. RecvOf(e)'
    <3>1. /\ Len(returned'[e]) = Len(returned[e]) + 1 /\ Len(returned[e]) \in Nat
          /\ DOMAIN returned'[e] = 1 .. Len(returned[e]) + 1
          /\ DOMAIN returned[e] = 1 .. Len(returned[e])
          /\ returned'[e][Len(returned[e]) + 1] = x
          /\ \A i \in 1 .. Len(returned[e]) : returned'[e][i] = returned[e][i]
      BY <1>2, <1>4, <1>5 DEF Returns
    <3>2. Len(returned'[e]) # 0 /\ returned'[e][Len(returned'[e])] = x
      BY <3>1
    <3>3. ASSUME NEW i \in DOMAIN returned'[e]
          PROVE  returned'[e][i].payload = returned'[e][i].frame
      <4>1. i \in 1 .. Len(returned[e]) \/ i = Len(returned[e]) + 1
        BY <3>1
      <4> QED  BY <1>2, <1>6, <3>1, <4>1 DEF Recvs, RecvOf
    <3> QED  BY <1>1, <1>5, <1>6, <1>7, <3>2, <3>3 DEF RecvOf
  <2>2. \A y \in Ends \ {e} : RecvOf(y)'
    BY <1>3, <1>5 DEF RecvOf, Recvs, InHands
  <2> QED  BY <2>1, <2>2 DEF Recvs
<1>12. Lines'
  BY <1>3, <1>8 DEF Lines, LineOf, send_vars
<1>13. Outcomes'
  BY <1>3, <1>9, EndsAndSlots DEF Outcomes, Target, send_vars
<1>14. \A s \in Slots : \A y \in Ends : Receiver(y, s)' <=> Receiver(y, s) /\ got'[y] = got[y]
  BY <1>1, <1>5, EndsAndSlots DEF Receiver
<1>15. \A s \in Slots : \A y \in Ends : Receiver(y, s)' <=> Receiver(y, s)
  BY <1>1, <1>5, EndsAndSlots DEF Receiver
<1>16. Filled'
  <2>1. \A s \in lost' : /\ memory'[s] \in SentFrames /\ outcome'[memory'[s]] # "none"
                         /\ ~InLine(Target(memory[s]), memory[s])'
    BY <1>3, <1>9 DEF Filled, Target, send_vars
  <2> QED  BY <1>3, <1>14, <2>1 DEF Filled, Sender, Queued, send_vars
<1>17. Covered'
  BY <1>3, <1>15 DEF Covered, Held, Sender, Queued, send_vars
<1> QED  BY <1>10, <1>11, <1>12, <1>13, <1>16, <1>17

\* A frame is at one place of one line.
LEMMA OnePlace ==
    ASSUME TransportInv, NEW e \in Ends, NEW i \in DOMAIN Line(e),
           NEW x \in Ends, NEW j \in DOMAIN Line(x), Line(e)[i] = Line(x)[j]
    PROVE  e = x /\ i = j
<1> USE DEF TransportInv, Bookkeeping
<1>1. PICK f \in SentFrames : f = Line(e)[i] /\ f = Line(x)[j]
  BY DEF Lines, LineOf
<1>2. e = x
  BY <1>1 DEF Lines, LineOf
<1>3. f[2] \in Nat
  <2>1. f[2] \in 1 .. Quota[f[1]]
    BY FramesOfTasks
  <2> QED  BY <2>1
<1>4. ~(i < j) /\ ~(j < i)
  <2>1. \A a, b \in DOMAIN Line(e) :
          a < b /\ Line(e)[a][1] = Line(e)[b][1] => Line(e)[a][2] < Line(e)[b][2]
    BY DEF Lines, LineOf
  <2>2. ~(f[2] < f[2])
    BY <1>3
  <2> QED  BY <1>1, <1>2, <2>1, <2>2
<1>5. i \in Nat /\ j \in Nat
  <2>1. \A n : 1 .. n \subseteq Nat
    OBVIOUS
  <2>2. DOMAIN Line(e) \subseteq Nat /\ DOMAIN Line(x) \subseteq Nat
    BY <2>1, LineLength
  <2> QED  BY <2>2
<1> QED  BY <1>2, <1>4, <1>5

\* The places of the slots that a receiver or a ring holds.
LEMMA Places ==
    ASSUME TransportInv, NEW e \in Ends, NEW s \in Slots
    PROVE  /\ Receiver(e, s) =>
                \E p \in DOMAIN Line(e) : /\ p <= Len(returned[e]) + Taken(e)
                                          /\ Line(e)[p] = memory[s]
           /\ \A i \in DOMAIN ring[e] : Queued(e, i, s) =>
                /\ Len(returned[e]) + Taken(e) + i \in DOMAIN Line(e)
                /\ Line(e)[Len(returned[e]) + Taken(e) + i] = memory[s]
<1> USE DEF TransportInv, Bookkeeping
<1>1. ASSUME Receiver(e, s)
      PROVE  \E p \in DOMAIN Line(e) : /\ p <= Len(returned[e]) + Taken(e)
                                       /\ Line(e)[p] = memory[s]
  <2>1. got[e].frame = memory[s]
    BY <1>1 DEF Filled
  <2>2. CASE InHands(e)
    <3>1. Len(returned[e]) + 1 <= Len(returned[e]) + Taken(e)
      BY <2>2, LineLength DEF Taken
    <3> QED  BY <2>1, <2>2, <3>1, InTheLine
  <2>3. CASE recv_pc[e] = "free"
    <3>1. Len(returned[e]) # 0 /\ returned[e][Len(returned[e])].frame = memory[s]
      BY <2>1, <2>3 DEF Recvs, RecvOf
    <3>2. /\ Len(returned[e]) \in 1 .. Len(returned[e])
          /\ Len(returned[e]) <= Len(returned[e]) + Taken(e)
      BY <3>1, LineLength
    <3> QED  BY <3>1, <3>2, InTheLine
  <2> QED  BY <1>1, <2>2, <2>3 DEF Receiver, InHands
<1>2. ASSUME NEW i \in DOMAIN ring[e], Queued(e, i, s)
      PROVE  /\ Len(returned[e]) + Taken(e) + i \in DOMAIN Line(e)
             /\ Line(e)[Len(returned[e]) + Taken(e) + i] = memory[s]
  <2>1. i \in 1 .. Len(ring[e])
    BY LineLength
  <2>2. ring[e][i].frame = memory[s]
    BY <1>2 DEF Filled
  <2> QED  BY <2>1, <2>2, InTheLine
<1> QED  BY <1>1, <1>2

\* No two of them hold the same slot.
Alone(s) ==
    /\ \A t, u \in Tasks : Sender(t, s) /\ Sender(u, s) => t = u
    /\ \A t \in Tasks : Sender(t, s) =>
         /\ \A e \in Ends : /\ ~Receiver(e, s)
                            /\ \A i \in DOMAIN ring[e] : ~Queued(e, i, s)
         /\ s \notin lost
    /\ \A e, x \in Ends : Receiver(e, s) =>
         /\ Receiver(x, s) => e = x
         /\ \A i \in DOMAIN ring[x] : ~Queued(x, i, s)
         /\ s \notin lost
    /\ \A e, x \in Ends : \A i \in DOMAIN ring[e] : \A j \in DOMAIN ring[x] :
         Queued(e, i, s) /\ Queued(x, j, s) => e = x /\ i = j
    /\ \A e \in Ends : \A i \in DOMAIN ring[e] : Queued(e, i, s) => s \notin lost

\* A slot is in one place: the frame that was written to it is.
LEMMA HeldOnce ==
    ASSUME TransportInv, NEW s \in Slots
    PROVE  Alone(s)
<1> USE DEF TransportInv, Bookkeeping
<1>1. PICK f : f = memory[s]
  OBVIOUS
<1>2. ASSUME NEW t \in Tasks, Sender(t, s)
      PROVE  /\ f \in SentFrames /\ f = <<t, begun[t]>> /\ outcome[f] = "none"
             /\ \A e \in Ends : ~InLine(e, f)
  <2>1. f = sending[t].frame /\ pc[t] \in Keeping /\ pc[t] # "idle"
    BY <1>1, <1>2 DEF Filled, Sender, Keeping
  <2>2. f = <<t, begun[t]>> /\ f \in SentFrames
    BY <2>1 DEF Sends, SendOf, Descriptors
  <2>3. f[1] = t /\ f[2] = begun[t]
    BY <2>2
  <2>4. begun[t] \in 1 .. Quota[t]
    BY <2>2, <2>3, FramesOfTasks
  <2>5. outcome[<<t, begun[t]>>] = "none"
    BY <2>1, <2>4 DEF Sends, SendOf
  <2>6. \A e \in Ends : ~InLine(e, f)
    BY <2>1, <2>3 DEF InLine, Lines, LineOf
  <2> QED  BY <2>2, <2>5, <2>6
<1>3. ASSUME NEW e \in Ends, Receiver(e, s)
      PROVE  \E p \in DOMAIN Line(e) : p <= Len(returned[e]) + Taken(e) /\ Line(e)[p] = f
  BY <1>1, <1>3, Places
<1>4. ASSUME NEW e \in Ends, NEW i \in DOMAIN ring[e], Queued(e, i, s)
      PROVE  /\ Len(returned[e]) + Taken(e) + i \in DOMAIN Line(e)
             /\ Line(e)[Len(returned[e]) + Taken(e) + i] = f
  BY <1>1, <1>4, Places
<1>5. ASSUME NEW e \in Ends, InLine(e, f)
      PROVE  s \notin lost
  BY <1>1, <1>5 DEF Filled, InLine, Lines, LineOf, Target
<1>6. ASSUME NEW e \in Ends, NEW i \in DOMAIN ring[e]
      PROVE  i \in Nat /\ ~(Len(returned[e]) + Taken(e) + i <= Len(returned[e]) + Taken(e))
  <2>1. i \in 1 .. Len(ring[e])
    BY LineLength
  <2> QED  BY <2>1, LineLength
<1>7. ASSUME NEW t \in Tasks, NEW u \in Tasks, Sender(t, s), Sender(u, s)
      PROVE  t = u
  BY <1>2, <1>7
<1>8. ASSUME NEW t \in Tasks, Sender(t, s)
      PROVE  /\ \A e \in Ends : /\ ~Receiver(e, s)
                                /\ \A i \in DOMAIN ring[e] : ~Queued(e, i, s)
             /\ s \notin lost
  <2>1. s \notin lost
    BY <1>1, <1>2, <1>8 DEF Filled
  <2> QED  BY <1>2, <1>3, <1>4, <1>8, <2>1 DEF InLine
<1>9. ASSUME NEW e \in Ends, NEW x \in Ends, Receiver(e, s)
      PROVE  /\ Receiver(x, s) => e = x
             /\ \A i \in DOMAIN ring[x] : ~Queued(x, i, s)
             /\ s \notin lost
  <2>1. PICK p \in DOMAIN Line(e) : p <= Len(returned[e]) + Taken(e) /\ Line(e)[p] = f
    BY <1>3, <1>9
  <2>2. Receiver(x, s) => e = x
    BY <1>3, <2>1, OnePlace
  <2>3. ASSUME NEW i \in DOMAIN ring[x], Queued(x, i, s)
        PROVE  FALSE
    <3>1. e = x /\ p = Len(returned[x]) + Taken(x) + i
      BY <1>4, <2>1, <2>3, OnePlace
    <3> QED  BY <1>6, <2>1, <3>1
  <2> QED  BY <1>5, <2>1, <2>2, <2>3 DEF InLine
<1>10. ASSUME NEW e \in Ends, NEW x \in Ends, NEW i \in DOMAIN ring[e],
              NEW j \in DOMAIN ring[x], Queued(e, i, s), Queued(x, j, s)
       PROVE  e = x /\ i = j
  <2>1. e = x /\ Len(returned[e]) + Taken(e) + i = Len(returned[x]) + Taken(x) + j
    BY <1>4, <1>10, OnePlace
  <2>2. i \in Nat /\ j \in Nat /\ Len(returned[e]) \in Nat /\ Taken(e) \in {0, 1}
    BY <1>6, LineLength
  <2>3. Len(returned[e]) + Taken(e) + i = Len(returned[e]) + Taken(e) + j
    BY <2>1
  <2>4. i = j
    BY <2>2, <2>3
  <2> QED  BY <2>1, <2>4
<1>11. ASSUME NEW e \in Ends, NEW i \in DOMAIN ring[e], Queued(e, i, s)
       PROVE  s \notin lost
  BY <1>4, <1>5, <1>11 DEF InLine
<1> QED  BY <1>7, <1>8, <1>9, <1>10, <1>11 DEF Alone

\* It gives a slot back that is in no other hands.
LEMMA Frees ==
    ASSUME TransportInv, NEW e \in Ends, FreeSlot(e)
    PROVE  Bookkeeping'
<1> USE DEF TransportInv, Bookkeeping
<1>0. PICK s : s = got[e].slot
  OBVIOUS
<1>1. /\ recv_pc[e] = "free"
      /\ slot_state' = [slot_state EXCEPT ![s] = "free"]
      /\ got' = [got EXCEPT ![e] = Nothing]
      /\ pc' = WakeSlotWaiters(pc)
      /\ recv_pc' = [recv_pc EXCEPT ![e] = "idle"]
      /\ UNCHANGED <<memory, ring, alive, sending, begun, outcome, returned, lost>>
  BY <1>0 DEF FreeSlot
<1>2. /\ s \in Slots
      /\ \A t \in Tasks : ~Sender(t, s)
      /\ \A x \in Ends \ {e} : ~Receiver(x, s)
      /\ \A x \in Ends : \A i \in DOMAIN ring[x] : ~Queued(x, i, s)
      /\ s \notin lost
  <2>1. s \in Slots /\ Receiver(e, s)
    BY <1>0, <1>1 DEF Recvs, RecvOf, Descriptors, Receiver
  <2> QED  BY <2>1, HeldOnce DEF Alone
<1>3. /\ recv_pc'[e] = "idle" /\ slot_state'[s] = "free"
      /\ \A x \in Ends \ {e} : got'[x] = got[x] /\ recv_pc'[x] = recv_pc[x]
      /\ \A r \in Slots \ {s} : slot_state'[r] = slot_state[r]
  BY <1>1, <1>2 DEF TransportTypeOK
<1>4. \A t \in Tasks : SamePlace(t)
  BY <1>1 DEF WakeSlotWaiters, SamePlace, Choosing, Keeping, Enqueued, FoundDead
<1>5. /\ ~InHands(e) /\ ~InHands(e)'
      /\ \A x \in Ends \ {e} : InHands(x)' <=> InHands(x)
  BY <1>1, <1>3 DEF InHands
<1>6. \A x \in Ends : Line(x)' = Line(x)
  <2>1. Line(e)' = Line(e)
    BY <1>1, <1>5 DEF Line, Taken
  <2>2. \A x \in Ends \ {e} : Line(x)' = Line(x)
    BY <1>1, <1>3, <1>5, SameLine
  <2> QED  BY <2>1, <2>2
<1>7. /\ \A x \in Ends : \A f : InLine(x, f)' <=> InLine(x, f)
      /\ \A f \in SentFrames : Target(f) \in Ends
  BY <1>6, FramesOfTasks, EndsAndSlots DEF InLine, Target
<1>8. Sends'
  BY <1>1, <1>4 DEF Sends, SendOf, SamePlace
<1>9. Recvs'
  BY <1>1, <1>3, <1>5 DEF Recvs, RecvOf
<1>10. Lines'
  BY <1>1, <1>4, <1>6, FramesOfTasks DEF Lines, LineOf, SamePlace
<1>11. Outcomes'
  BY <1>1, <1>4, <1>7, EndsAndSlots DEF Outcomes, Target, SamePlace
<1>12. \A r : /\ \A t \in Tasks : Sender(t, r)' <=> Sender(t, r)
              /\ ~Receiver(e, r)'
              /\ Receiver(e, r) <=> r = s
              /\ \A x \in Ends \ {e} : Receiver(x, r)' <=> Receiver(x, r)
              /\ \A x \in Ends : \A i : Queued(x, i, r)' <=> Queued(x, i, r)
  BY <1>0, <1>1, <1>3, <1>4 DEF Sender, Receiver, Queued, SamePlace
<1>13. Filled'
  <2>1. \A r \in lost' : /\ memory'[r] \in SentFrames /\ outcome'[memory'[r]] # "none"
                         /\ ~InLine(Target(memory[r]), memory[r])'
    BY <1>1, <1>7 DEF Filled, Target
  <2> QED  BY <1>1, <1>3, <1>12, <2>1 DEF Filled
<1>14. Covered'
  <2>1. \A r \in Slots \ {s} : Held(r)' <=> Held(r)
    BY <1>1, <1>12 DEF Held
  <2>2. ~Held(s)'
    BY <1>1, <1>2, <1>12 DEF Held
  <2> QED  BY <1>3, <2>1, <2>2 DEF Covered
<1> QED  BY <1>8, <1>9, <1>10, <1>11, <1>13, <1>14

\* A send puts its descriptor on the ring to the other end.
LEMMA Enqueues ==
    ASSUME TransportInv, NEW t \in Tasks, Enqueue(t),
           Len(ring[Other(End(t))]) < RingCapacity
    PROVE  Bookkeeping'
<1> USE DEF TransportInv, Bookkeeping
<1>0. PICK e \in Ends : e = Other(End(t))
  BY EndsAndSlots
<1>1. /\ pc[t] = "enqueue"
      /\ ring' = [ring EXCEPT ![e] = Append(ring[e], sending[t])]
      /\ pc' = [pc EXCEPT ![t] = "signal"]
      /\ UNCHANGED <<slot_state, memory, alive, sending, begun, outcome, recv_vars, lost>>
  BY <1>0 DEF Enqueue, Goto
<1>f. PICK f \in SentFrames : f = sending[t].frame /\ f = <<t, begun[t]>>
  BY <1>1 DEF Sends, SendOf, Descriptors
<1>2. /\ sending[t] \in Descriptors /\ pc'[t] = "signal"
      /\ ring'[e] = Append(ring[e], sending[t])
      /\ \A x \in Ends \ {e} : ring'[x] = ring[x]
      /\ \A u \in Tasks \ {t} : pc'[u] = pc[u]
      /\ f[1] = t /\ f[2] = begun[t] /\ Target(f) = e
  BY <1>0, <1>1, <1>f DEF TransportTypeOK, Sends, SendOf, Target
<1>3. outcome[f] = "none"
  <2>1. f[2] \in 1 .. Quota[f[1]]
    BY FramesOfTasks
  <2>2. begun[t] \in 1 .. Quota[t]
    BY <1>2, <2>1
  <2>3. outcome[<<t, begun[t]>>] = "none"
    BY <1>1, <2>2 DEF Sends, SendOf
  <2> QED  BY <1>f, <2>3
<1>4. PICK n \in Nat :
        /\ DOMAIN Line(e) = 1 .. n /\ DOMAIN Line(e)' = 1 .. n + 1
        /\ \A i \in 1 .. n : Line(e)'[i] = Line(e)[i]
        /\ Line(e)'[n + 1] = f
  <2>1. returned[e] \in Returns /\ ring[e] \in Seq(Descriptors) /\ Taken(e) \in {0, 1}
    BY LineLength DEF Returns
  <2>2. returned'[e] = returned[e] /\ Taken(e)' = Taken(e) /\ got'[e] = got[e]
    BY <1>1 DEF recv_vars, Taken, InHands
  <2>3. PICK r, k, d, q, x : /\ r = returned[e] /\ k = Taken(e) /\ d = got[e]
                              /\ q = ring[e] /\ x = sending[t]
    OBVIOUS
  <2>4. Line(e) = LineFrom(r, k, d, q) /\ Line(e)' = LineFrom(r, k, d, Append(q, x))
    BY <1>2, <2>2, <2>3, LineParts
  <2>5. r \in Returns /\ k \in {0, 1} /\ q \in Seq(Descriptors) /\ x \in Descriptors
    BY <1>2, <2>1, <2>3
  <2>6. LongerBy(LineFrom(r, k, d, q), LineFrom(r, k, d, Append(q, x)), x.frame)
    BY <2>5, EnqueuedLast
  <2>7. x.frame = f
    BY <1>f, <2>3
  <2> QED  BY <2>4, <2>6, <2>7 DEF LongerBy
<1>5. \A x \in Ends \ {e} : Line(x)' = Line(x)
  BY <1>1, <1>2, SameLine DEF InHands, recv_vars
<1>6. /\ \A g : InLine(e, g)' <=> InLine(e, g) \/ g = f
      /\ \A x \in Ends \ {e} : \A g : InLine(x, g)' <=> InLine(x, g)
      /\ \A g \in SentFrames : Target(g) \in Ends
  <2>1. ASSUME NEW g
        PROVE  InLine(e, g)' <=> InLine(e, g) \/ g = f
    <3>1. \A i \in 1 .. n + 1 : i \in 1 .. n \/ i = n + 1
      OBVIOUS
    <3>2. n + 1 \in 1 .. n + 1 /\ 1 .. n \subseteq 1 .. n + 1
      OBVIOUS
    <3> QED  BY <1>4, <3>1, <3>2 DEF InLine
  <2> QED  BY <1>5, <2>1, FramesOfTasks, EndsAndSlots DEF InLine, Target
<1>7. Sends'
  BY <1>1, <1>2, EndsAndSlots DEF Sends, SendOf, FoundDead
<1>8. Recvs'
  BY <1>1 DEF Recvs, RecvOf, InHands, recv_vars
<1>9. Lines'
  <2>1. \A u \in Tasks : pc'[u] \in Choosing \cup Keeping => pc[u] \in Choosing \cup Keeping /\ u # t
    BY <1>2 DEF Choosing, Keeping
  <2>2. \A x \in Ends \ {e} : LineOf(x)'
    BY <1>1, <1>5, <2>1, FramesOfTasks DEF Lines, LineOf
  <2>3. LineOf(e)'
    <3>1. ASSUME NEW i \in DOMAIN Line(e)'
          PROVE  LET g == Line(e)'[i] IN
                 /\ g \in SentFrames /\ Other(End(g[1])) = e
                 /\ g[2] <= begun'[g[1]]
                 /\ pc'[g[1]] \in Choosing \cup Keeping => g[2] # begun'[g[1]]
      <4>1. CASE i \in 1 .. n
        BY <1>1, <1>4, <2>1, <4>1, FramesOfTasks DEF Lines, LineOf
      <4>2. CASE i = n + 1
        <5>1. begun[t] <= begun[t]
          BY DEF TransportTypeOK
        <5> QED  BY <1>0, <1>1, <1>2, <1>4, <2>1, <4>2, <5>1
      <4> QED  BY <1>4, <4>1, <4>2
    <3>2. ASSUME NEW i \in DOMAIN Line(e)', NEW j \in DOMAIN Line(e)', i < j,
                 Line(e)'[i][1] = Line(e)'[j][1]
          PROVE  Line(e)'[i][2] < Line(e)'[j][2]
      <4>1. i \in 1 .. n /\ (j \in 1 .. n \/ j = n + 1)
        BY <1>4, <3>2
      <4>2. CASE j \in 1 .. n
        BY <1>4, <3>2, <4>1, <4>2 DEF Lines, LineOf
      <4>3. CASE j = n + 1
        <5> PICK g \in SentFrames : g = Line(e)[i]
          BY <1>4, <4>1 DEF Lines, LineOf
        <5>1. g[1] = t /\ Line(e)'[j] = f /\ Line(e)'[i] = g
          BY <1>2, <1>4, <3>2, <4>1, <4>3
        <5>2. g[2] <= begun[t] /\ g[2] # begun[t]
          BY <1>1, <1>4, <4>1, <5>1 DEF Lines, LineOf, Keeping
        <5>3. g[2] \in 1 .. Quota[g[1]] /\ begun[t] \in Nat
          BY FramesOfTasks DEF TransportTypeOK
        <5>4. g[2] \in Nat
          BY <5>3
        <5> QED  BY <1>2, <5>1, <5>2, <5>3, <5>4
      <4> QED  BY <4>1, <4>2, <4>3
    <3> QED  BY <3>1, <3>2 DEF LineOf
  <2> QED  BY <2>2, <2>3 DEF Lines
<1>10. Outcomes'
  <2>1. ASSUME NEW g \in SentFrames
        PROVE  /\ outcome'[g] = "ok" => InLine(Target(g), g)'
               /\ outcome'[g] \in {"failed", "closed", "dropped"} /\ Target(g) \in alive'
                    => ~InLine(Target(g), g)'
    <3> PICK x \in Ends : x = Target(g)
      BY <1>6
    <3>1. InLine(Target(g), g)' <=> InLine(x, g)'
      BY DEF Target
    <3> QED  BY <1>1, <1>3, <1>6, <3>1 DEF Outcomes
  <2>2. ASSUME NEW u \in Tasks, pc'[u] \in Enqueued
        PROVE  InLine(Other(End(u)), sending[u].frame)'
    <3>1. CASE u = t
      BY <1>0, <1>1, <1>6, <1>f, <3>1
    <3>2. CASE u # t
      <4> PICK x \in Ends : x = Other(End(u))
        BY EndsAndSlots
      <4>1. InLine(x, sending[u].frame)
        BY <1>2, <2>2, <3>2 DEF Outcomes
      <4> QED  BY <1>1, <1>6, <4>1
    <3> QED  BY <3>1, <3>2
  <2> QED  BY <1>1, <2>1, <2>2 DEF Outcomes
<1>k. PICK k \in Nat : k = Len(ring[e])
  BY LineLength
<1>11. /\ DOMAIN ring'[e] = 1 .. k + 1 /\ DOMAIN ring[e] = 1 .. k
       /\ ring'[e][k + 1] = sending[t]
       /\ \A i \in 1 .. k : ring'[e][i] = ring[e][i]
  <2>1. ring[e] \in Seq(Descriptors)
    BY LineLength
  <2> QED  BY <1>2, <1>k, <2>1
<1>12. ASSUME NEW s
       PROVE  /\ \A u \in Tasks : Sender(u, s)' <=> Sender(u, s) /\ u # t
              /\ \A x \in Ends : Receiver(x, s)' <=> Receiver(x, s)
              /\ \A x \in Ends \ {e} : \A i : Queued(x, i, s)' <=> Queued(x, i, s)
              /\ \A i \in 1 .. k : Queued(e, i, s)' <=> Queued(e, i, s)
              /\ Queued(e, k + 1, s)' <=> Sender(t, s)
  <2>1. \A u \in Tasks : Sender(u, s)' <=> Sender(u, s) /\ u # t
    BY <1>1, <1>2 DEF Sender, Keeping
  <2>2. \A x \in Ends : Receiver(x, s)' <=> Receiver(x, s)
    BY <1>1 DEF Receiver, recv_vars
  <2>3. \A x \in Ends \ {e} : \A i : Queued(x, i, s)' <=> Queued(x, i, s)
    BY <1>2 DEF Queued
  <2>4. \A i \in 1 .. k : Queued(e, i, s)' <=> Queued(e, i, s)
    BY <1>11 DEF Queued
  <2>5. Queued(e, k + 1, s)' <=> Sender(t, s)
    BY <1>1, <1>11 DEF Queued, Sender, Keeping
  <2> QED  BY <2>1, <2>2, <2>3, <2>4, <2>5
<1>13. Filled'
  <2>1. \A u \in Tasks, s \in Slots : Sender(u, s)' => memory'[s] = sending'[u].frame
    BY <1>1, <1>12 DEF Filled
  <2>2. \A x \in Ends, s \in Slots : Receiver(x, s)' => memory'[s] = got'[x].frame
    BY <1>1, <1>12 DEF Filled, recv_vars
  <2>3. ASSUME NEW s \in Slots, NEW i \in DOMAIN ring'[e], Queued(e, i, s)'
        PROVE  memory'[s] = ring'[e][i].frame
    <3>1. CASE i \in 1 .. k
      BY <1>1, <1>11, <1>12, <2>3, <3>1 DEF Filled
    <3>2. CASE i = k + 1
      BY <1>1, <1>11, <1>12, <2>3, <3>2 DEF Filled
    <3> QED  BY <1>11, <3>1, <3>2
  <2>4. \A x \in Ends \ {e}, s \in Slots : \A i \in DOMAIN ring'[x] :
          Queued(x, i, s)' => memory'[s] = ring'[x][i].frame
    BY <1>1, <1>2, <1>12 DEF Filled
  <2>5. ASSUME NEW s \in lost
        PROVE  /\ memory[s] \in SentFrames /\ outcome[memory[s]] # "none"
               /\ ~InLine(Target(memory[s]), memory[s])'
    <3>1. /\ memory[s] \in SentFrames /\ outcome[memory[s]] # "none"
          /\ ~InLine(Target(memory[s]), memory[s])
      BY DEF Filled
    <3>2. memory[s] # f
      BY <1>3, <3>1
    <3> PICK x \in Ends : x = Target(memory[s])
      BY <1>6, <3>1
    <3> PICK g : g = memory[s]
      OBVIOUS
    <3>3. ~InLine(x, g)'
      BY <1>6, <3>1, <3>2
    <3>4. InLine(Target(memory[s]), memory[s])' <=> InLine(x, g)'
      BY <1>1 DEF Target
    <3> QED  BY <3>1, <3>3, <3>4
  <2> QED  BY <1>1, <2>1, <2>2, <2>3, <2>4, <2>5 DEF Filled
<1>14. Covered'
  <2>1. ASSUME NEW s \in Slots
        PROVE  Held(s)' <=> Held(s)
    <3>1. \A x \in Ends \ {e} : (\E i \in DOMAIN ring'[x] : Queued(x, i, s)')
                                  <=> (\E i \in DOMAIN ring[x] : Queued(x, i, s))
      BY <1>2, <1>12
    <3>2. (\E i \in DOMAIN ring'[e] : Queued(e, i, s)')
            <=> Sender(t, s) \/ (\E i \in DOMAIN ring[e] : Queued(e, i, s))
      <4>1. k + 1 \in 1 .. k + 1 /\ \A i \in 1 .. k + 1 : i = k + 1 \/ i \in 1 .. k
        OBVIOUS
      <4>2. 1 .. k \subseteq 1 .. k + 1
        OBVIOUS
      <4> QED  BY <1>11, <1>12, <4>1, <4>2
    <3>3. (\E x \in Ends : \E i \in DOMAIN ring'[x] : Queued(x, i, s)')
            <=> Sender(t, s) \/ (\E x \in Ends : \E i \in DOMAIN ring[x] : Queued(x, i, s))
      BY <3>1, <3>2
    <3>4. (\E u \in Tasks : Sender(u, s)') \/ Sender(t, s) <=> \E u \in Tasks : Sender(u, s)
      BY <1>12
    <3>5. (\E x \in Ends : Receiver(x, s)') <=> \E x \in Ends : Receiver(x, s)
      BY <1>12
    <3> QED  BY <1>1, <3>3, <3>4, <3>5 DEF Held
  <2> QED  BY <1>1, <2>1 DEF Covered
<1> QED  BY <1>7, <1>8, <1>9, <1>10, <1>13, <1>14

\* A send takes a slot that is in no hands, and writes its payload there.
LEMMA Allocates ==
    ASSUME TransportInv, NEW t \in Tasks, AllocSlot(t)
    PROVE  Bookkeeping'
<1> USE DEF TransportInv, Bookkeeping
<1>1. PICK s \in Slots :
        /\ pc[t] = "alloc" /\ slot_state[s] = "free"
        /\ slot_state' = [slot_state EXCEPT ![s] = "allocated"]
        /\ memory' = [memory EXCEPT ![s] = sending[t].frame]
        /\ sending' = [sending EXCEPT ![t].slot = s]
        /\ pc' = [pc EXCEPT ![t] = "mark"]
        /\ UNCHANGED <<ring, alive, begun, outcome, recv_vars, lost>>
  BY DEF AllocSlot, Goto
<1>2. sending[t] \in Descriptors /\ sending[t].frame = <<t, begun[t]>>
  BY <1>1 DEF Sends, SendOf
<1>3. /\ slot_state'[s] = "allocated" /\ memory'[s] = sending[t].frame
      /\ \A r \in Slots \ {s} : slot_state'[r] = slot_state[r] /\ memory'[r] = memory[r]
      /\ pc'[t] = "mark" /\ \A u \in Tasks \ {t} : pc'[u] = pc[u] /\ sending'[u] = sending[u]
  BY <1>1 DEF TransportTypeOK
<1>4. /\ sending'[t] \in Descriptors /\ sending'[t].frame = sending[t].frame
      /\ sending'[t].slot = s
  <2>1. sending'[t] = [sending[t] EXCEPT !.slot = s]
    BY <1>1 DEF TransportTypeOK
  <2> QED  BY <1>2, <2>1 DEF Descriptors
<1>5. \A e \in Ends : Line(e)' = Line(e)
  BY <1>1, SameLine DEF InHands, recv_vars
<1>6. /\ \A e \in Ends : \A f : InLine(e, f)' <=> InLine(e, f)
      /\ \A f \in SentFrames : Target(f) \in Ends
  BY <1>5, FramesOfTasks, EndsAndSlots DEF InLine, Target
<1>7. ~Held(s)
  BY <1>1 DEF Covered
<1>8. Sends'
  <2>1. SendOf(t)'
    BY <1>1, <1>2, <1>3, <1>4, EndsAndSlots DEF Sends, SendOf, FoundDead
  <2>2. \A u \in Tasks \ {t} : SendOf(u)'
    BY <1>1, <1>3 DEF Sends, SendOf
  <2> QED  BY <2>1, <2>2 DEF Sends
<1>9. Recvs'
  BY <1>1 DEF Recvs, RecvOf, InHands, recv_vars
<1>10. Lines'
  <2>1. \A u \in Tasks : pc'[u] \in Choosing \cup Keeping => pc[u] \in Choosing \cup Keeping
    BY <1>1, <1>3 DEF Choosing
  <2> QED  BY <1>1, <1>5, <2>1, FramesOfTasks DEF Lines, LineOf
<1>11. Outcomes'
  <2>1. \A u \in Tasks : pc'[u] \in Enqueued => pc[u] \in Enqueued /\ u # t
    BY <1>3 DEF Enqueued
  <2> QED  BY <1>1, <1>3, <1>6, <2>1, EndsAndSlots DEF Outcomes, Target
<1>12. ASSUME NEW r \in Slots
       PROVE  /\ \A u \in Tasks \ {t} : Sender(u, r)' <=> Sender(u, r)
              /\ Sender(t, r)' <=> r = s
              /\ ~Sender(t, r)
              /\ \A x \in Ends : Receiver(x, r)' <=> Receiver(x, r)
              /\ \A x \in Ends : \A i : Queued(x, i, r)' <=> Queued(x, i, r)
  <2>1. \A u \in Tasks \ {t} : Sender(u, r)' <=> Sender(u, r)
    BY <1>3 DEF Sender
  <2>2. Sender(t, r)' <=> r = s
    BY <1>3, <1>4 DEF Sender, Keeping
  <2>3. ~Sender(t, r)
    BY <1>1 DEF Sender, Keeping
  <2>4. \A x \in Ends : Receiver(x, r)' <=> Receiver(x, r)
    BY <1>1 DEF Receiver, recv_vars
  <2>5. \A x \in Ends : \A i : Queued(x, i, r)' <=> Queued(x, i, r)
    BY <1>1 DEF Queued
  <2> QED  BY <2>1, <2>2, <2>3, <2>4, <2>5
<1>13. Filled'
  <2>1. ASSUME NEW u \in Tasks, NEW r \in Slots, Sender(u, r)'
        PROVE  memory'[r] = sending'[u].frame
    <3>1. CASE u = t
      BY <1>3, <1>4, <1>12, <2>1, <3>1
    <3>2. CASE u # t
      <4>1. Sender(u, r) /\ r # s
        BY <1>7, <1>12, <2>1, <3>2 DEF Held
      <4> QED  BY <1>3, <3>2, <4>1 DEF Filled
    <3> QED  BY <3>1, <3>2
  <2>2. ASSUME NEW x \in Ends, NEW r \in Slots, Receiver(x, r)'
        PROVE  memory'[r] = got'[x].frame
    <3>1. Receiver(x, r) /\ r # s
      BY <1>7, <1>12, <2>2 DEF Held
    <3> QED  BY <1>1, <1>3, <3>1 DEF Filled, recv_vars
  <2>3. ASSUME NEW x \in Ends, NEW r \in Slots, NEW i \in DOMAIN ring'[x], Queued(x, i, r)'
        PROVE  memory'[r] = ring'[x][i].frame
    <3>1. Queued(x, i, r) /\ r # s /\ i \in DOMAIN ring[x]
      BY <1>1, <1>7, <1>12, <2>3 DEF Held
    <3> QED  BY <1>1, <1>3, <3>1 DEF Filled
  <2>4. ASSUME NEW r \in lost
        PROVE  /\ memory'[r] \in SentFrames /\ outcome'[memory'[r]] # "none"
               /\ ~InLine(Target(memory[r]), memory[r])'
    <3>1. r \in Slots /\ r # s
      BY <1>7 DEF Held, TransportTypeOK
    <3>2. PICK f \in SentFrames : f = memory[r] /\ memory'[r] = f
      BY <1>3, <3>1 DEF Filled
    <3>3. outcome[f] # "none" /\ ~InLine(Target(f), f)
      BY <3>2 DEF Filled
    <3>4. PICK x \in Ends : x = Target(f)
      BY <1>6
    <3>5. InLine(Target(memory[r]), memory[r])' <=> InLine(x, f)'
      BY <3>2, <3>4 DEF Target
    <3> QED  BY <1>1, <1>6, <3>2, <3>3, <3>4, <3>5
  <2> QED  BY <1>1, <2>1, <2>2, <2>3, <2>4 DEF Filled
<1>14. Covered'
  <2>1. Held(s)'
    BY <1>12 DEF Held
  <2>2. ASSUME NEW r \in Slots \ {s}
        PROVE  Held(r)' <=> Held(r)
    <3>1. (\E u \in Tasks : Sender(u, r)') <=> \E u \in Tasks : Sender(u, r)
      BY <1>12, <2>2
    <3>2. (\E x \in Ends : Receiver(x, r)') <=> \E x \in Ends : Receiver(x, r)
      BY <1>12
    <3>3. (\E x \in Ends : \E i \in DOMAIN ring'[x] : Queued(x, i, r)')
            <=> \E x \in Ends : \E i \in DOMAIN ring[x] : Queued(x, i, r)
      BY <1>1, <1>12
    <3> QED  BY <1>1, <3>1, <3>2, <3>3 DEF Held
  <2> QED  BY <1>3, <2>1, <2>2 DEF Covered
<1> QED  BY <1>8, <1>9, <1>10, <1>11, <1>13, <1>14

\* A send begins: its frame is in no line yet.
LEMMA Begins ==
    ASSUME TransportInv, NEW t \in Tasks, NEW kind \in PayloadKinds, SendBegin(t, kind)
    PROVE  Bookkeeping'
<1> USE DEF TransportInv, Bookkeeping
<1>f. PICK f : f = <<t, begun[t] + 1>>
  OBVIOUS
<1>1. /\ pc[t] = "idle" /\ begun[t] < Quota[t]
      /\ begun' = [begun EXCEPT ![t] = begun[t] + 1]
      /\ \/ UNCHANGED <<pc, sending>> /\ outcome' = [outcome EXCEPT ![f] = "closed"]
         \/ /\ sending' = [sending EXCEPT ![t] = [frame |-> f, slot |-> NoSlot]]
            /\ \E q \in Choosing \cup {"enqueue"} : pc' = [pc EXCEPT ![t] = q]
            /\ UNCHANGED outcome
      /\ UNCHANGED <<slot_state, memory, ring, alive, recv_vars, lost>>
  <2>1. /\ pc[t] = "idle" /\ begun[t] < Quota[t]
        /\ begun' = [begun EXCEPT ![t] = begun[t] + 1]
        /\ UNCHANGED <<slot_state, memory, ring, alive, recv_vars, lost>>
    BY DEF SendBegin
  <2>2. CASE closed[End(t)]
    BY <2>1, <2>2, <1>f DEF SendBegin
  <2>3. CASE ~closed[End(t)]
    <3> DEFINE q == CASE kind = "inline" -> "enqueue"
                      [] kind = "slot" -> "alloc"
                      [] OTHER -> "too_large"
    <3>1. q \in Choosing \cup {"enqueue"}
      BY DEF Choosing
    <3>2. pc' = [pc EXCEPT ![t] = q]
      BY <2>3 DEF SendBegin, Goto
    <3>3. /\ sending' = [sending EXCEPT ![t] = [frame |-> f, slot |-> NoSlot]]
          /\ UNCHANGED outcome
      BY <2>3, <1>f DEF SendBegin
    <3> HIDE DEF q
    <3> QED  BY <2>1, <3>1, <3>2, <3>3
  <2> QED  BY <2>2, <2>3
<1>2. /\ f \in SentFrames /\ f[1] = t /\ f[2] = begun[t] + 1
      /\ begun[t] \in Nat /\ begun'[t] = begun[t] + 1
      /\ \A u \in Tasks \ {t} : begun'[u] = begun[u]
      /\ outcome[f] = "none"
  <2>1. begun[t] \in Nat /\ Quota[t] \in Nat
    BY TransportAssumption DEF TransportTypeOK
  <2>2. begun[t] + 1 \in 1 .. Quota[t] /\ begun[t] + 1 > begun[t]
    BY <1>1, <2>1
  <2>3. f \in SentFrames /\ f[1] = t /\ f[2] = begun[t] + 1
    BY <1>f, <2>2, FramesOfTasks
  <2>4. outcome[<<t, begun[t] + 1>>] = "none"
    BY <2>2 DEF Sends, SendOf
  <2> QED  BY <1>1, <1>f, <2>1, <2>3, <2>4 DEF TransportTypeOK
<1>3. \A e \in Ends : Line(e)' = Line(e)
  BY <1>1, SameLine DEF InHands, recv_vars
<1>4. /\ \A e \in Ends : \A g : InLine(e, g)' <=> InLine(e, g)
      /\ \A g \in SentFrames : Target(g) \in Ends
  BY <1>3, FramesOfTasks, EndsAndSlots DEF InLine, Target
<1>5. \A e \in Ends : ~InLine(e, f)
  <2> SUFFICES ASSUME NEW e \in Ends, NEW i \in DOMAIN Line(e), Line(e)[i] = f
               PROVE  FALSE
    BY DEF InLine
  <2>1. f[2] <= begun[f[1]]
    BY DEF Lines, LineOf
  <2> QED  BY <1>2, <2>1
<1>6. \A g \in SentFrames \ {f} : outcome'[g] = outcome[g]
  BY <1>1 DEF TransportTypeOK
<1>7. outcome'[f] \in {"none", "closed"}
  BY <1>1, <1>2 DEF TransportTypeOK
<1>8. \A u \in Tasks \ {t} : pc'[u] = pc[u] /\ sending'[u] = sending[u]
  BY <1>1 DEF TransportTypeOK
<1>9. \/ pc'[t] = "idle" /\ outcome'[f] = "closed"
      \/ /\ pc'[t] \in Choosing \cup {"enqueue"} /\ outcome'[f] = "none"
         /\ sending'[t] = [frame |-> f, slot |-> NoSlot]
  BY <1>1, <1>2 DEF TransportTypeOK
<1>10. Sends'
  <2>1. ASSUME NEW u \in Tasks \ {t}
        PROVE  SendOf(u)'
    <3>1. \A n \in 1 .. Quota[u] : <<u, n>> \in SentFrames \ {f}
      BY <1>2, FramesOfTasks
    <3>2. \A n \in 1 .. Quota[u] : outcome'[<<u, n>>] = outcome[<<u, n>>]
      BY <3>1, <1>6
    <3> QED  BY <1>1, <1>2, <1>8, <3>2 DEF Sends, SendOf
  <2>2. SendOf(t)'
    <3>1. ASSUME NEW n \in 1 .. Quota[t],
                 n > begun'[t] \/ (n = begun'[t] /\ pc'[t] # "idle")
          PROVE  outcome'[<<t, n>>] = "none"
      <4>1. CASE n > begun'[t]
        <5>1. n > begun[t] /\ n # begun[t] + 1
          BY <1>2, <4>1
        <5>2. <<t, n>> \in SentFrames \ {f}
          BY <1>2, <5>1, FramesOfTasks
        <5> QED  BY <1>6, <5>1, <5>2 DEF Sends, SendOf
      <4>2. CASE n = begun'[t] /\ pc'[t] # "idle"
        BY <1>2, <1>9, <1>f, <4>2
      <4> QED  BY <3>1, <4>1, <4>2
    <3>2. pc'[t] # "idle" => sending'[t] \in Descriptors /\ sending'[t].frame = <<t, begun'[t]>>
      BY <1>2, <1>9, <1>f DEF Descriptors
    <3>3. pc'[t] # "mark" /\ pc'[t] \notin FoundDead
      BY <1>9 DEF FoundDead, Choosing
    <3> QED  BY <3>1, <3>2, <3>3 DEF SendOf
  <2> QED  BY <2>1, <2>2 DEF Sends
<1>11. Recvs'
  BY <1>1 DEF Recvs, RecvOf, InHands, recv_vars
<1>12. Lines'
  <2>1. ASSUME NEW g \in SentFrames, g[2] <= begun[g[1]],
               pc[g[1]] \in Choosing \cup Keeping => g[2] # begun[g[1]]
        PROVE  /\ g[2] <= begun'[g[1]]
               /\ pc'[g[1]] \in Choosing \cup Keeping => g[2] # begun'[g[1]]
    <3>1. g[2] \in Nat /\ g[1] \in Tasks
      <4>1. g[2] \in 1 .. Quota[g[1]] /\ g[1] \in Tasks
        BY FramesOfTasks
      <4> QED  BY <4>1
    <3>2. CASE g[1] = t
      <4>1. g[2] <= begun[t] + 1 /\ g[2] # begun[t] + 1
        BY <1>2, <2>1, <3>1, <3>2
      <4> QED  BY <1>2, <3>2, <4>1
    <3>3. CASE g[1] # t
      BY <1>2, <1>8, <2>1, <3>1, <3>3
    <3> QED  BY <3>2, <3>3
  <2> QED  BY <1>3, <2>1 DEF Lines, LineOf
<1>13. Outcomes'
  <2>1. \A g \in SentFrames : /\ outcome'[g] = "ok" => InLine(Target(g), g)
                              /\ outcome'[g] \in {"failed", "closed", "dropped"}
                                   /\ Target(g) \in alive => ~InLine(Target(g), g)
    BY <1>4, <1>5, <1>6, <1>7 DEF Outcomes
  <2>2. \A u \in Tasks : pc'[u] \in Enqueued => pc[u] \in Enqueued /\ u # t
    BY <1>8, <1>9 DEF Enqueued, Choosing
  <2> QED  BY <1>1, <1>4, <1>8, <2>1, <2>2, EndsAndSlots DEF Outcomes, Target
<1>14. \A s \in Slots :
         /\ \A u \in Tasks : Sender(u, s)' <=> Sender(u, s) /\ u # t
         /\ ~Sender(t, s)
         /\ \A x \in Ends : Receiver(x, s)' <=> Receiver(x, s)
         /\ \A x \in Ends : \A i : Queued(x, i, s)' <=> Queued(x, i, s)
  <2>1. ASSUME NEW s \in Slots
        PROVE  \A u \in Tasks : Sender(u, s)' <=> Sender(u, s) /\ u # t
    <3>1. \A u \in Tasks \ {t} : Sender(u, s)' <=> Sender(u, s)
      BY <1>8 DEF Sender
    <3>2. ~Sender(t, s)'
      BY <1>9, EndsAndSlots DEF Sender, Keeping, Choosing
    <3> QED  BY <3>1, <3>2
  <2>2. \A s \in Slots : ~Sender(t, s)
    BY <1>1 DEF Sender, Keeping
  <2> QED  BY <1>1, <2>1, <2>2 DEF Receiver, Queued, recv_vars
<1>15. Filled'
  <2>1. \A u \in Tasks, s \in Slots : Sender(u, s)' => memory'[s] = sending'[u].frame
    BY <1>1, <1>8, <1>14 DEF Filled
  <2>2. \A s \in lost' : /\ memory'[s] \in SentFrames /\ outcome'[memory'[s]] # "none"
                         /\ ~InLine(Target(memory[s]), memory[s])'
    <3>1. \A s \in lost : memory[s] # f
      BY <1>2 DEF Filled
    <3> QED  BY <1>1, <1>4, <1>6, <3>1 DEF Filled, Target
  <2> QED  BY <1>1, <1>14, <2>1, <2>2 DEF Filled, recv_vars
<1>16. Covered'
  <2>1. ASSUME NEW s \in Slots
        PROVE  Held(s)' <=> Held(s)
    <3>1. (\E u \in Tasks : Sender(u, s)') <=> \E u \in Tasks : Sender(u, s)
      BY <1>14
    <3> QED  BY <1>1, <1>14, <3>1 DEF Held
  <2> QED  BY <1>1, <2>1 DEF Covered
<1> QED  BY <1>10, <1>11, <1>12, <1>13, <1>15, <1>16

-----------------------------------------------------------------------------
(* Types *)

\* The steps of send_frame that touch neither the rings nor the memory.
LEMMA SendTypes ==
    ASSUME TransportTypeOK, NEW t \in Tasks,
           \/ SendTooLarge(t) \/ AllocTimesOut(t) \/ AllocFails(t) \/ ArmSlotWait(t)
           \/ SlotWaitTimesOut(t) \/ MarkInFlight(t) \/ GiveUpIfClosed(t) \/ ArmRoomWait(t)
           \/ RoomWaitTimesOut(t) \/ SignalDoorbell(t) \/ ReportDeath(t) \/ CloseOnDeath(t)
           \/ SignalData(t) \/ DropSend(t),
           KeepsSlot(t) => sending[t] \in Descriptors
    PROVE  TransportTypeOK'
<1> USE DEF TransportTypeOK, recv_vars, Goto, Finish, Abandon
<1>s. KeepsSlot(t) /\ sending[t].slot # NoSlot => sending[t].slot \in Slots
  BY DEF Descriptors
<1>1. CASE SendTooLarge(t)
  BY <1>1 DEF SendTooLarge
<1>2. CASE AllocTimesOut(t)
  BY <1>2 DEF AllocTimesOut
<1>3. CASE AllocFails(t)
  BY <1>3 DEF AllocFails
<1>4. CASE ArmSlotWait(t)
  BY <1>4 DEF ArmSlotWait
<1>5. CASE SlotWaitTimesOut(t)
  BY <1>5 DEF SlotWaitTimesOut
<1>6. CASE MarkInFlight(t)
  BY <1>6 DEF MarkInFlight
<1>7. CASE GiveUpIfClosed(t)
  <2>1. CASE closed[End(t)]
    <3>1. lost' \subseteq Slots
      BY <1>7, <2>1, <1>s DEF GiveUpIfClosed
    <3>2. /\ pc' = [pc EXCEPT ![t] = "idle"]
          /\ outcome' = [outcome EXCEPT ![sending[t].frame] = "closed"]
          /\ sending' = [sending EXCEPT ![t] = Nothing]
          /\ waited' = waited \ {t}
          /\ UNCHANGED <<begun, slot_state, memory, ring, doorbell, closed, alive, reported,
                         recv_vars>>
      BY <1>7, <2>1 DEF GiveUpIfClosed
    <3> HIDE DEF Finish, Abandon, Goto
    <3> QED  BY <3>1, <3>2
  <2>2. CASE ~closed[End(t)]
    BY <1>7, <2>2 DEF GiveUpIfClosed
  <2> QED  BY <2>1, <2>2
<1>8. CASE ArmRoomWait(t)
  BY <1>8 DEF ArmRoomWait
<1>9. CASE RoomWaitTimesOut(t)
  BY <1>9 DEF RoomWaitTimesOut
<1>10. CASE SignalDoorbell(t)
  BY <1>10, EndsAndSlots DEF SignalDoorbell, Ring
<1>11. CASE ReportDeath(t)
  BY <1>11 DEF ReportDeath
<1>12. CASE CloseOnDeath(t)
  BY <1>12, EndsAndSlots DEF CloseOnDeath
<1>13. CASE SignalData(t)
  BY <1>13, ZenonT(60) DEF SignalData, WakeRoomWaiters
<1>14. CASE DropSend(t)
  BY <1>14, <1>s DEF DropSend
<1> QED  BY <1>1, <1>2, <1>3, <1>4, <1>5, <1>6, <1>7, <1>8, <1>9, <1>10, <1>11, <1>12, <1>13, <1>14

\* The steps of a receiver that touch neither its ring nor what it returned, and
\* close() and the death of an end.
LEMMA RecvTypes ==
    ASSUME TransportTypeOK, NEW e \in Ends,
           \/ RecvBegin(e) \/ SignalRoom(e) \/ FreeSlot(e) \/ RecvEmpty(e)
           \/ DoorbellWait(e) \/ DoorbellDrain(e) \/ Close(e) \/ Die(e)
    PROVE  TransportTypeOK'
<1> USE DEF TransportTypeOK, recv_vars, send_vars
<1>1. CASE RecvBegin(e)
  BY <1>1 DEF RecvBegin
<1>2. CASE SignalRoom(e)
  BY <1>2 DEF SignalRoom, WakeRoomWaiters
<1>3. CASE FreeSlot(e)
  BY <1>3 DEF FreeSlot, WakeSlotWaiters
<1>4. CASE RecvEmpty(e)
  BY <1>4 DEF RecvEmpty
<1>5. CASE DoorbellWait(e)
  BY <1>5 DEF DoorbellWait
<1>6. CASE DoorbellDrain(e)
  BY <1>6 DEF DoorbellDrain
<1>7. CASE Close(e)
  BY <1>7 DEF Close
<1>8. CASE Die(e)
  BY <1>8 DEF Die
<1> QED  BY <1>1, <1>2, <1>3, <1>4, <1>5, <1>6, <1>7, <1>8

\* The other steps of send_frame take a slot or a frame that the books know.
LEMMA FrameTypes ==
    ASSUME TransportInv, NEW t \in Tasks,
           \/ \E kind \in PayloadKinds : SendBegin(t, kind)
           \/ AllocSlot(t) \/ Enqueue(t)
    PROVE  TransportTypeOK'
<1> USE DEF TransportInv
<1>1. ASSUME NEW kind \in PayloadKinds, SendBegin(t, kind)
      PROVE  TransportTypeOK'
  <2>1. begun[t] \in Nat /\ begun[t] + 1 \in 1 .. Quota[t]
    <3>1. begun[t] \in Nat /\ Quota[t] \in Nat
      BY TransportAssumption DEF TransportTypeOK
    <3>2. begun[t] < Quota[t]
      BY <1>1 DEF SendBegin
    <3> QED  BY <3>1, <3>2
  <2>2. begun' = [begun EXCEPT ![t] = begun[t] + 1] /\ begun[t] + 1 <= Quota[t]
    BY <1>1, <2>1 DEF SendBegin
  <2>3. <<t, begun[t] + 1>> \in SentFrames
    BY <2>1, FramesOfTasks
  <2>4. CASE closed[End(t)]
    <3>1. begun' \in [Tasks -> Nat] /\ \A u \in Tasks : begun'[u] <= Quota[u]
      BY <2>1, <2>2 DEF TransportTypeOK
    <3>2. outcome' \in [SentFrames -> {"none", "ok", "failed", "closed", "dropped"}]
      BY <1>1, <2>4 DEF SendBegin, TransportTypeOK
    <3> QED  BY <1>1, <2>4, <3>1, <3>2 DEF SendBegin, TransportTypeOK, recv_vars
  <2>5. CASE ~closed[End(t)]
    <3>1. [frame |-> <<t, begun[t] + 1>>, slot |-> NoSlot] \in Descriptors
      BY <2>3 DEF Descriptors
    <3>2. sending' \in [Tasks -> Descriptors \cup {Nothing}]
      BY <1>1, <2>5, <3>1 DEF SendBegin, TransportTypeOK
    <3>3. pc' \in [Tasks -> {"idle", "alloc", "too_large", "arm_slot", "wait_slot",
                             "mark", "enqueue", "full", "arm_room", "wait_room",
                             "signal", "report", "close", "wake", "wake_dead"}]
      BY <1>1, <2>5, ZenonT(60) DEF SendBegin, TransportTypeOK, Goto
    <3>4. begun' \in [Tasks -> Nat] /\ \A u \in Tasks : begun'[u] <= Quota[u]
      BY <2>1, <2>2 DEF TransportTypeOK
    <3> QED  BY <1>1, <2>5, <3>2, <3>3, <3>4 DEF SendBegin, TransportTypeOK, recv_vars
  <2> QED  BY <2>4, <2>5
<1>2. CASE AllocSlot(t)
  <2>1. sending[t] \in Descriptors
    BY <1>2 DEF AllocSlot, Bookkeeping, Sends, SendOf
  <2>2. PICK s \in Slots :
          /\ slot_state' = [slot_state EXCEPT ![s] = "allocated"]
          /\ memory' = [memory EXCEPT ![s] = sending[t].frame]
          /\ sending' = [sending EXCEPT ![t].slot = s]
    BY <1>2 DEF AllocSlot
  <2>3. [sending[t] EXCEPT !.slot = s] \in Descriptors
    BY <2>1 DEF Descriptors
  <2>4. sending' \in [Tasks -> Descriptors \cup {Nothing}]
    BY <2>2, <2>3 DEF TransportTypeOK
  <2>5. memory' \in [Slots -> SentFrames \cup {NoFrame}]
    BY <2>1, <2>2 DEF TransportTypeOK, Descriptors
  <2> QED  BY <1>2, <2>2, <2>4, <2>5 DEF AllocSlot, TransportTypeOK, Goto, recv_vars
<1>3. CASE Enqueue(t)
  <2>1. sending[t] \in Descriptors
    BY <1>3 DEF Enqueue, Bookkeeping, Sends, SendOf
  <2>2. PICK x \in Ends : x = Other(End(t))
    BY EndsAndSlots
  <2>3. ring[x] \in Seq(Descriptors) /\ Len(ring[x]) <= RingCapacity
    BY DEF TransportTypeOK
  <2>4. CASE Len(ring[x]) < RingCapacity
    <3>1. /\ Append(ring[x], sending[t]) \in Seq(Descriptors)
          /\ Len(Append(ring[x], sending[t])) <= RingCapacity
      BY <2>1, <2>3, <2>4, TransportAssumption
    <3>2. ring' = [ring EXCEPT ![x] = Append(ring[x], sending[t])]
      BY <1>3, <2>2, <2>4 DEF Enqueue
    <3>3. ring' \in [Ends -> Seq(Descriptors)] /\ \A y \in Ends : Len(ring'[y]) <= RingCapacity
      BY <3>1, <3>2 DEF TransportTypeOK
    <3> QED  BY <1>3, <2>2, <2>4, <3>3 DEF Enqueue, TransportTypeOK, Goto, recv_vars
  <2>5. CASE ~(Len(ring[x]) < RingCapacity)
    BY <1>3, <2>2, <2>5 DEF Enqueue, TransportTypeOK, Goto, recv_vars
  <2> QED  BY <2>4, <2>5
<1> QED  BY <1>1, <1>2, <1>3

\* What a receiver takes off its ring is a descriptor.
LEMMA DequeueTypes ==
    ASSUME TransportInv, NEW e \in Ends, Dequeue(e)
    PROVE  TransportTypeOK'
<1> USE DEF TransportInv
<1>1. CASE ring[e] # <<>>
  <2>1. /\ Head(ring[e]) \in Descriptors /\ Tail(ring[e]) \in Seq(Descriptors)
        /\ Len(Tail(ring[e])) <= RingCapacity
    <3>1. ring[e] \in Seq(Descriptors) /\ Len(ring[e]) <= RingCapacity
      BY DEF TransportTypeOK
    <3> QED  BY <1>1, <3>1, TransportAssumption
  <2>2. ring' = [ring EXCEPT ![e] = Tail(ring[e])]
    BY <1>1 DEF Dequeue
  <2>3. ring' \in [Ends -> Seq(Descriptors)] /\ \A y \in Ends : Len(ring'[y]) <= RingCapacity
    BY <2>1, <2>2 DEF TransportTypeOK
  <2> QED  BY <1>1, <2>1, <2>3 DEF Dequeue, TransportTypeOK, send_vars
<1>2. CASE ring[e] = <<>>
  BY <1>2 DEF Dequeue, TransportTypeOK, send_vars
<1> QED  BY <1>1, <1>2

\* What it returns is a frame, and the payload of a frame.
LEMMA CopyTypes ==
    ASSUME TransportInv, NEW e \in Ends, CopyOut(e)
    PROVE  TransportTypeOK'
<1> USE DEF TransportInv
<1> DEFINE x == [frame |-> got[e].frame, payload |-> Payload(got[e])]
<1>1. recv_pc[e] = "copy" /\ got[e] \in Descriptors
  BY DEF CopyOut, InHands, Bookkeeping, Recvs, RecvOf
<1>2. got[e].slot # NoSlot => got[e].slot \in Slots /\ Receiver(e, got[e].slot)
  BY <1>1 DEF Descriptors, Receiver
<1>3. x \in [frame : SentFrames, payload : SentFrames]
  BY <1>1, <1>2 DEF Payload, Bookkeeping, Filled, Descriptors
<1>4. returned' = [returned EXCEPT ![e] = Append(returned[e], x)]
  BY DEF CopyOut
<1> HIDE DEF x
<1>5. returned' \in [Ends -> Seq([frame : SentFrames, payload : SentFrames])]
  <2>1. returned \in [Ends -> Returns] /\ x \in [frame : SentFrames, payload : SentFrames]
    BY <1>3 DEF TransportTypeOK, Returns
  <2>2. Append(returned[e], x) \in Returns
    <3>1. \A S : \A q \in Seq(S) : \A v \in S : Append(q, v) \in Seq(S)
      OBVIOUS
    <3> QED  BY <2>1, <3>1 DEF Returns
  <2>3. returned' \in [Ends -> Returns]
    BY <1>4, <2>1, <2>2
  <2> QED  BY <2>3 DEF Returns
<1> QED  BY <1>5 DEF CopyOut, TransportTypeOK, send_vars

-----------------------------------------------------------------------------
(* Every step keeps the books *)

\* The steps of send_frame that leave every frame where it is.
LEMMA SendMoves ==
    ASSUME TransportInv, NEW t \in Tasks,
           \/ AllocFails(t) /\ ~closed[End(t)]
           \/ ArmSlotWait(t) \/ SlotWaitTimesOut(t) \/ MarkInFlight(t)
           \/ Enqueue(t) /\ ~(Len(ring[Other(End(t))]) < RingCapacity)
           \/ GiveUpIfClosed(t) /\ ~closed[End(t)]
           \/ ArmRoomWait(t) \/ RoomWaitTimesOut(t) \/ SignalDoorbell(t) \/ ReportDeath(t)
           \/ CloseOnDeath(t) /\ End(t) = "host"
           \/ SignalData(t) /\ pc[t] = "wake_dead" /\ End(t) = "cell"
    PROVE  Bookkeeping'
<1>1. UNCHANGED <<memory, ring, sending, begun, outcome, got, returned, lost, alive, recv_pc>>
  BY DEF AllocFails, ArmSlotWait, SlotWaitTimesOut, MarkInFlight, Enqueue, GiveUpIfClosed,
         ArmRoomWait, RoomWaitTimesOut, SignalDoorbell, ReportDeath, CloseOnDeath, SignalData,
         recv_vars
<1>2. \A s \in Slots : slot_state'[s] = "free" <=> slot_state[s] = "free"
  <2>1. CASE MarkInFlight(t)
    <3>1. Sender(t, sending[t].slot) /\ sending[t].slot \in Slots
      BY <2>1 DEF MarkInFlight, TransportInv, Bookkeeping, Sends, SendOf, Sender, Keeping,
                  Descriptors
    <3>2. slot_state[sending[t].slot] # "free"
      BY <3>1 DEF TransportInv, Bookkeeping, Covered, Held
    <3> QED  BY <2>1, <3>2 DEF MarkInFlight, TransportInv, TransportTypeOK
  <2>2. CASE ~MarkInFlight(t)
    <3>1. UNCHANGED slot_state
      BY <2>2 DEF AllocFails, ArmSlotWait, SlotWaitTimesOut, Enqueue, GiveUpIfClosed,
         ArmRoomWait, RoomWaitTimesOut, SignalDoorbell, ReportDeath, CloseOnDeath, SignalData
    <3> QED  BY <3>1
  <2> QED  BY <2>1, <2>2
<1>3. \A u \in Tasks : SamePlace(u)
  <2> USE DEF SamePlace, Choosing, Keeping, Enqueued, FoundDead, Goto, TransportInv
  <2>0. pc \in [Tasks -> {"idle", "alloc", "too_large", "arm_slot", "wait_slot",
                          "mark", "enqueue", "full", "arm_room", "wait_room",
                          "signal", "report", "close", "wake", "wake_dead"}]
    BY DEF TransportTypeOK
  <2> HIDE DEF TransportInv
  <2>1. CASE AllocFails(t) /\ ~closed[End(t)]
    BY <2>0, <2>1 DEF AllocFails
  <2>2. CASE ArmSlotWait(t) \/ SlotWaitTimesOut(t) \/ MarkInFlight(t)
    BY <2>0, <2>2 DEF ArmSlotWait, SlotWaitTimesOut, MarkInFlight
  <2>3. CASE Enqueue(t) /\ ~(Len(ring[Other(End(t))]) < RingCapacity)
    BY <2>0, <2>3 DEF Enqueue
  <2>4. CASE GiveUpIfClosed(t) /\ ~closed[End(t)]
    BY <2>0, <2>4 DEF GiveUpIfClosed
  <2>5. CASE ArmRoomWait(t) \/ RoomWaitTimesOut(t)
    BY <2>0, <2>5 DEF ArmRoomWait, RoomWaitTimesOut
  <2>6. CASE SignalDoorbell(t)
    BY <2>0, <2>6 DEF SignalDoorbell
  <2>7. CASE ReportDeath(t) \/ (CloseOnDeath(t) /\ End(t) = "host")
    BY <2>0, <2>7 DEF ReportDeath, CloseOnDeath
  <2>8. CASE SignalData(t) /\ pc[t] = "wake_dead" /\ End(t) = "cell"
    <3>1. pc' = [WakeRoomWaiters(pc, Other(End(t))) EXCEPT ![t] = "close"]
      BY <2>8 DEF SignalData
    <3> QED  BY <2>0, <2>8, <3>1 DEF WakeRoomWaiters
  <2> QED  BY <2>1, <2>2, <2>3, <2>4, <2>5, <2>6, <2>7, <2>8
<1>4. \A e \in Ends : SameReceiver(e)
  BY <1>1 DEF SameReceiver, InHands
<1> QED  BY <1>1, <1>2, <1>3, <1>4, Moves

\* The steps of send_frame that end it.
LEMMA SendSettles ==
    ASSUME TransportInv, NEW t \in Tasks,
           \/ SendTooLarge(t) \/ AllocTimesOut(t)
           \/ AllocFails(t) /\ closed[End(t)]
           \/ GiveUpIfClosed(t) /\ closed[End(t)]
           \/ CloseOnDeath(t) /\ End(t) # "host"
           \/ SignalData(t) /\ ~(pc[t] = "wake_dead" /\ End(t) = "cell")
           \/ DropSend(t)
    PROVE  Bookkeeping'
<1> USE DEF Choosing, Keeping, Enqueued, KeepsSlot
<1> DEFINE others == \A u \in Tasks \ {t} : SamePlace(u)
<1>0. pc \in [Tasks -> {"idle", "alloc", "too_large", "arm_slot", "wait_slot",
                        "mark", "enqueue", "full", "arm_room", "wait_room",
                        "signal", "report", "close", "wake", "wake_dead"}]
  BY DEF TransportInv, TransportTypeOK
<1>d. pc[t] \in FoundDead => Other(End(t)) \notin alive
  BY DEF TransportInv, Bookkeeping, Sends, SendOf
<1>1. ASSUME NEW how, Finish(t, how)
      PROVE  /\ pc'[t] = "idle" /\ others
             /\ outcome' = [outcome EXCEPT ![sending[t].frame] = how]
             /\ sending' = [sending EXCEPT ![t] = Nothing]
             /\ UNCHANGED begun
  BY <1>0, <1>1 DEF Finish, Goto, SamePlace
<1>2. CASE SendTooLarge(t) \/ AllocTimesOut(t)
  <2>1. /\ Finish(t, "failed") /\ pc[t] \in {"too_large", "alloc"}
        /\ UNCHANGED <<slot_state, memory, ring, alive, recv_vars, lost>>
    BY <1>2 DEF SendTooLarge, AllocTimesOut
  <2>2. Abandon(t)
    BY <2>1 DEF Abandon
  <2> QED  BY <1>1, <2>1, <2>2, Settles
<1>3. CASE AllocFails(t) /\ closed[End(t)]
  <2>1. /\ Finish(t, "closed") /\ pc[t] = "alloc"
        /\ UNCHANGED <<slot_state, memory, ring, alive, recv_vars, lost>>
    BY <1>3 DEF AllocFails
  <2>2. Abandon(t)
    BY <2>1 DEF Abandon
  <2> QED  BY <1>1, <2>1, <2>2, Settles
<1>4. CASE GiveUpIfClosed(t) /\ closed[End(t)]
  <2>1. /\ Finish(t, "closed") /\ pc[t] = "full" /\ Abandon(t)
        /\ UNCHANGED <<slot_state, memory, ring, alive, recv_vars>>
    BY <1>4 DEF GiveUpIfClosed
  <2> QED  BY <1>1, <2>1, Settles
<1>5. CASE CloseOnDeath(t) /\ End(t) # "host"
  <2>1. /\ Finish(t, "closed") /\ pc[t] = "close"
        /\ UNCHANGED <<slot_state, memory, ring, alive, recv_vars, lost>>
    BY <1>5 DEF CloseOnDeath
  <2>2. Abandon(t) /\ Other(End(t)) \notin alive
    BY <1>d, <2>1 DEF Abandon, FoundDead
  <2> QED  BY <1>1, <2>1, <2>2, Settles
<1>6. CASE SignalData(t) /\ ~(pc[t] = "wake_dead" /\ End(t) = "cell")
  <2> DEFINE how == IF pc[t] = "wake" THEN "ok" ELSE "closed"
  <2>1. /\ pc[t] \in {"wake", "wake_dead"}
        /\ pc' = [WakeRoomWaiters(pc, Other(End(t))) EXCEPT ![t] = "idle"]
        /\ outcome' = [outcome EXCEPT ![sending[t].frame] = how]
        /\ sending' = [sending EXCEPT ![t] = Nothing]
        /\ UNCHANGED <<begun, slot_state, memory, ring, alive, recv_vars, lost>>
    BY <1>6 DEF SignalData
  <2>2. pc'[t] = "idle" /\ others
    BY <1>0, <2>1 DEF WakeRoomWaiters, SamePlace, FoundDead
  <2>3. Abandon(t) /\ (how # "ok" => Other(End(t)) \notin alive)
    BY <1>d, <2>1 DEF Abandon, FoundDead
  <2>4. how \in {"ok", "closed"} /\ pc[t] \in Enqueued /\ pc[t] # "idle"
    BY <2>1
  <2> HIDE DEF how
  <2> QED  BY <2>1, <2>2, <2>3, <2>4, Settles
<1>7. CASE DropSend(t)
  <2>1. /\ Finish(t, "dropped") /\ Abandon(t)
        /\ pc[t] \in {"arm_slot", "wait_slot", "enqueue", "wait_room"}
        /\ UNCHANGED <<slot_state, memory, ring, alive, recv_vars>>
    BY <1>7 DEF DropSend
  <2> QED  BY <1>1, <2>1, Settles
<1> QED  BY <1>2, <1>3, <1>4, <1>5, <1>6, <1>7

\* The steps of a receiver and of the ends that leave every frame where it is.
LEMMA RecvMoves ==
    ASSUME TransportInv, NEW e \in Ends,
           \/ RecvBegin(e) \/ SignalRoom(e) \/ RecvEmpty(e) \/ DoorbellWait(e)
           \/ DoorbellDrain(e) \/ Close(e) \/ Die(e) \/ (Dequeue(e) /\ ring[e] = <<>>)
    PROVE  Bookkeeping'
<1>1. UNCHANGED <<memory, ring, sending, begun, outcome, got, returned, lost, slot_state>>
  BY DEF RecvBegin, SignalRoom, RecvEmpty, DoorbellWait, DoorbellDrain, Close, Die, Dequeue,
         send_vars, recv_vars
<1>2. alive' \subseteq alive
  BY DEF RecvBegin, SignalRoom, RecvEmpty, DoorbellWait, DoorbellDrain, Close, Die, Dequeue
<1>3. \A t \in Tasks : SamePlace(t)
  <2>1. CASE SignalRoom(e)
    BY <2>1 DEF SignalRoom, WakeRoomWaiters, SamePlace, Choosing, Keeping, Enqueued, FoundDead
  <2>2. CASE ~SignalRoom(e)
    <3>1. UNCHANGED pc
      BY <2>2 DEF RecvBegin, RecvEmpty, DoorbellWait, DoorbellDrain, Close, Die, Dequeue,
                  send_vars
    <3> QED  BY <3>1 DEF SamePlace
  <2> QED  BY <2>1, <2>2
<1>4. \A x \in Ends : SameReceiver(x)
  <2>1. recv_pc \in [Ends -> {"idle", "poll", "taken", "copy", "free", "empty",
                              "wait", "drain", "ended"}]
    BY DEF TransportInv, TransportTypeOK
  <2>2. CASE RecvBegin(e) \/ RecvEmpty(e)
    BY <2>1, <2>2 DEF RecvBegin, RecvEmpty, SameReceiver, InHands
  <2>3. CASE SignalRoom(e) \/ DoorbellWait(e) \/ DoorbellDrain(e)
    BY <2>1, <2>3 DEF SignalRoom, DoorbellWait, DoorbellDrain, SameReceiver, InHands
  <2>4. CASE Close(e) \/ Die(e)
    BY <2>4 DEF Close, Die, SameReceiver, InHands, recv_vars
  <2>5. CASE Dequeue(e) /\ ring[e] = <<>>
    BY <2>1, <2>5 DEF Dequeue, SameReceiver, InHands
  <2> QED  BY <2>2, <2>3, <2>4, <2>5
<1> QED  BY <1>1, <1>2, <1>3, <1>4, Moves

\* A step of a send.
LEMMA SendSteps ==
    ASSUME TransportInv, NEW t \in Tasks, SendFrame(t)
    PROVE  TransportInv'
<1>1. TransportTypeOK /\ (KeepsSlot(t) => sending[t] \in Descriptors)
  BY DEF TransportInv, Bookkeeping, Sends, SendOf, KeepsSlot
<1>3. TransportTypeOK'
  BY <1>1, SendTypes, FrameTypes DEF SendFrame, SendStep, TimeOut
<1>4. Bookkeeping'
  <2>1. \/ \E kind \in PayloadKinds : SendBegin(t, kind)
        \/ SendTooLarge(t) \/ AllocSlot(t) \/ AllocFails(t) \/ ArmSlotWait(t)
        \/ MarkInFlight(t) \/ Enqueue(t) \/ GiveUpIfClosed(t) \/ ArmRoomWait(t)
        \/ SignalDoorbell(t) \/ ReportDeath(t) \/ CloseOnDeath(t) \/ SignalData(t)
        \/ SlotWaitTimesOut(t) \/ RoomWaitTimesOut(t) \/ AllocTimesOut(t) \/ DropSend(t)
    BY DEF SendFrame, SendStep, TimeOut
  <2> QED  BY <2>1, Begins, Allocates, Enqueues, SendMoves, SendSettles
<1> QED  BY <1>3, <1>4 DEF TransportInv

\* A step of a receiver, or of an end.
LEMMA RecvSteps ==
    ASSUME TransportInv, NEW e \in Ends, RecvStep(e) \/ Close(e) \/ Die(e)
    PROVE  TransportInv'
<1>0. \/ RecvBegin(e) \/ Dequeue(e) \/ SignalRoom(e) \/ CopyOut(e) \/ FreeSlot(e)
      \/ RecvEmpty(e) \/ DoorbellWait(e) \/ DoorbellDrain(e) \/ Close(e) \/ Die(e)
  BY DEF RecvStep
<1>1. TransportTypeOK'
  <2>1. CASE Dequeue(e)
    BY <2>1, DequeueTypes
  <2>2. CASE CopyOut(e)
    BY <2>2, CopyTypes
  <2>3. CASE ~Dequeue(e) /\ ~CopyOut(e)
    BY <1>0, <2>3, RecvTypes DEF TransportInv
  <2> QED  BY <2>1, <2>2, <2>3
<1>2. Bookkeeping'
  <2>1. CASE Dequeue(e) /\ ring[e] # <<>>
    BY <2>1, Takes DEF Dequeue
  <2>2. CASE ~(Dequeue(e) /\ ring[e] # <<>>)
    BY <1>0, <2>2, Copies, Frees, RecvMoves
  <2> QED  BY <2>1, <2>2
<1> QED  BY <1>1, <1>2 DEF TransportInv

-----------------------------------------------------------------------------
(* What holds of every hub transport *)

\* The books are kept from the start.
LEMMA BooksFromTheStart == TransportInit => TransportInv
<1> SUFFICES ASSUME TransportInit
             PROVE  TransportInv
  OBVIOUS
<1> USE DEF TransportInit
<1>0. Taken("host") = 0 /\ Taken("cell") = 0 /\ \A e \in Ends : ~InHands(e)
  BY DEF Taken, InHands, Ends
<1>1. \A e \in Ends : DOMAIN Line(e) = {}
  BY DEF Line, Taken, InHands
<1>2. TransportTypeOK
  <2>1. <<>> \in Seq(Descriptors) /\ <<>> \in Seq([frame : SentFrames, payload : SentFrames])
    OBVIOUS
  <2>2. Len(<<>>) = 0 /\ 0 <= RingCapacity /\ \A t \in Tasks : 0 <= Quota[t]
    BY TransportAssumption
  <2>3. \A e \in Ends : Len(ring[e]) <= RingCapacity
    BY <2>2
  <2> QED  BY <2>1, <2>2, <2>3 DEF TransportTypeOK
<1>3. Sends /\ Recvs
  BY <1>0, FramesOfTasks DEF Sends, SendOf, Recvs, RecvOf, FoundDead
<1>4. Lines /\ Outcomes
  BY <1>1, EndsAndSlots, FramesOfTasks DEF Lines, LineOf, Outcomes, InLine, Enqueued
<1>5. Filled /\ Covered
  BY <1>0 DEF Filled, Covered, Held, Sender, Receiver, Queued, Keeping
<1> QED  BY <1>2, <1>3, <1>4, <1>5 DEF TransportInv, Bookkeeping

\* And by every step.
LEMMA BooksKept == TransportInv /\ [TransportNext]_transportVars => TransportInv'
<1> SUFFICES ASSUME TransportInv, [TransportNext]_transportVars
             PROVE  TransportInv'
  OBVIOUS
<1>1. CASE UNCHANGED transportVars
  <2>1. TransportTypeOK'
    BY <1>1 DEF transportVars, TransportInv, TransportTypeOK, send_vars, recv_vars
  <2>2. Bookkeeping'
    <3>1. /\ \A t \in Tasks : SamePlace(t)
          /\ \A e \in Ends : SameReceiver(e)
      BY <1>1 DEF transportVars, SamePlace, SameReceiver, InHands
    <3> QED  BY <1>1, <3>1, Moves DEF transportVars
  <2> QED  BY <2>1, <2>2 DEF TransportInv
<1>2. CASE TransportNext
  <2>1. \/ \E t \in Tasks : SendFrame(t)
        \/ \E e \in Ends : RecvStep(e) \/ Close(e) \/ Die(e)
    BY <1>2 DEF TransportNext, HostSendFrame, HostRecvFrame, PeerSendFrame, PeerRecvFrame,
                Tasks, Ends
  <2> QED  BY <2>1, SendSteps, RecvSteps
<1> QED  BY <1>1, <1>2

\* The books of a hub transport are right in every state.
THEOREM TransportBooks == TransportSpec => []TransportInv
  BY BooksFromTheStart, BooksKept, PTL DEF TransportSpec

\* A hub transport keeps to its types.
THEOREM TransportTypes == TransportSpec => []TransportTypeOK
  BY TransportBooks, PTL DEF TransportInv

\* Whatever is closed, dropped or dies when: what recv_frame returns is what was
\* sent, once, and each task's frames in its order.
THEOREM TransportArrivals == TransportSpec => []ArrivesIntact
<1>1. TransportInv => ArrivesIntact
  <2> SUFFICES ASSUME TransportInv, NEW e \in Ends, NEW i \in 1 .. Len(returned[e])
               PROVE  /\ returned[e][i].payload = returned[e][i].frame
                      /\ \A j \in 1 .. i - 1 :
                           returned[e][j].frame[1] = returned[e][i].frame[1]
                             => returned[e][j].frame[2] < returned[e][i].frame[2]
    BY DEF ArrivesIntact
  <2> USE DEF TransportInv, Bookkeeping
  <2>1. returned[e][i].payload = returned[e][i].frame
    <3>1. i \in DOMAIN returned[e]
      BY LineLength
    <3> QED  BY <3>1 DEF Recvs, RecvOf
  <2>2. ASSUME NEW j \in 1 .. i - 1, returned[e][j].frame[1] = returned[e][i].frame[1]
        PROVE  returned[e][j].frame[2] < returned[e][i].frame[2]
    <3>1. j \in 1 .. Len(returned[e]) /\ j < i
      BY LineLength
    <3>2. /\ i \in DOMAIN Line(e) /\ Line(e)[i] = returned[e][i].frame
          /\ j \in DOMAIN Line(e) /\ Line(e)[j] = returned[e][j].frame
      BY <3>1, InTheLine
    <3> QED  BY <2>2, <3>1, <3>2 DEF Lines, LineOf
  <2> QED  BY <2>1, <2>2
<1> QED  BY <1>1, TransportBooks, PTL

\* What is in the line of an end is on its way there, or arrived.
LEMMA SomewhereInLine ==
    ASSUME TransportTypeOK, NEW e \in Ends, NEW f
    PROVE  InLine(e, f) <=> f \in OnTheWay(e) \cup Arrived(e)
<1>1. ASSUME f \in OnTheWay(e) \cup Arrived(e)
      PROVE  InLine(e, f)
  <2>1. CASE f \in Arrived(e)
    BY <2>1, InTheLine DEF Arrived, InLine
  <2>2. CASE f \in OnTheWay(e)
    <3>1. CASE \E i \in 1 .. Len(ring[e]) : f = ring[e][i].frame
      BY <3>1, InTheLine DEF InLine
    <3>2. CASE InHands(e) /\ f = got[e].frame
      BY <3>2, InTheLine DEF InLine
    <3> QED  BY <2>2, <3>1, <3>2 DEF OnTheWay, InHands
  <2> QED  BY <1>1, <2>1, <2>2
<1>2. ASSUME NEW i \in DOMAIN Line(e), f = Line(e)[i]
      PROVE  f \in OnTheWay(e) \cup Arrived(e)
  <2>1. i \in 1 .. Len(returned[e]) + Taken(e) + Len(ring[e])
    BY LineLength
  <2>2. CASE i <= Len(returned[e])
    <3>1. i \in 1 .. Len(returned[e]) /\ f = returned[e][i].frame
      BY <1>2, <2>1, <2>2, LineLength DEF Line
    <3> QED  BY <3>1 DEF Arrived
  <2>3. CASE ~(i <= Len(returned[e])) /\ i <= Len(returned[e]) + Taken(e)
    <3>1. InHands(e)
      <4>1. Len(returned[e]) \in Nat /\ Taken(e) \in {0, 1}
        BY LineLength
      <4>2. Taken(e) # 0
        BY <2>1, <2>3, <4>1
      <4> QED  BY <4>2 DEF Taken
    <3>2. f = got[e].frame
      BY <1>2, <2>1, <2>3 DEF Line
    <3> QED  BY <3>1, <3>2 DEF OnTheWay, InHands
  <2>4. CASE ~(i <= Len(returned[e])) /\ ~(i <= Len(returned[e]) + Taken(e))
    <3>1. f = ring[e][i - (Len(returned[e]) + Taken(e))].frame
      BY <1>2, <2>1, <2>4 DEF Line
    <3>2. i - (Len(returned[e]) + Taken(e)) \in 1 .. Len(ring[e])
      BY <2>1, <2>4, LineLength
    <3> QED  BY <3>1, <3>2 DEF OnTheWay
  <2> QED  BY <2>2, <2>3, <2>4
<1> QED  BY <1>1, <1>2 DEF InLine

\* send_frame tells the truth: a frame it answered Ok for is on its way or there,
\* and one it gave up never arrives, unless the other end died.
THEOREM TransportHonest == TransportSpec => []OutcomeHonest
<1>1. TransportInv => OutcomeHonest
  <2> SUFFICES ASSUME TransportInv, NEW f \in SentFrames
               PROVE  /\ outcome[f] = "ok" => f \in OnTheWay(Target(f)) \cup Arrived(Target(f))
                      /\ outcome[f] \in {"failed", "closed", "dropped"} /\ Target(f) \in alive
                           => ~(f \in OnTheWay(Target(f)) \cup Arrived(Target(f)))
    BY DEF OutcomeHonest, Target
  <2>1. Target(f) \in Ends
    BY FramesOfTasks, EndsAndSlots DEF Target
  <2>2. InLine(Target(f), f) <=> f \in OnTheWay(Target(f)) \cup Arrived(Target(f))
    BY <2>1, SomewhereInLine DEF TransportInv
  <2> QED  BY <2>2 DEF TransportInv, Bookkeeping, Outcomes
<1> QED  BY <1>1, TransportBooks, PTL

\* A set of at most one element has no element or one.
LEMMA NoneOrOne ==
    ASSUME NEW S, \A x, y \in S : x = y
    PROVE  Cardinality(S) = IF S = {} THEN 0 ELSE 1
<1>1. CASE S = {}
  BY <1>1, FS_EmptySet
<1>2. CASE S # {}
  <2>1. PICK x : S = {x}
    BY <1>2
  <2> QED  BY <2>1, FS_Singleton
<1> QED  BY <1>1, <1>2

\* Every slot that is not free is in the hands of one send, on one ring at one
\* place, with one receiver, or lost: no slot leaks otherwise, none is used twice.
THEOREM TransportSlots == TransportSpec => []SlotsAccounted
<1>1. TransportInv => SlotsAccounted
  <2> SUFFICES ASSUME TransportInv, NEW s \in Slots
               PROVE  Holders(s) = IF slot_state[s] = "free" THEN 0 ELSE 1
    BY DEF SlotsAccounted
  <2> DEFINE A == {t \in Tasks : KeepsSlot(t) /\ sending[t].slot = s}
             B == {p \in Ends \X (1 .. RingCapacity) :
                     p[2] <= Len(ring[p[1]]) /\ ring[p[1]][p[2]].slot = s}
             C == {e \in Ends : recv_pc[e] \in {"taken", "copy", "free"} /\ got[e].slot = s}
             D == lost \cap {s}
  <2>1. Alone(s)
    BY HeldOnce
  <2>2. A = {t \in Tasks : Sender(t, s)} /\ C = {e \in Ends : Receiver(e, s)}
    BY DEF KeepsSlot, Keeping, Sender, Receiver
  <2>3. /\ \A p \in B : /\ p[1] \in Ends /\ p[2] \in DOMAIN ring[p[1]]
                        /\ Queued(p[1], p[2], s) /\ p = <<p[1], p[2]>>
        /\ \A e \in Ends : \A i \in DOMAIN ring[e] : Queued(e, i, s) => <<e, i>> \in B
    <3>1. \A e \in Ends : /\ DOMAIN ring[e] = 1 .. Len(ring[e]) /\ Len(ring[e]) \in Nat
                          /\ Len(ring[e]) <= RingCapacity
      BY LineLength DEF TransportInv, TransportTypeOK
    <3>2. ASSUME NEW p \in B
          PROVE  /\ p[1] \in Ends /\ p[2] \in DOMAIN ring[p[1]]
                 /\ Queued(p[1], p[2], s) /\ p = <<p[1], p[2]>>
      <4>1. p[1] \in Ends /\ p[2] \in 1 .. RingCapacity /\ p = <<p[1], p[2]>>
              /\ p[2] <= Len(ring[p[1]]) /\ ring[p[1]][p[2]].slot = s
        BY <3>2
      <4>2. p[2] \in 1 .. Len(ring[p[1]])
        BY <3>1, <4>1, TransportAssumption
      <4> QED  BY <3>1, <4>1, <4>2 DEF Queued
    <3>3. ASSUME NEW e \in Ends, NEW i \in DOMAIN ring[e], Queued(e, i, s)
          PROVE  <<e, i>> \in B
      <4>1. i \in 1 .. RingCapacity /\ i <= Len(ring[e])
        BY <3>1, TransportAssumption
      <4> QED  BY <3>3, <4>1 DEF Queued
    <3> QED  BY <3>2, <3>3
  <2> HIDE DEF A, B, C
  <2>4. /\ Cardinality(A) = IF A = {} THEN 0 ELSE 1
        /\ Cardinality(B) = IF B = {} THEN 0 ELSE 1
        /\ Cardinality(C) = IF C = {} THEN 0 ELSE 1
        /\ Cardinality(D) = IF D = {} THEN 0 ELSE 1
    <3>1. \A x, y \in A : x = y
      BY <2>1, <2>2 DEF Alone
    <3>2. \A x, y \in B : x = y
      BY <2>1, <2>3 DEF Alone
    <3>3. \A x, y \in C : x = y
      BY <2>1, <2>2 DEF Alone
    <3>4. \A x, y \in D : x = y
      OBVIOUS
    <3> HIDE DEF D
    <3> QED  BY <3>1, <3>2, <3>3, <3>4, NoneOrOne
  <2>5. /\ A # {} => B = {} /\ C = {} /\ D = {}
        /\ B # {} => C = {} /\ D = {}
        /\ C # {} => D = {}
    BY <2>1, <2>2, <2>3 DEF Alone
  <2>6. Held(s) <=> A # {} \/ B # {} \/ C # {} \/ D # {}
    <3>1. B # {} <=> \E e \in Ends : \E i \in DOMAIN ring[e] : Queued(e, i, s)
      BY <2>3
    <3>2. A # {} <=> \E t \in Tasks : Sender(t, s)
      BY <2>2
    <3>3. C # {} <=> \E e \in Ends : Receiver(e, s)
      BY <2>2
    <3> QED  BY <3>1, <3>2, <3>3 DEF Held
  <2> HIDE DEF D
  <2>7. Cardinality(A) + Cardinality(B) + Cardinality(C) + Cardinality(D)
          = IF Held(s) THEN 1 ELSE 0
    BY <2>4, <2>5, <2>6
  <2>8. Holders(s) = Cardinality(A) + Cardinality(B) + Cardinality(C) + Cardinality(D)
    BY DEF Holders, A, B, C, D
  <2> QED  BY <2>7, <2>8 DEF TransportInv, Bookkeeping, Covered
<1> QED  BY <1>1, TransportBooks, PTL

-----------------------------------------------------------------------------
(* The table of peers and the cells *)

USE CellHubAssumption

LEMMA CellNumbers ==
  /\ \A l \in Cells : l \in Nat \ {0} /\ l # Host /\ l <= Launches /\ l \in Processes
  /\ Host \in Processes
BY DEF Cells, Host, Processes

\* The steps of the launches, of the host's sessions and of the cells.
LaunchStep(l) ==
    \/ AddPeerClaim(l) \/ AddPeerNoDoorbell(l) \/ AddPeerTransport(l) \/ Spawn(l)
    \/ DropTicket(l) \/ RemovePeerMark(l) \/ RemovePeerCount(l)
SessionStep(l) ==
    \/ HostSendsHello(l) \/ HostRecvHello(l) \/ HostRecvReady(l) \/ HostCalls(l)
    \/ HostRunEnds(l)
CellStep(l) ==
    \/ Arm(l) \/ OpenHub(l) \/ RegisterActive(l) \/ RegisterUnreserve(l)
    \/ SetDispatcher(l) \/ SpawnRun(l) \/ CellRecvHello(l) \/ CellSendsHello(l)
    \/ AskReady(l) \/ GiveUpReady(l) \/ CellRecvAck(l) \/ CellRecvCall(l) \/ CellExits(l)
    \/ CellCloses(l) \/ CellCrashes(l)

LEMMA Steps ==
  [Next]_vars <=> \/ \E l \in Cells : LaunchStep(l) \/ SessionStep(l) \/ CellStep(l)
                  \/ HostDies \/ UNCHANGED vars
BY DEF Next, Progress, Chance, LaunchStep, SessionStep, CellStep

LEMMA SessionFrame ==
  ASSUME NEW l \in Cells, SessionStep(l)
  PROVE  /\ UNCHANGED <<hostUp, table, ends, launch, id, ticket, cellSide>>
         /\ \/ UNCHANGED <<told, transport>>
            \/ (transport[l] = "open" /\ HostSignal(l))
BY DEF SessionStep, HostSendsHello, HostRecvHello, HostRecvReady, HostCalls, HostRunEnds,
       HostSend, HostRecv

LEMMA CellFrame ==
  ASSUME NEW l \in Cells, CellStep(l)
  PROVE  UNCHANGED <<hostUp, peer_id_counter, active_peers, hostSide>>
BY DEF CellStep, Arm, OpenHub, RegisterActive, RegisterUnreserve, SetDispatcher, SpawnRun,
       CellRecvHello, CellSendsHello, AskReady, GiveUpReady, CellRecvAck, CellRecvCall,
       CellExits, CellCloses, CellCrashes, table

-----------------------------------------------------------------------------
(* Peer ids *)

\* What the ids rest on.
LaunchTypes ==
    /\ launch \in [Cells -> HostPhases]
    /\ id \in [Cells -> Ids \cup {NoId}]
    /\ peer_id_counter \in 0 .. IdSpace - 1

\* Launches take their ids in order, and the counter does not come round before
\* the last of them.
IdInv ==
    /\ \A l \in Cells : id[l] \in {NoId, l - 1}
    /\ \A l \in Cells : launch[l] = "none" => id[l] = NoId
    /\ \A l \in Cells : launch[l] \notin {"none", "rejected"} => id[l] = l - 1
    /\ \A k, l \in Cells : k < l /\ launch[l] # "none" => launch[k] # "none"
    /\ \A l \in Cells :
           launch[l] = "none" /\ (\A k \in Cells : k < l => launch[k] # "none")
               => peer_id_counter = l - 1

LEMMA IdInit == Init => LaunchTypes /\ IdInv
<1> SUFFICES ASSUME Init PROVE LaunchTypes /\ IdInv
  OBVIOUS
<1>1. LaunchTypes
  BY DEF Init, LaunchTypes, HostPhases
<1>2. ASSUME NEW l \in Cells, \A k \in Cells : k < l => launch[k] # "none"
      PROVE  peer_id_counter = l - 1
  <2>1. l = 1
    <3> SUFFICES ASSUME l # 1 PROVE FALSE
      OBVIOUS
    <3>1. 1 \in Cells /\ 1 < l
      BY DEF Cells
    <3> QED
      BY <1>2, <3>1 DEF Init
  <2> QED
    BY <2>1 DEF Init
<1> QED
  BY <1>1, <1>2 DEF Init, IdInv

LEMMA LaunchTypeStep == LaunchTypes /\ [Next]_vars => LaunchTypes'
<1> SUFFICES ASSUME LaunchTypes, [Next]_vars PROVE LaunchTypes'
  OBVIOUS
<1>1. ASSUME NEW l \in Cells, AddPeerClaim(l) PROVE LaunchTypes'
  <2>1. peer_id_counter' \in 0 .. IdSpace - 1
    BY <1>1 DEF LaunchTypes, AddPeerClaim, ClaimId
  <2>2. peer_id_counter < MaxPeers => peer_id_counter \in Ids
    BY DEF LaunchTypes, Ids
  <2>3. id' \in [Cells -> Ids \cup {NoId}] /\ launch' \in [Cells -> HostPhases]
    BY <1>1, <2>2 DEF LaunchTypes, AddPeerClaim, ClaimId, HostPhases
  <2> QED
    BY <2>1, <2>3 DEF LaunchTypes
<1>2. ASSUME NEW l \in Cells, LaunchStep(l), ~AddPeerClaim(l) PROVE LaunchTypes'
  BY <1>2 DEF LaunchTypes, LaunchStep, HostPhases, table, AddPeerNoDoorbell, AddPeerTransport,
     Spawn, DropTicket, RemovePeerMark, RemovePeerCount
<1>3. ASSUME NEW l \in Cells, SessionStep(l) \/ CellStep(l) PROVE LaunchTypes'
  BY <1>3, SessionFrame, CellFrame DEF LaunchTypes, table, hostSide
<1>4. CASE HostDies \/ UNCHANGED vars
  BY <1>4 DEF LaunchTypes, HostDies, table, hostSide, vars
<1> QED
  BY <1>1, <1>2, <1>3, <1>4, Steps

\* A step that begins no launch.
LEMMA IdSame ==
  ASSUME IdInv, UNCHANGED <<id, peer_id_counter>>,
         \A l \in Cells : \/ launch'[l] = launch[l]
                          \/ launch[l] \notin {"none", "rejected"} /\ launch'[l] # "none"
  PROVE  IdInv'
<1>1. \A l \in Cells : /\ launch'[l] = "none" <=> launch[l] = "none"
                       /\ launch'[l] \notin {"none", "rejected"} =>
                              launch[l] \notin {"none", "rejected"}
  OBVIOUS
<1> QED
  BY <1>1 DEF IdInv

LEMMA IdStep ==
  ASSUME Launches <= IdSpace, LaunchTypes, IdInv, [Next]_vars
  PROVE  IdInv'
<1>1. ASSUME NEW l \in Cells, AddPeerClaim(l) PROVE IdInv'
  <2>1. /\ launch[l] = "none" /\ \A k \in Cells : k < l => launch[k] # "none"
        /\ peer_id_counter' = (peer_id_counter + 1) % IdSpace
        /\ \/ launch' = [launch EXCEPT ![l] = "rejected"] /\ id' = id
           \/ /\ launch' = [launch EXCEPT ![l] = "claimed"]
              /\ id' = [id EXCEPT ![l] = peer_id_counter]
    BY <1>1 DEF AddPeerClaim, ClaimId
  <2>2. peer_id_counter = l - 1
    BY <2>1 DEF IdInv
  <2>3. /\ \A k \in Cells : k # l => launch'[k] = launch[k] /\ id'[k] = id[k]
        /\ \/ launch'[l] = "rejected" /\ id'[l] = id[l]
           \/ launch'[l] = "claimed" /\ id'[l] = l - 1
    BY <2>1, <2>2 DEF LaunchTypes
  <2>4. \A k \in Cells : /\ id'[k] \in {NoId, k - 1}
                         /\ launch'[k] = "none" => id'[k] = NoId
                         /\ launch'[k] \notin {"none", "rejected"} => id'[k] = k - 1
    BY <2>1, <2>3 DEF IdInv
  <2>5. ASSUME NEW k \in Cells, NEW m \in Cells, k < m, launch'[m] # "none"
        PROVE  launch'[k] # "none"
    BY <2>1, <2>3, <2>5 DEF IdInv
  <2>6. ASSUME NEW m \in Cells, launch'[m] = "none",
               \A k \in Cells : k < m => launch'[k] # "none"
        PROVE  peer_id_counter' = m - 1
    <3>1. m # l /\ launch[m] = "none"
      BY <2>3, <2>6
    <3>2. ~(m < l)
      BY <2>1, <3>1
    <3>3. m = l + 1
      <4> SUFFICES ASSUME m # l + 1 PROVE FALSE
        OBVIOUS
      <4>1. l + 1 \in Cells /\ l < l + 1 /\ l + 1 < m /\ l + 1 # l
        BY <3>1, <3>2, CellNumbers DEF Cells
      <4>2. launch[l + 1] # "none"
        BY <2>3, <2>6, <4>1
      <4> QED
        BY <2>1, <4>1, <4>2 DEF IdInv
    <3>4. l \in Nat \ {0} /\ l + 1 <= IdSpace
      BY <3>3, CellNumbers
    <3>5. (l - 1 + 1) % IdSpace = l
      BY <3>4
    <3> QED
      BY <2>1, <2>2, <3>3, <3>5
  <2> QED
    BY <2>4, <2>5, <2>6 DEF IdInv
<1>2. ASSUME NEW l \in Cells, LaunchStep(l), ~AddPeerClaim(l) PROVE IdInv'
  <2>1. UNCHANGED <<id, peer_id_counter>>
    BY <1>2 DEF LaunchStep, table, AddPeerNoDoorbell, AddPeerTransport, Spawn, DropTicket,
       RemovePeerMark, RemovePeerCount
  <2>2. \A k \in Cells : \/ launch'[k] = launch[k]
                         \/ launch[k] \notin {"none", "rejected"} /\ launch'[k] # "none"
    BY <1>2 DEF LaunchTypes, LaunchStep, AddPeerNoDoorbell, AddPeerTransport, Spawn,
       DropTicket, RemovePeerMark, RemovePeerCount
  <2> QED
    BY <2>1, <2>2, IdSame
<1>3. ASSUME NEW l \in Cells, SessionStep(l) \/ CellStep(l) PROVE IdInv'
  BY <1>3, SessionFrame, CellFrame, IdSame DEF table, hostSide
<1>4. CASE HostDies \/ UNCHANGED vars
  BY <1>4, IdSame DEF HostDies, table, hostSide, vars
<1> QED
  BY <1>1, <1>2, <1>3, <1>4, Steps

LEMMA IdsDiffer == IdInv => IdsNeverShared
BY CellNumbers DEF IdInv, IdsNeverShared, NoId

\* As long as there are no more launches than ids, no two launches have the same
\* id, whatever failed before (add_peer).
THEOREM IdsAreNeverShared ==
  ASSUME Launches <= IdSpace
  PROVE  Spec => []IdsNeverShared
<1>1. LaunchTypes /\ IdInv /\ [Next]_vars => IdInv'
  BY IdStep
<1> QED
  BY <1>1, IdInit, LaunchTypeStep, IdsDiffer, PTL DEF Spec

-----------------------------------------------------------------------------
(* The count of peers *)

AddedCells == {l \in Cells : Added(l)}

LEMMA AddedFinite == IsFiniteSet(AddedCells)
<1>1. IsFiniteSet(Cells)
  BY FS_Interval DEF Cells
<1> QED
  BY <1>1, FS_Subset DEF AddedCells

LEMMA PeersInit == Init => ActivePeersExact
<1> SUFFICES ASSUME Init PROVE ActivePeersExact
  OBVIOUS
<1>1. {l \in Cells : Added(l)} = {}
  BY DEF Init, Added
<1> QED
  BY <1>1, FS_EmptySet DEF Init, ActivePeersExact

LEMMA PeersStep ==
  ASSUME LaunchTypes, ActivePeersExact, [Next]_vars
  PROVE  ActivePeersExact'
<1>1. active_peers = Cardinality(AddedCells)
  BY DEF ActivePeersExact, AddedCells
<1> SUFFICES active_peers' = Cardinality(AddedCells')
  BY DEF ActivePeersExact, AddedCells
<1>2. ASSUME NEW l \in Cells, AddPeerTransport(l) PROVE active_peers' = Cardinality(AddedCells')
  <2>1. AddedCells' = AddedCells \cup {l} /\ l \notin AddedCells
        /\ active_peers' = active_peers + 1
    BY <1>2 DEF AddPeerTransport, AddedCells, Added, LaunchTypes
  <2> QED
    BY <1>1, <2>1, AddedFinite, FS_AddElement
<1>3. ASSUME NEW l \in Cells, RemovePeerCount(l) PROVE active_peers' = Cardinality(AddedCells')
  <2>1. AddedCells' = AddedCells \ {l} /\ l \in AddedCells
        /\ active_peers' = active_peers - 1
    BY <1>3 DEF RemovePeerCount, AddedCells, Added, LaunchTypes
  <2> QED
    BY <1>1, <2>1, AddedFinite, FS_RemoveElement
<1>4. ASSUME NEW l \in Cells, LaunchStep(l), ~AddPeerTransport(l), ~RemovePeerCount(l)
      PROVE  active_peers' = Cardinality(AddedCells')
  <2>1. AddedCells' = AddedCells /\ active_peers' = active_peers
    BY <1>4 DEF AddedCells, Added, LaunchTypes, LaunchStep, table, AddPeerClaim, ClaimId,
       AddPeerNoDoorbell, Spawn, DropTicket, RemovePeerMark
  <2> QED
    BY <1>1, <2>1
<1>5. ASSUME NEW l \in Cells, SessionStep(l) \/ CellStep(l)
      PROVE  active_peers' = Cardinality(AddedCells')
  BY <1>1, <1>5, SessionFrame, CellFrame DEF AddedCells, Added, table, hostSide
<1>6. CASE HostDies \/ UNCHANGED vars
  BY <1>1, <1>6 DEF AddedCells, Added, HostDies, table, hostSide, vars
<1> QED
  BY <1>2, <1>3, <1>4, <1>5, <1>6, Steps

\* active_peers counts the peers that were handed out and not removed, an add_peer
\* that failed half-way or not (add_peer, remove_peer).
THEOREM PeersAreCounted == Spec => []ActivePeersExact
BY IdInit, LaunchTypeStep, PeersInit, PeersStep, PTL DEF Spec

-----------------------------------------------------------------------------
(* The death of a peer *)

Attached == {"opened", "registering", "registered", "dispatching", "ready", "asked", "joining"}

DeathTypes ==
    /\ LaunchTypes
    /\ peerEnd \in [Cells -> SUBSET Processes]
    /\ told \in [Cells -> BOOLEAN]
    /\ transport \in [Cells -> {"none", "open", "closed"}]
    /\ cell \in [Cells -> CellSteps \cup {"none", "exited"}]

\* The callback comes when nobody has the peer's end of the doorbell, no new end
\* is made afterwards, and a cell past the check of its descriptor has one.
DeathAt(l) ==
    /\ launch[l] \in {"none", "claimed", "rejected"} => transport[l] = "none" /\ ~told[l]
    /\ launch[l] \in {"none", "claimed", "rejected", "added"} => cell[l] = "none"
    /\ launch[l] \in {"removing", "removed"} => told[l]
    /\ told[l] => peerEnd[l] = {}
    /\ cell[l] \in Attached => l \in peerEnd[l]

DeathInv == \A l \in Cells : DeathAt(l)

LEMMA DeathInit == Init => DeathTypes /\ DeathInv
BY IdInit DEF Init, DeathTypes, DeathInv, DeathAt, Attached

Exits(l) == /\ cell' = [cell EXCEPT ![l] = "exited"]
            /\ peerEnd' = Exit(peerEnd, {l})

LEMMA CellMoving ==
  ASSUME NEW l \in Cells, CellStep(l), cell \in [Cells -> CellSteps \cup {"none", "exited"}]
  PROVE  \/ UNCHANGED <<cell, peerEnd>>
         \/ Exits(l) /\ cell[l] \in CellSteps
         \/ /\ UNCHANGED peerEnd
            /\ \E to \in CellSteps : cell' = [cell EXCEPT ![l] = to]
            /\ cell[l] \in CellSteps
            /\ cell'[l] \in Attached => cell[l] \in Attached \/ l \in peerEnd[l]
<1>1. CASE CellExits(l) \/ CellCrashes(l)
  BY <1>1 DEF CellExits, CellCrashes, Exits, Step, Alive, CellSteps
<1>2. CASE Arm(l)
  BY <1>2 DEF Arm, Step, CellSteps, Attached, ends
<1>3. CASE OpenHub(l)
  BY <1>3 DEF OpenHub, Step, CellSteps, Attached, ends, Exits
<1>4. CASE RegisterActive(l) \/ RegisterUnreserve(l) \/ SetDispatcher(l) \/ SpawnRun(l)
  BY <1>4 DEF RegisterActive, RegisterUnreserve, SetDispatcher, SpawnRun, Step, CellSteps,
     Attached, ends
<1>5. CASE AskReady(l) \/ GiveUpReady(l)
  BY <1>5 DEF AskReady, GiveUpReady, Step, CellSteps, Attached, ends
<1>6. CASE CellRecvAck(l)
  <2>1. CASE cell[l] = "asked"
    BY <1>6, <2>1 DEF CellRecvAck, CellSteps, Attached, ends
  <2>2. CASE cell[l] # "asked"
    BY <1>6, <2>2 DEF CellRecvAck, ends
  <2> QED
    BY <2>1, <2>2
<1>7. CASE CellRecvHello(l) \/ CellSendsHello(l) \/ CellRecvCall(l) \/ CellCloses(l)
  BY <1>7 DEF CellRecvHello, CellSendsHello, CellRecvCall, CellCloses, ends
<1> QED
  BY <1>1, <1>2, <1>3, <1>4, <1>5, <1>6, <1>7 DEF CellStep

LEMMA DeathTypeStep == DeathTypes /\ [Next]_vars => DeathTypes'
<1> SUFFICES ASSUME DeathTypes, [Next]_vars PROVE DeathTypes'
  OBVIOUS
<1>0. LaunchTypes'
  BY LaunchTypeStep DEF DeathTypes
<1> DEFINE PeerEndOK == peerEnd' \in [Cells -> SUBSET Processes]
           CellOK == cell' \in [Cells -> CellSteps \cup {"none", "exited"}]
           RestOK == /\ told' \in [Cells -> BOOLEAN]
                     /\ transport' \in [Cells -> {"none", "open", "closed"}]
<1>1. ASSUME NEW l \in Cells, LaunchStep(l), ~Spawn(l) PROVE PeerEndOK /\ CellOK /\ RestOK
  BY <1>1, CellNumbers DEF DeathTypes, LaunchStep, ends, cellSide, AddPeerClaim,
     AddPeerNoDoorbell, AddPeerTransport, DropTicket, RemovePeerMark, RemovePeerCount
<1>2. ASSUME NEW l \in Cells, Spawn(l) PROVE PeerEndOK /\ CellOK /\ RestOK
  BY <1>2, CellNumbers DEF DeathTypes, Spawn, Inherit, CellSteps
<1>3. ASSUME NEW l \in Cells, SessionStep(l) PROVE PeerEndOK /\ CellOK /\ RestOK
  BY <1>3, SessionFrame DEF DeathTypes, ends, cellSide, HostSignal
<1>4. ASSUME NEW l \in Cells, CellStep(l) PROVE PeerEndOK /\ CellOK /\ RestOK
  <2>1. RestOK
    BY <1>4, CellFrame DEF DeathTypes, hostSide
  <2>2. PeerEndOK /\ CellOK
    BY <1>4, CellMoving DEF DeathTypes, Exits, Exit
  <2> QED
    BY <2>1, <2>2
<1>5. ASSUME HostDies PROVE PeerEndOK /\ CellOK /\ RestOK
  <2>1. RestOK
    BY <1>5 DEF DeathTypes, HostDies, hostSide
  <2>2. CellOK
    BY <1>5 DEF DeathTypes, HostDies
  <2>3. PeerEndOK
    BY <1>5 DEF DeathTypes, HostDies, Exit
  <2> QED
    BY <2>1, <2>2, <2>3
<1>6. ASSUME UNCHANGED vars PROVE PeerEndOK /\ CellOK /\ RestOK
  <2>1. UNCHANGED <<told, transport, cell, peerEnd>>
    BY <1>6 DEF vars, ends, hostSide, cellSide
  <2> QED
    BY <2>1 DEF DeathTypes
<1> QED
  BY <1>0, <1>1, <1>2, <1>3, <1>4, <1>5, <1>6, Steps DEF DeathTypes

LEMMA DeathStep == DeathTypes /\ DeathInv /\ [Next]_vars => DeathInv'
<1> SUFFICES ASSUME DeathTypes, DeathInv, [Next]_vars, NEW m \in Cells, DeathAt(m)
             PROVE  DeathAt(m)'
  BY DEF DeathInv
<1>0. /\ launch \in [Cells -> HostPhases] /\ peerEnd \in [Cells -> SUBSET Processes]
      /\ told \in [Cells -> BOOLEAN] /\ transport \in [Cells -> {"none", "open", "closed"}]
      /\ cell \in [Cells -> CellSteps \cup {"none", "exited"}]
  BY DEF DeathTypes, LaunchTypes
<1>1. ASSUME NEW l \in Cells, LaunchStep(l), ~Spawn(l) PROVE DeathAt(m)'
  <2>1. CASE AddPeerClaim(l)
    <3>1. /\ launch'[m] = launch[m] \/ (l = m /\ launch[m] = "none")
          /\ launch'[m] = launch[m] \/ launch'[m] \in {"claimed", "rejected"}
          /\ UNCHANGED <<transport, told, cell, peerEnd>>
      BY <1>0, <2>1 DEF AddPeerClaim, ClaimId, ends, cellSide
    <3> QED
      BY <3>1 DEF DeathAt
  <2>2. CASE AddPeerNoDoorbell(l)
    BY <1>0, <2>2 DEF AddPeerNoDoorbell, DeathAt, ends, cellSide
  <2>3. CASE AddPeerTransport(l)
    BY <1>0, <2>3 DEF AddPeerTransport, DeathAt, cellSide, Attached
  <2>4. CASE DropTicket(l)
    BY <1>0, <2>4, CellNumbers DEF DropTicket, DeathAt, cellSide
  <2>5. CASE RemovePeerMark(l) \/ RemovePeerCount(l)
    BY <1>0, <2>5 DEF RemovePeerMark, RemovePeerCount, DeathAt, ends, cellSide
  <2> QED
    BY <1>1, <2>1, <2>2, <2>3, <2>4, <2>5 DEF LaunchStep
<1>2. ASSUME NEW l \in Cells, Spawn(l) PROVE DeathAt(m)'
  <2>1. /\ \/ launch'[m] = launch[m] /\ cell'[m] = cell[m]
           \/ launch[m] = "added" /\ launch'[m] = "spawned" /\ cell'[m] = "forked"
        /\ UNCHANGED <<transport, told>>
    BY <1>0, <1>2 DEF Spawn
  <2>2. peerEnd[m] \subseteq peerEnd'[m] /\ (peerEnd[m] = {} => peerEnd'[m] = {})
    BY <1>0, <1>2 DEF Spawn, Inherit
  <2>3. cell[m] \in Attached => m \in peerEnd[m]
    BY DEF DeathAt
  <2>4. cell'[m] \in Attached => m \in peerEnd'[m]
    BY <2>1, <2>2, <2>3 DEF Attached
  <2> QED
    BY <2>1, <2>2, <2>4 DEF DeathAt
<1>3. ASSUME NEW l \in Cells, SessionStep(l) PROVE DeathAt(m)'
  <2>1. /\ UNCHANGED <<launch, cell, peerEnd>>
        /\ \/ UNCHANGED <<told, transport>>
           \/ (transport[l] = "open" /\ HostSignal(l))
    BY <1>3, SessionFrame DEF ends, cellSide
  <2> QED
    BY <1>0, <2>1 DEF DeathAt, HostSignal
<1>4. ASSUME NEW l \in Cells, CellStep(l) PROVE DeathAt(m)'
  <2>1. UNCHANGED <<launch, transport, told>>
    BY <1>4, CellFrame DEF hostSide
  <2>2. CASE UNCHANGED <<cell, peerEnd>>
    BY <2>1, <2>2 DEF DeathAt
  <2>3. CASE Exits(l) /\ cell[l] \in CellSteps
    BY <1>0, <2>1, <2>3 DEF Exits, Exit, DeathAt, Attached, CellSteps
  <2>4. CASE /\ UNCHANGED peerEnd
             /\ \E to \in CellSteps : cell' = [cell EXCEPT ![l] = to]
             /\ cell[l] \in CellSteps
             /\ cell'[l] \in Attached => cell[l] \in Attached \/ l \in peerEnd[l]
    BY <1>0, <2>1, <2>4 DEF DeathAt, CellSteps
  <2> QED
    BY <1>0, <1>4, <2>2, <2>3, <2>4, CellMoving
<1>5. CASE HostDies
  <2>1. /\ cell'[m] = "exited" \/ (cell'[m] = cell[m] /\ ~(Alive(m) /\ cell[m] # "forked"))
        /\ peerEnd'[m] \subseteq peerEnd[m]
        /\ cell'[m] = "exited" => Alive(m) \/ cell[m] = "exited"
        /\ UNCHANGED <<launch, transport, told>>
    BY <1>0, <1>5 DEF HostDies, Exit, hostSide
  <2>2. cell'[m] \notin Attached
    BY <2>1 DEF Attached, Alive, CellSteps
  <2> QED
    BY <2>1, <2>2 DEF DeathAt, Alive, CellSteps
<1>6. CASE UNCHANGED vars
  BY <1>6 DEF DeathAt, vars, ends, hostSide, cellSide
<1> QED
  BY <1>1, <1>2, <1>3, <1>4, <1>5, <1>6, Steps

LEMMA ToldIsGone == DeathTypes /\ DeathInv => CallbackOnlyWhenGone
BY DEF DeathTypes, DeathInv, DeathAt, CallbackOnlyWhenGone, Attached, CellSteps

\* on_death is called only for a process that does not use the doorbell
\* (handle_signal_result, the inherited descriptors).
THEOREM CallbackMeansGone == Spec => []CallbackOnlyWhenGone
BY DeathInit, DeathTypeStep, DeathStep, ToldIsGone, PTL DEF Spec

-----------------------------------------------------------------------------
(* A cell that is ready *)

Served == {"registered", "dispatching", "ready", "asked", "joining"}

ReadyTypes ==
    /\ DeathTypes
    /\ flags \in [Ids -> SUBSET {"RESERVED", "ACTIVE", "DEAD"}]
    /\ cellRun \in [Cells -> {"none", "hello", "reply", "running", "ended", "failed"}]
    /\ dispatcher \in [Cells -> BOOLEAN]
    /\ unserved \in [Cells -> BOOLEAN]
    /\ acked \in [Cells -> BOOLEAN]
    /\ toHost \in [Cells -> Seq(Frames)]

\* The entry of a launch that was not reported dead follows the steps of its cell.
FlagsAt(l) ==
    launch[l] \in {"claimed", "added", "spawned"} =>
        /\ cell[l] \in {"none", "forked", "armed", "opened"} => flags[id[l]] = {"RESERVED"}
        /\ cell[l] = "registering" => flags[id[l]] = {"RESERVED", "ACTIVE"}
        /\ cell[l] \in Served => flags[id[l]] = {"ACTIVE"}

AskedToServe(l) == acked[l] \/ \E i \in 1 .. Len(toHost[l]) : toHost[l][i] = "ready"

\* The ready signal is sent last of all.
ServingAt(l) ==
    /\ ~unserved[l]
    /\ cellRun[l] # "none" => dispatcher[l]
    /\ cell[l] \in {"dispatching", "ready", "asked", "joining"} => dispatcher[l]
    /\ AskedToServe(l) => Complete(cellRun[l]) /\ cell[l] \in {"asked", "joining", "exited"}

FlagsInv == \A l \in Cells : FlagsAt(l)
ServingInv == \A l \in Cells : ServingAt(l)

LEMMA ReadyInit == Init => ReadyTypes /\ FlagsInv /\ ServingInv
<1> SUFFICES ASSUME Init PROVE ReadyTypes /\ FlagsInv /\ ServingInv
  OBVIOUS
<1>1. Len(<<>>) = 0 /\ <<>> \in Seq(Frames)
  BY EmptySeq
<1>2. ReadyTypes
  BY <1>1, DeathInit DEF Init, ReadyTypes
<1>3. FlagsInv
  BY DEF Init, FlagsInv, FlagsAt
<1>4. ServingInv
  BY <1>1 DEF Init, ServingInv, ServingAt, AskedToServe
<1> QED
  BY <1>2, <1>3, <1>4

LEMMA ReadyTypeStep == ReadyTypes /\ [Next]_vars => ReadyTypes'
<1> SUFFICES ASSUME ReadyTypes, [Next]_vars PROVE ReadyTypes'
  OBVIOUS
<1>0. DeathTypes'
  BY DeathTypeStep DEF ReadyTypes
<1> DEFINE FlagsOK == flags' \in [Ids -> SUBSET {"RESERVED", "ACTIVE", "DEAD"}]
           RunOK == /\ cellRun' \in [Cells -> {"none", "hello", "reply", "running",
                                               "ended", "failed"}]
                    /\ dispatcher' \in [Cells -> BOOLEAN]
                    /\ unserved' \in [Cells -> BOOLEAN]
           AckOK == acked' \in [Cells -> BOOLEAN] /\ toHost' \in [Cells -> Seq(Frames)]
<1>1. ASSUME NEW l \in Cells, LaunchStep(l) PROVE FlagsOK /\ RunOK /\ AckOK
  <2>1. UNCHANGED <<cellRun, dispatcher, unserved, acked, toHost>>
    BY <1>1 DEF LaunchStep, cellSide, wires, AddPeerClaim, AddPeerNoDoorbell,
       AddPeerTransport, Spawn, DropTicket, RemovePeerMark, RemovePeerCount
  <2>2. FlagsOK
    BY <1>1 DEF ReadyTypes, LaunchStep, table, AddPeerClaim, ClaimId, AddPeerNoDoorbell,
       AddPeerTransport, Spawn, DropTicket, RemovePeerMark, RemovePeerCount
  <2> QED
    BY <2>1, <2>2 DEF ReadyTypes
<1>2. ASSUME NEW l \in Cells, SessionStep(l) PROVE FlagsOK /\ RunOK /\ AckOK
  <2>1. UNCHANGED <<flags, cellRun, dispatcher, unserved>>
    BY <1>2, SessionFrame DEF table, cellSide
  <2>2. acked' = acked \/ acked' = [acked EXCEPT ![l] = TRUE]
    BY <1>2 DEF SessionStep, HostSendsHello, HostRecvHello, HostRecvReady, HostCalls,
       HostRunEnds
  <2>3. toHost' = toHost \/ (toHost[l] # <<>> /\ toHost' = [toHost EXCEPT ![l] = Tail(@)])
    BY <1>2 DEF SessionStep, HostSendsHello, HostRecvHello, HostRecvReady, HostCalls,
       HostRunEnds, HostRecv, wires
  <2>4. toHost[l] # <<>> => Tail(toHost[l]) \in Seq(Frames)
    BY HeadTailProperties DEF ReadyTypes
  <2> QED
    BY <2>1, <2>2, <2>3, <2>4, ZenonT(60) DEF ReadyTypes
<1>3. ASSUME NEW l \in Cells, CellStep(l) PROVE FlagsOK /\ RunOK /\ AckOK
  <2>1. UNCHANGED acked
    BY <1>3, CellFrame DEF hostSide
  <2>2. flags' = flags \/ \E F \in {{"ACTIVE"}} :
            \/ flags' = [flags EXCEPT ![id[l]] = @ \cup F]
            \/ flags' = [flags EXCEPT ![id[l]] = @ \ {"RESERVED"}]
    BY <1>3 DEF CellStep, table, Arm, OpenHub, RegisterActive, RegisterUnreserve,
       SetDispatcher, SpawnRun, CellRecvHello, CellSendsHello, AskReady, GiveUpReady,
       CellRecvAck, CellRecvCall, CellExits, CellCloses, CellCrashes
  <2>3. FlagsOK
    BY <2>2 DEF ReadyTypes
  <2>4. toHost' = toHost \/ \E f \in {"hello", "ready"} : toHost' = [toHost EXCEPT ![l] = Append(@, f)]
    BY <1>3 DEF CellStep, wires, Arm, OpenHub, RegisterActive, RegisterUnreserve,
       SetDispatcher, SpawnRun, CellRecvHello, CellSendsHello, AskReady, GiveUpReady,
       CellRecvAck, CellRecvCall, CellExits, CellCloses, CellCrashes
  <2>5. \A f \in {"hello", "ready"} : Append(toHost[l], f) \in Seq(Frames)
    BY AppendProperties DEF ReadyTypes, Frames
  <2>6. toHost' \in [Cells -> Seq(Frames)]
    BY <2>4, <2>5, ZenonT(60) DEF ReadyTypes
  <2>7. RunOK
    BY <1>3 DEF ReadyTypes, CellStep, wires, Arm, OpenHub, RegisterActive, RegisterUnreserve,
       SetDispatcher, SpawnRun, CellRecvHello, CellSendsHello, AskReady, GiveUpReady,
       CellRecvAck, CellRecvCall, CellExits, CellCloses, CellCrashes
  <2> QED
    BY <2>1, <2>3, <2>6, <2>7 DEF ReadyTypes
<1>4. ASSUME HostDies \/ UNCHANGED vars PROVE FlagsOK /\ RunOK /\ AckOK
  <2>1. UNCHANGED <<flags, cellRun, dispatcher, unserved, acked, toHost>>
    BY <1>4 DEF HostDies, vars, table, cellSide, hostSide, wires
  <2> QED
    BY <2>1 DEF ReadyTypes
<1> QED
  BY <1>0, <1>1, <1>2, <1>3, <1>4, Steps DEF ReadyTypes

\* The entry is written by its own launch and cell only.
LEMMA FlagsStep ==
  ASSUME ReadyTypes, IdInv, DeathInv, FlagsInv, [Next]_vars
  PROVE  FlagsInv'
<1> SUFFICES ASSUME NEW m \in Cells, FlagsAt(m) PROVE FlagsAt(m)'
  BY DEF FlagsInv
<1>0. /\ launch \in [Cells -> HostPhases] /\ id \in [Cells -> Ids \cup {NoId}]
      /\ cell \in [Cells -> CellSteps \cup {"none", "exited"}]
      /\ flags \in [Ids -> SUBSET {"RESERVED", "ACTIVE", "DEAD"}]
      /\ peer_id_counter \in 0 .. IdSpace - 1
  BY DEF ReadyTypes, DeathTypes, LaunchTypes
<1>1. /\ launch[m] \in {"claimed", "added", "spawned"} => id[m] = m - 1 /\ id[m] \in Ids
      /\ \A l \in Cells : l # m => id[l] # m - 1
      /\ m - 1 # NoId /\ NoId \notin Ids
  BY <1>0, CellNumbers DEF IdInv, NoId, Ids
<1>2. DeathAt(m)
  BY DEF DeathInv
<1>3. ASSUME NEW l \in Cells, AddPeerClaim(l) PROVE FlagsAt(m)'
  <2>1. UNCHANGED cell
    BY <1>3 DEF AddPeerClaim, cellSide
  <2>2. CASE l = m
    <3>1. cell[m] = "none"
      BY <1>2, <1>3, <2>2 DEF AddPeerClaim, DeathAt
    <3>2. CASE launch' = [launch EXCEPT ![l] = "rejected"]
      BY <1>0, <2>2, <3>2 DEF FlagsAt
    <3>3. CASE /\ peer_id_counter < MaxPeers
               /\ id' = [id EXCEPT ![l] = peer_id_counter]
               /\ flags' = [flags EXCEPT ![peer_id_counter] = {"RESERVED"}]
      <4>1. peer_id_counter \in Ids
        BY <1>0, <3>3 DEF Ids
      <4>2. flags'[id'[m]] = {"RESERVED"}
        BY <1>0, <2>2, <3>3, <4>1
      <4> QED
        BY <2>1, <3>1, <4>2 DEF FlagsAt, Served
    <3> QED
      BY <1>3, <3>2, <3>3 DEF AddPeerClaim, ClaimId
  <2>3. CASE l # m
    <3>1. peer_id_counter = l - 1
      BY <1>3 DEF AddPeerClaim, IdInv
    <3>2. l - 1 # m - 1
      BY <2>3, CellNumbers
    <3>3. launch'[m] = launch[m] /\ id'[m] = id[m]
      BY <1>0, <1>3, <2>3 DEF AddPeerClaim, ClaimId
    <3>4. id[m] = m - 1 => flags'[id[m]] = flags[id[m]]
      <4>1. flags' = flags \/ flags' = [flags EXCEPT ![l - 1] = {"RESERVED"}]
        BY <1>3, <3>1 DEF AddPeerClaim, ClaimId
      <4>2. id[m] = m - 1 => id[m] \in Ids
        BY <1>0, <1>1
      <4> QED
        BY <1>0, <3>2, <4>1, <4>2
    <3> QED
      BY <1>1, <2>1, <3>3, <3>4 DEF FlagsAt
  <2> QED
    BY <2>2, <2>3
<1>4. ASSUME NEW l \in Cells, AddPeerNoDoorbell(l) \/ AddPeerTransport(l) \/ DropTicket(l)
      PROVE  FlagsAt(m)'
  <2>1. /\ UNCHANGED <<cell, flags, id>>
        /\ launch'[m] = launch[m] \/ launch[m] = "claimed"
    BY <1>0, <1>4 DEF AddPeerNoDoorbell, AddPeerTransport, DropTicket, table, cellSide
  <2> QED
    BY <2>1 DEF FlagsAt
<1>5. ASSUME NEW l \in Cells, Spawn(l) PROVE FlagsAt(m)'
  <2>1. /\ UNCHANGED <<flags, id>>
        /\ \/ launch'[m] = launch[m] /\ cell'[m] = cell[m]
           \/ launch[m] = "added" /\ cell'[m] = "forked"
    BY <1>0, <1>5 DEF Spawn, table
  <2> QED
    BY <1>2, <2>1 DEF FlagsAt, DeathAt, Served
<1>6. ASSUME NEW l \in Cells, RemovePeerMark(l) \/ RemovePeerCount(l) PROVE FlagsAt(m)'
  <2>1. /\ UNCHANGED <<cell, id>>
        /\ l = m => launch'[m] \in {"removing", "removed"}
        /\ l # m => launch'[m] = launch[m]
        /\ \E F \in SUBSET {"RESERVED", "ACTIVE", "DEAD"} : flags' = [flags EXCEPT ![id[l]] = F]
    <3>1. \E F \in SUBSET {"RESERVED", "ACTIVE", "DEAD"} : flags' = [flags EXCEPT ![id[l]] = F]
      <4>1. id[l] \in Ids
        <5>1. launch[l] \in {"added", "spawned", "removing"}
          BY <1>6 DEF RemovePeerMark, RemovePeerCount
        <5>2. id[l] = l - 1 /\ l - 1 # NoId
          BY <5>1, CellNumbers DEF IdInv, NoId
        <5> QED
          BY <1>0, <5>2
      <4>2. flags[id[l]] \cup {"DEAD"} \in SUBSET {"RESERVED", "ACTIVE", "DEAD"}
            /\ flags[id[l]] \ {"ACTIVE"} \in SUBSET {"RESERVED", "ACTIVE", "DEAD"}
        BY <1>0, <4>1
      <4> QED
        BY <1>6, <4>2 DEF RemovePeerMark, RemovePeerCount
    <3> QED
      BY <1>0, <1>6, <3>1 DEF RemovePeerMark, RemovePeerCount, cellSide
  <2>2. CASE l = m
    BY <2>1, <2>2 DEF FlagsAt
  <2>3. CASE l # m
    BY <1>0, <1>1, <2>1, <2>3 DEF FlagsAt
  <2> QED
    BY <2>2, <2>3
<1>7. ASSUME NEW l \in Cells, SessionStep(l) PROVE FlagsAt(m)'
  BY <1>7, SessionFrame DEF FlagsAt, table, cellSide
<1>8. ASSUME NEW l \in Cells, CellStep(l) PROVE FlagsAt(m)'
  <2>1. UNCHANGED <<launch, id>>
    BY <1>8, CellFrame DEF hostSide
  <2>2. CASE RegisterActive(l)
    <3>1. /\ cell[l] = "opened" /\ cell' = [cell EXCEPT ![l] = "registering"]
          /\ flags' = [flags EXCEPT ![id[l]] = @ \cup {"ACTIVE"}]
      BY <2>2 DEF RegisterActive, Step
    <3>2. CASE l = m
      BY <1>0, <1>1, <2>1, <3>1, <3>2 DEF FlagsAt, Served
    <3>3. CASE l # m
      BY <1>0, <1>1, <2>1, <3>1, <3>3 DEF FlagsAt
    <3> QED
      BY <3>2, <3>3
  <2>3. CASE RegisterUnreserve(l)
    <3>1. /\ cell[l] = "registering" /\ cell' = [cell EXCEPT ![l] = "registered"]
          /\ flags' = [flags EXCEPT ![id[l]] = @ \ {"RESERVED"}]
      BY <2>3 DEF RegisterUnreserve, Step
    <3>2. CASE l = m
      BY <1>0, <1>1, <2>1, <3>1, <3>2 DEF FlagsAt, Served
    <3>3. CASE l # m
      BY <1>0, <1>1, <2>1, <3>1, <3>3 DEF FlagsAt
    <3> QED
      BY <3>2, <3>3
  <2>4. CASE ~RegisterActive(l) /\ ~RegisterUnreserve(l)
    <3>1. UNCHANGED flags
      BY <1>8, <2>4 DEF CellStep, table, Arm, OpenHub, SetDispatcher, SpawnRun,
         CellRecvHello, CellSendsHello, AskReady, GiveUpReady, CellRecvAck, CellRecvCall,
         CellExits, CellCloses, CellCrashes
    <3>2. \/ cell'[m] = cell[m]
          \/ cell'[m] = "exited"
          \/ cell[m] \in {"forked", "armed"} /\ cell'[m] \in {"armed", "opened"}
          \/ cell[m] \in Served /\ cell'[m] \in Served
      BY <1>0, <1>8, <2>4 DEF CellStep, Step, Served, Arm, OpenHub, SetDispatcher, SpawnRun,
         CellRecvHello, CellSendsHello, AskReady, GiveUpReady, CellRecvAck, CellRecvCall,
         CellExits, CellCloses, CellCrashes
    <3> QED
      BY <2>1, <3>1, <3>2 DEF FlagsAt, Served
  <2> QED
    BY <2>2, <2>3, <2>4
<1>9. ASSUME HostDies \/ UNCHANGED vars PROVE FlagsAt(m)'
  <2>1. UNCHANGED <<launch, id, flags>> /\ (cell'[m] = cell[m] \/ cell'[m] = "exited")
    BY <1>9 DEF HostDies, vars, table, hostSide, cellSide
  <2> QED
    BY <2>1 DEF FlagsAt, Served
<1> QED
  BY <1>3, <1>4, <1>5, <1>6, <1>7, <1>8, <1>9, Steps DEF LaunchStep

\* The ready signal is on its way only when the cell can serve.
LEMMA ServingStep ==
  ASSUME ReadyTypes, DeathInv, ServingInv, [Next]_vars
  PROVE  ServingInv'
<1> SUFFICES ASSUME NEW m \in Cells, ServingAt(m) PROVE ServingAt(m)'
  BY DEF ServingInv
<1>0. /\ cell \in [Cells -> CellSteps \cup {"none", "exited"}]
      /\ cellRun \in [Cells -> {"none", "hello", "reply", "running", "ended", "failed"}]
      /\ dispatcher \in [Cells -> BOOLEAN] /\ unserved \in [Cells -> BOOLEAN]
      /\ acked \in [Cells -> BOOLEAN] /\ toHost \in [Cells -> Seq(Frames)]
  BY DEF ReadyTypes, DeathTypes
<1>1. ASSUME NEW l \in Cells, LaunchStep(l) PROVE ServingAt(m)'
  <2>1. /\ UNCHANGED <<cellRun, dispatcher, unserved, acked, toHost>>
        /\ cell'[m] = cell[m] \/ (l = m /\ cell'[m] = "forked" /\ launch[m] = "added")
    BY <1>0, <1>1 DEF LaunchStep, cellSide, wires, AddPeerClaim, AddPeerNoDoorbell,
       AddPeerTransport, Spawn, DropTicket, RemovePeerMark, RemovePeerCount
  <2>2. launch[m] = "added" => cell[m] = "none"
    BY DEF DeathInv, DeathAt
  <2> QED
    BY <2>1, <2>2 DEF ServingAt, AskedToServe
<1>2. ASSUME NEW l \in Cells, SessionStep(l) PROVE ServingAt(m)'
  <2>1. UNCHANGED <<cell, cellRun, dispatcher, unserved>>
    BY <1>2, SessionFrame DEF cellSide
  <2>2. \/ toHost'[m] = toHost[m] /\ acked'[m] = acked[m]
        \/ /\ toHost[m] # <<>> /\ toHost'[m] = Tail(toHost[m])
           /\ acked'[m] = acked[m] \/ Head(toHost[m]) = "ready"
    BY <1>0, <1>2 DEF SessionStep, HostSendsHello, HostRecvHello, HostRecvReady, HostCalls,
       HostRunEnds, HostRecv, wires
  <2>3. AskedToServe(m)' => AskedToServe(m)
    <3>1. CASE toHost'[m] = toHost[m] /\ acked'[m] = acked[m]
      BY <3>1 DEF AskedToServe
    <3>2. CASE /\ toHost[m] # <<>> /\ toHost'[m] = Tail(toHost[m])
               /\ acked'[m] = acked[m] \/ Head(toHost[m]) = "ready"
      <4>1. /\ Len(toHost[m]) \in Nat \ {0} /\ Len(toHost'[m]) = Len(toHost[m]) - 1
            /\ \A i \in 1 .. Len(toHost[m]) - 1 : toHost'[m][i] = toHost[m][i + 1]
            /\ Head(toHost[m]) = toHost[m][1]
        BY <1>0, <3>2, HeadTailProperties, EmptySeq
      <4>2. \A i \in 1 .. Len(toHost'[m]) :
                i + 1 \in 1 .. Len(toHost[m]) /\ toHost'[m][i] = toHost[m][i + 1]
        BY <4>1
      <4>3. 1 \in 1 .. Len(toHost[m])
        BY <4>1
      <4> QED
        BY <3>2, <4>1, <4>2, <4>3 DEF AskedToServe
    <3> QED
      BY <2>2, <3>1, <3>2
  <2> QED
    BY <2>1, <2>3 DEF ServingAt
<1>3. ASSUME NEW l \in Cells, CellStep(l), l # m PROVE ServingAt(m)'
  <2>1. /\ cell'[m] = cell[m] /\ cellRun'[m] = cellRun[m] /\ dispatcher'[m] = dispatcher[m]
        /\ unserved'[m] = unserved[m] /\ toHost'[m] = toHost[m]
    BY <1>0, <1>3 DEF CellStep, Step, wires, Arm, OpenHub, RegisterActive, RegisterUnreserve,
       SetDispatcher, SpawnRun, CellRecvHello, CellSendsHello, AskReady, GiveUpReady,
       CellRecvAck, CellRecvCall, CellExits, CellCloses, CellCrashes
  <2>2. acked' = acked
    BY <1>3, CellFrame DEF hostSide
  <2> QED
    BY <2>1, <2>2 DEF ServingAt, AskedToServe
<1>4. ASSUME CellStep(m) PROVE ServingAt(m)'
  <2>0. acked' = acked
    BY <1>4, CellFrame DEF hostSide
  <2>1. CASE \/ Arm(m) \/ OpenHub(m) \/ RegisterActive(m) \/ RegisterUnreserve(m)
             \/ GiveUpReady(m) \/ CellRecvAck(m) \/ CellExits(m) \/ CellCrashes(m)
    <3>1. UNCHANGED <<cellRun, dispatcher, unserved, toHost>>
      BY <2>1 DEF wires, Arm, OpenHub, RegisterActive, RegisterUnreserve, GiveUpReady,
         CellRecvAck, CellExits, CellCrashes
    <3>2. \/ cell'[m] = cell[m] \/ cell'[m] = "exited"
          \/ cell[m] \in {"forked", "armed", "opened", "registering"}
             /\ cell'[m] \in {"armed", "opened", "registering", "registered"}
          \/ cell[m] = "asked" /\ cell'[m] = "joining"
          \/ cell[m] = "ready" /\ cell'[m] = "joining"
      BY <1>0, <2>1 DEF Step, Arm, OpenHub, RegisterActive, RegisterUnreserve, GiveUpReady,
         CellRecvAck, CellExits, CellCrashes
    <3> QED
      BY <2>0, <3>1, <3>2 DEF ServingAt, AskedToServe
  <2>2. CASE SetDispatcher(m)
    BY <1>0, <2>0, <2>2 DEF SetDispatcher, Step, wires, ServingAt, AskedToServe
  <2>3. CASE SpawnRun(m)
    BY <1>0, <2>0, <2>3 DEF SpawnRun, Step, wires, ServingAt, AskedToServe
  <2>4. CASE CellRecvHello(m)
    BY <1>0, <2>0, <2>4 DEF CellRecvHello, ServingAt, AskedToServe, Complete
  <2>5. CASE CellRecvCall(m)
    BY <1>0, <2>0, <2>5 DEF CellRecvCall, ServingAt, AskedToServe
  <2>6. CASE CellCloses(m)
    BY <1>0, <2>0, <2>6 DEF CellCloses, wires, ServingAt, AskedToServe, Complete
  <2>7. CASE CellSendsHello(m)
    <3>1. /\ UNCHANGED <<cell, dispatcher, unserved>>
          /\ cellRun[m] = "reply" /\ toHost'[m] = Append(toHost[m], "hello")
          /\ cellRun'[m] # "none"
      BY <1>0, <2>7 DEF CellSendsHello
    <3>2. ~AskedToServe(m) /\ dispatcher[m]
      BY <3>1 DEF ServingAt, Complete
    <3>3. /\ Len(toHost'[m]) = Len(toHost[m]) + 1 /\ Len(toHost[m]) \in Nat
          /\ \A i \in 1 .. Len(toHost[m]) : toHost'[m][i] = toHost[m][i]
          /\ toHost'[m][Len(toHost[m]) + 1] = "hello"
      BY <1>0, <3>1, AppendProperties, LenProperties DEF Frames
    <3>4. \A i \in 1 .. Len(toHost'[m]) : i \in 1 .. Len(toHost[m]) \/ i = Len(toHost[m]) + 1
      BY <3>3
    <3>5. ~AskedToServe(m)'
      BY <2>0, <3>2, <3>3, <3>4 DEF AskedToServe
    <3> QED
      BY <3>1, <3>2, <3>5 DEF ServingAt
  <2>8. CASE AskReady(m)
    <3>1. /\ UNCHANGED <<dispatcher, cellRun, unserved>>
          /\ cellRun[m] = "running" /\ cell'[m] = "asked"
      BY <1>0, <2>8 DEF AskReady, Step
    <3> QED
      BY <3>1 DEF ServingAt, Complete
  <2> QED
    BY <1>4, <2>1, <2>2, <2>3, <2>4, <2>5, <2>6, <2>7, <2>8 DEF CellStep
<1>5. ASSUME HostDies \/ UNCHANGED vars PROVE ServingAt(m)'
  <2>1. /\ UNCHANGED <<cellRun, dispatcher, unserved, acked, toHost>>
        /\ cell'[m] = cell[m] \/ (cell'[m] = "exited" /\ Alive(m))
    BY <1>5 DEF HostDies, vars, cellSide, hostSide, wires
  <2> QED
    BY <2>1 DEF ServingAt, AskedToServe
<1> QED
  BY <1>1, <1>2, <1>3, <1>4, <1>5, Steps

LEMMA ReadyIsServed == ReadyTypes /\ DeathInv /\ FlagsInv /\ ServingInv => ReadyCellServes
<1> SUFFICES ASSUME ReadyTypes, DeathInv, FlagsInv, ServingInv, NEW l \in Cells
             PROVE  /\ ~unserved[l]
                    /\ acked[l] /\ Alive(l) =>
                           /\ dispatcher[l] /\ Complete(cellRun[l])
                           /\ flags[id[l]] = {"ACTIVE"}
  BY DEF ReadyCellServes
<1>1. ServingAt(l) /\ DeathAt(l) /\ FlagsAt(l)
  BY DEF DeathInv, FlagsInv, ServingInv
<1>2. ASSUME acked[l], Alive(l)
      PROVE  dispatcher[l] /\ Complete(cellRun[l]) /\ cell[l] \in {"asked", "joining"}
  BY <1>1, <1>2 DEF ServingAt, AskedToServe, Alive, CellSteps
<1>3. ASSUME cell[l] \in {"asked", "joining"} PROVE flags[id[l]] = {"ACTIVE"}
  <2>1. cell[l] \in Attached /\ cell[l] \in Served /\ cell[l] # "none"
    BY <1>3 DEF Attached, Served
  <2>2. ~told[l] /\ launch[l] \notin {"none", "claimed", "rejected", "added"}
    BY <1>1, <2>1 DEF DeathAt
  <2>3. launch[l] \notin {"removing", "removed"}
    BY <1>1, <2>2 DEF DeathAt
  <2>4. launch[l] = "spawned"
    BY <2>2, <2>3 DEF ReadyTypes, DeathTypes, LaunchTypes, HostPhases
  <2> QED
    BY <1>1, <2>1, <2>4 DEF FlagsAt
<1> QED
  BY <1>1, <1>2, <1>3 DEF ServingAt

\* As long as there are no more launches than ids, a cell whose ready() was answered
\* has an active entry, a run loop past its handshake and a dispatcher, and no call
\* reached it before (setup_cell, run).
THEOREM ReadyMeansServing ==
  ASSUME Launches <= IdSpace
  PROVE  Spec => []ReadyCellServes
<1>1. LaunchTypes /\ IdInv /\ [Next]_vars => IdInv'
  BY IdStep
<1>2. ReadyTypes /\ IdInv /\ DeathInv /\ FlagsInv /\ [Next]_vars => FlagsInv'
  BY FlagsStep
<1>3. ReadyTypes /\ DeathInv /\ ServingInv /\ [Next]_vars => ServingInv'
  BY ServingStep
<1> QED
  BY <1>1, <1>2, <1>3, IdInit, LaunchTypeStep, DeathInit, DeathTypeStep, DeathStep,
     ReadyInit, ReadyTypeStep, ReadyIsServed, PTL DEF Spec
====
