---- MODULE RpcSessionProofs ----
(***************************************************************************)
(* Proofs about RpcSession, for any number of calls, streams and items and *)
(* any capacities, provided the channel ids last for the session.  What    *)
(* run() of a side has in hand and what is on the wire to it are one line  *)
(* of frames: a frame leaves the line when it was handled.  Every part of  *)
(* the invariant speaks of one task, its line and the one of its peer.     *)
(***************************************************************************)
EXTENDS RpcSession, FiniteSetTheorems, SequenceTheorems, TLAPS

\* No session makes so many calls and streams that next_channel_id comes round.
IdsLast == IsFiniteSet(Tasks) /\ 2 * Cardinality(Tasks) + 2 < IdSpace

LEMMA PeerFacts ==
    ASSUME NEW x \in Sides
    PROVE  /\ Peer(x) \in Sides /\ Peer(x) # x /\ Peer(Peer(x)) = x
           /\ \A z \in Sides : z = x \/ z = Peer(x)
<1>1. \E a, b \in Sides : a # b /\ Sides = {a, b}
  <2>1. Cardinality(Sides) = 2 /\ IsFiniteSet(Sides)
    BY SessionAssumption
  <2>2. PICK a \in Sides : TRUE
    BY SessionAssumption
  <2>3. Cardinality(Sides \ {a}) = 1 /\ IsFiniteSet(Sides \ {a})
    BY <2>1, FS_RemoveElement
  <2>4. PICK b : Sides \ {a} = {b}
    BY <2>3, FS_Singleton
  <2> QED BY <2>2, <2>4
<1>2. PICK a \in Sides, b \in Sides : a # b /\ Sides = {a, b}
  BY <1>1
<1>3. \A z \in Sides : Peer(z) \in Sides /\ Peer(z) # z
  BY <1>2 DEF Peer
<1> QED BY <1>2, <1>3

-----------------------------------------------------------------------------
(* Sequences of frames. *)

LEMMA Appended ==
    ASSUME NEW q \in Seq(Frames), NEW f \in Frames
    PROVE  /\ Append(q, f) \in Seq(Frames) /\ Len(Append(q, f)) = Len(q) + 1 /\ Len(q) \in Nat
           /\ DOMAIN q = 1 .. Len(q) /\ DOMAIN Append(q, f) = 1 .. Len(q) + 1
           /\ \A i \in 1 .. Len(q) : Append(q, f)[i] = q[i]
           /\ Append(q, f)[Len(q) + 1] = f /\ Append(q, f) # <<>>
BY AppendProperties, LenProperties

LEMMA Shifted ==
    ASSUME NEW q \in Seq(Frames), q # <<>>
    PROVE  /\ Tail(q) \in Seq(Frames) /\ Len(q) \in Nat \ {0} /\ Len(Tail(q)) = Len(q) - 1
           /\ DOMAIN q = 1 .. Len(q) /\ DOMAIN Tail(q) = 1 .. Len(q) - 1
           /\ \A i \in 1 .. Len(q) - 1 : Tail(q)[i] = q[i + 1] /\ i + 1 \in DOMAIN q
           /\ Head(q) = q[1] /\ q[1] \in Frames /\ 1 \in DOMAIN q
BY HeadTailProperties, EmptySeq, LenProperties, ElementOfSeq

LEMMA Consed ==
    ASSUME NEW w \in Seq(Frames), NEW f \in Frames
    PROVE  /\ <<f>> \o w \in Seq(Frames) /\ <<f>> \o w # <<>>
           /\ Head(<<f>> \o w) = f /\ Tail(<<f>> \o w) = w
           /\ \A g \in Frames : <<f>> \o Append(w, g) = Append(<<f>> \o w, g)
           /\ w # <<>> => <<Head(w)>> \o Tail(w) = w
<1>1. <<f>> \in Seq(Frames) /\ <<f>> # <<>> /\ Head(<<f>>) = f /\ Tail(<<f>>) = <<>>
  OBVIOUS
<1> DEFINE q == <<f>> \o w
<1>2. q \in Seq(Frames) /\ Len(q) = 1 + Len(w)
  BY <1>1, ConcatProperties
<1>3. q # <<>> /\ Head(q) = f
  BY <1>1, <1>2, ConcatProperties, LenProperties, EmptySeq
<1>4. Tail(q) = w
  <2>1. Tail(q) \in Seq(Frames) /\ Len(Tail(q)) = Len(w) /\ Len(w) \in Nat
    BY <1>2, <1>3, Shifted, LenProperties
  <2>2. \A i \in 1 .. Len(w) : Tail(q)[i] = q[i + 1] /\ q[i + 1] = w[i]
    BY <1>1, <1>2, <1>3, <2>1, Shifted, ConcatProperties
  <2> QED BY <2>1, <2>2, SeqEqual
<1>5. ASSUME NEW g \in Frames PROVE <<f>> \o Append(w, g) = Append(q, g)
  <2>1. <<g>> \in Seq(Frames) /\ Append(w, g) = w \o <<g>> /\ Append(q, g) = q \o <<g>>
    BY <1>2, AppendIsConcat
  <2> QED BY <1>1, <2>1, ConcatAssociative
<1>6. ASSUME w # <<>> PROVE <<Head(w)>> \o Tail(w) = w
  BY <1>6, HeadTailProperties, ConcatSimplifications
<1> QED BY <1>2, <1>3, <1>4, <1>5, <1>6

Requests == {"request", "stream_request"}
Replies == {"response", "error", "item", "end"}

\* A frame that asks for task t, that answers it, that ends its answer.
Req(f, t) == f.kind \in Requests /\ f.of = t
Back(f, t) == f.kind \in Replies /\ f.of = t
Last(f, t) == Back(f, t) /\ f.kind # "item"
Opens(f, c) == f.kind = "open" /\ f.of = c

NoReq(q, t) == \A i \in DOMAIN q : ~Req(q[i], t)
NoBack(q, t) == \A i \in DOMAIN q : ~Back(q[i], t)

LEMMA BackTaken ==
    ASSUME NEW q \in Seq(Frames), NEW t
    PROVE  /\ \A f \in Frames : NoBack(q, t) /\ ~Back(f, t) => NoBack(Append(q, f), t)
           /\ q # <<>> /\ NoBack(q, t) => NoBack(Tail(q), t) /\ ~Back(Head(q), t)
<1>1. ASSUME NEW f \in Frames, NoBack(q, t), ~Back(f, t) PROVE NoBack(Append(q, f), t)
  BY <1>1, Appended DEF NoBack
<1>2. ASSUME q # <<>>, NoBack(q, t) PROVE NoBack(Tail(q), t) /\ ~Back(Head(q), t)
  BY <1>2, Shifted DEF NoBack
<1> QED BY <1>1, <1>2

-----------------------------------------------------------------------------
(* A request on its way: it is alone, its OpenChannel goes before it, and it *)
(* was sent and not yet dispatched.                                          *)

UnsentSteps == {"idle", "await_ready", "send_open", "send_request"}
OnceIn(q, t) == \A i, j \in DOMAIN q : Req(q[i], t) /\ Req(q[j], t) => i = j
OpenFirst(q, t, c) == \A i \in DOMAIN q : Req(q[i], t) => \E j \in 1 .. i - 1 : Opens(q[j], c)
Asking(q, t, c, open, step, runs) ==
    /\ OnceIn(q, t)
    /\ NoReq(q, t) \/ (step \notin UnsentSteps /\ runs = 0)
    /\ c \in open \/ OpenFirst(q, t, c)
    /\ c \in open \/ (step = "send_request" => \E i \in DOMAIN q : Opens(q[i], c))

LEMMA AskingAppend ==
    ASSUME NEW q \in Seq(Frames), NEW f \in Frames, NEW t, NEW c, NEW open, NEW step, NEW runs,
           Asking(q, t, c, open, step, runs), ~Req(f, t)
    PROVE  Asking(Append(q, f), t, c, open, step, runs)
<1> DEFINE more == Append(q, f)
<1>1. /\ DOMAIN q = 1 .. Len(q) /\ DOMAIN more = 1 .. Len(q) + 1 /\ Len(q) \in Nat
      /\ \A i \in 1 .. Len(q) : more[i] = q[i]
      /\ more[Len(q) + 1] = f
  BY Appended
<1> HIDE DEF more
<1>2. \A i \in DOMAIN more : Req(more[i], t) => i \in DOMAIN q /\ Req(q[i], t)
  BY <1>1
<1>3. OnceIn(more, t)
  BY <1>1, <1>2 DEF OnceIn, Asking
<1>4. NoReq(q, t) => NoReq(more, t)
  BY <1>2 DEF NoReq
<1>5. OpenFirst(q, t, c) => OpenFirst(more, t, c)
  <2> SUFFICES ASSUME OpenFirst(q, t, c), NEW i \in DOMAIN more, Req(more[i], t)
               PROVE  \E j \in 1 .. i - 1 : Opens(more[j], c)
    BY DEF OpenFirst
  <2>1. i \in DOMAIN q /\ Req(q[i], t)
    BY <1>2
  <2>2. PICK j \in 1 .. i - 1 : Opens(q[j], c)
    BY <2>1 DEF OpenFirst
  <2>3. more[j] = q[j]
    BY <1>1, <2>1, <2>2
  <2> QED BY <2>2, <2>3
<1>6. (\E i \in DOMAIN q : Opens(q[i], c)) => \E i \in DOMAIN more : Opens(more[i], c)
  BY <1>1
<1>7. Asking(more, t, c, open, step, runs)
  BY <1>3, <1>4, <1>5, <1>6 DEF Asking
<1> QED BY <1>7 DEF more

LEMMA AskingOpen ==
    ASSUME NEW q \in Seq(Frames), NEW f \in Frames, NEW t, NEW c, NEW open, NEW runs,
           Asking(q, t, c, open, "send_open", runs), Opens(f, c)
    PROVE  Asking(Append(q, f), t, c, open, "send_request", runs)
<1>1. ~Req(f, t)
  BY DEF Opens, Req, Requests
<1>2. Asking(Append(q, f), t, c, open, "send_open", runs)
  BY <1>1, AskingAppend
<1>3. \E i \in DOMAIN Append(q, f) : Opens(Append(q, f)[i], c)
  BY Appended
<1> QED BY <1>2, <1>3 DEF Asking, UnsentSteps

LEMMA AskingRequest ==
    ASSUME NEW q \in Seq(Frames), NEW f \in Frames, NEW t, NEW c, NEW open, NEW step,
           Asking(q, t, c, open, "send_request", 0), Req(f, t), step \notin UnsentSteps
    PROVE  Asking(Append(q, f), t, c, open, step, 0)
<1> DEFINE more == Append(q, f)
<1>1. /\ DOMAIN q = 1 .. Len(q) /\ DOMAIN more = 1 .. Len(q) + 1 /\ Len(q) \in Nat
      /\ \A i \in 1 .. Len(q) : more[i] = q[i]
      /\ more[Len(q) + 1] = f
  BY Appended
<1> HIDE DEF more
<1>2. \A i \in DOMAIN more : Req(more[i], t) => i = Len(q) + 1
  BY <1>1 DEF Asking, NoReq, UnsentSteps
<1>3. OnceIn(more, t)
  BY <1>2 DEF OnceIn
<1>4. c \in open \/ OpenFirst(more, t, c)
  <2> SUFFICES ASSUME c \notin open, NEW i \in DOMAIN more, Req(more[i], t)
               PROVE  \E j \in 1 .. i - 1 : Opens(more[j], c)
    BY DEF OpenFirst
  <2>1. PICK j \in DOMAIN q : Opens(q[j], c)
    BY DEF Asking
  <2>2. j \in 1 .. i - 1 /\ more[j] = q[j]
    BY <1>1, <1>2, <2>1
  <2> QED BY <2>1, <2>2
<1>5. Asking(more, t, c, open, step, 0)
  BY <1>3, <1>4 DEF Asking, UnsentSteps
<1> QED BY <1>5 DEF more

LEMMA AskingTake ==
    ASSUME NEW q \in Seq(Frames), q # <<>>, NEW t, NEW c, NEW open, NEW step, NEW runs,
           Asking(q, t, c, open, step, runs), NEW more, open \subseteq more,
           Opens(Head(q), c) => c \in more
    PROVE  /\ Asking(Tail(q), t, c, more, step, runs)
           /\ Req(Head(q), t) => /\ c \in open /\ NoReq(Tail(q), t) /\ runs = 0
                                 /\ step \notin UnsentSteps
                                 /\ \A n : Asking(Tail(q), t, c, more, step, n)
<1> DEFINE rest == Tail(q)
<1>1. /\ DOMAIN q = 1 .. Len(q) /\ Len(q) \in Nat \ {0} /\ DOMAIN rest = 1 .. Len(q) - 1
      /\ \A i \in 1 .. Len(q) - 1 : rest[i] = q[i + 1] /\ i + 1 \in DOMAIN q
      /\ Head(q) = q[1] /\ 1 \in DOMAIN q
  BY Shifted
<1> HIDE DEF rest
<1>2. OnceIn(rest, t)
  <2> SUFFICES ASSUME NEW i \in DOMAIN rest, NEW j \in DOMAIN rest, Req(rest[i], t), Req(rest[j], t)
               PROVE  i = j
    BY DEF OnceIn
  <2>1. i + 1 = j + 1
    BY <1>1 DEF Asking, OnceIn
  <2> QED BY <1>1, <2>1
<1>3. NoReq(q, t) => NoReq(rest, t) /\ ~Req(Head(q), t)
  BY <1>1 DEF NoReq
<1>4. ASSUME c \notin more PROVE OpenFirst(rest, t, c) /\ ~Req(Head(q), t)
  <2>1. OpenFirst(q, t, c)
    BY <1>4 DEF Asking
  <2>2. ASSUME NEW i \in DOMAIN rest, Req(rest[i], t) PROVE \E j \in 1 .. i - 1 : Opens(rest[j], c)
    <3>1. i + 1 \in DOMAIN q /\ Req(q[i + 1], t) /\ i \in 1 .. Len(q) - 1
      BY <1>1, <2>2
    <3>2. PICK k \in 1 .. (i + 1) - 1 : Opens(q[k], c)
      BY <2>1, <3>1 DEF OpenFirst
    <3>3. k # 1
      BY <1>1, <1>4, <3>2
    <3>4. k - 1 \in 1 .. i - 1 /\ k - 1 \in 1 .. Len(q) - 1 /\ (k - 1) + 1 = k
      BY <1>1, <3>1, <3>2, <3>3
    <3>5. rest[k - 1] = q[k]
      BY <1>1, <3>4
    <3> QED BY <3>2, <3>4, <3>5
  <2>3. ~Req(Head(q), t)
    BY <1>1, <2>1 DEF OpenFirst
  <2> QED BY <2>2, <2>3 DEF OpenFirst
<1>5. c \notin more /\ step = "send_request" => \E i \in DOMAIN rest : Opens(rest[i], c)
  <2> SUFFICES ASSUME c \notin more, step = "send_request" PROVE \E i \in DOMAIN rest : Opens(rest[i], c)
    OBVIOUS
  <2>1. PICK i \in DOMAIN q : Opens(q[i], c)
    BY DEF Asking
  <2>2. i # 1
    BY <1>1, <2>1
  <2>3. i - 1 \in DOMAIN rest /\ rest[i - 1] = q[i]
    BY <1>1, <2>1, <2>2
  <2> QED BY <2>1, <2>3
<1>6. Asking(rest, t, c, more, step, runs)
  BY <1>2, <1>3, <1>4, <1>5 DEF Asking
<1>7. ASSUME Req(Head(q), t)
      PROVE  c \in open /\ NoReq(rest, t) /\ runs = 0 /\ step \notin UnsentSteps
  <2>1. ~NoReq(q, t)
    BY <1>3, <1>7
  <2>2. NoReq(rest, t)
    <3> SUFFICES ASSUME NEW i \in DOMAIN rest, Req(rest[i], t) PROVE FALSE
      BY DEF NoReq
    <3>1. i + 1 = 1 /\ i \in Nat /\ i > 0
      BY <1>1, <1>7 DEF Asking, OnceIn
    <3> QED BY <3>1
  <2>3. ~OpenFirst(q, t, c)
    BY <1>1, <1>7 DEF OpenFirst
  <2> QED BY <2>1, <2>2, <2>3 DEF Asking
<1>8. Req(Head(q), t) => \A n : Asking(rest, t, c, more, step, n)
  BY <1>6, <1>7 DEF Asking
<1> QED BY <1>6, <1>7, <1>8 DEF rest

-----------------------------------------------------------------------------
(* The answer to a stream on its way: the items of t in q are those from the *)
(* one after b to s, in order, and a frame that ends it comes after them.    *)

IsItem(f, t) == f.kind = "item" /\ f.of = t
Numbered(q, t, b, s) ==
    /\ \A i \in DOMAIN q : IsItem(q[i], t) => q[i].n \in b + 1 .. s
    /\ \A n \in b + 1 .. s : \E i \in DOMAIN q : IsItem(q[i], t) /\ q[i].n = n
    /\ \A i, j \in DOMAIN q : i < j /\ Back(q[i], t) /\ Back(q[j], t) =>
          q[i].kind = "item" /\ (q[j].kind = "item" => q[i].n < q[j].n)

LEMMA NumberedAppend ==
    ASSUME NEW q \in Seq(Frames), NEW f \in Frames, NEW t, NEW b \in Nat, NEW s \in Nat,
           Numbered(q, t, b, s)
    PROVE  /\ ~Back(f, t) => Numbered(Append(q, f), t, b, s)
           /\ Last(f, t) /\ (\A i \in DOMAIN q : ~Last(q[i], t)) => Numbered(Append(q, f), t, b, s)
           /\ b <= s /\ IsItem(f, t) /\ f.n = s + 1 /\ (\A i \in DOMAIN q : ~Last(q[i], t)) =>
                Numbered(Append(q, f), t, b, s + 1)
<1> DEFINE more == Append(q, f)
<1>1. /\ DOMAIN q = 1 .. Len(q) /\ DOMAIN more = 1 .. Len(q) + 1 /\ Len(q) \in Nat
      /\ \A i \in 1 .. Len(q) : more[i] = q[i]
      /\ more[Len(q) + 1] = f
  BY Appended
<1> HIDE DEF more
<1>2. \A i \in DOMAIN q : i \in DOMAIN more /\ more[i] = q[i]
  BY <1>1
<1>3. \A i \in DOMAIN more : i \in DOMAIN q \/ (i = Len(q) + 1 /\ more[i] = f)
  BY <1>1
<1>4. \A i, j \in DOMAIN more : i < j => i \in DOMAIN q
  BY <1>1
<1>5. \A g : IsItem(g, t) => Back(g, t) /\ ~Last(g, t)
  BY DEF IsItem, Back, Last, Replies
<1>6. \A g : Back(g, t) => IsItem(g, t) \/ Last(g, t)
  BY DEF IsItem, Back, Last
<1>7. ASSUME ~Back(f, t) PROVE Numbered(more, t, b, s)
  BY <1>2, <1>3, <1>4, <1>5, <1>7 DEF Numbered
<1>8. ASSUME Last(f, t), \A i \in DOMAIN q : ~Last(q[i], t) PROVE Numbered(more, t, b, s)
  <2>1. f.kind # "item" /\ ~IsItem(f, t)
    BY <1>5, <1>8 DEF Last
  <2>2. \A i \in DOMAIN more : IsItem(more[i], t) => more[i].n \in b + 1 .. s
    BY <1>2, <1>3, <2>1 DEF Numbered
  <2>3. \A n \in b + 1 .. s : \E i \in DOMAIN more : IsItem(more[i], t) /\ more[i].n = n
    BY <1>2 DEF Numbered
  <2>4. ASSUME NEW i \in DOMAIN more, NEW j \in DOMAIN more, i < j, Back(more[i], t), Back(more[j], t)
        PROVE  more[i].kind = "item" /\ (more[j].kind = "item" => more[i].n < more[j].n)
    <3>1. i \in DOMAIN q /\ more[i] = q[i] /\ IsItem(q[i], t)
      BY <1>2, <1>4, <1>6, <1>8, <2>4
    <3>2. CASE j \in DOMAIN q
      BY <1>2, <2>4, <3>1, <3>2 DEF Numbered
    <3>3. CASE j \notin DOMAIN q
      BY <1>3, <2>1, <3>1, <3>3 DEF IsItem
    <3> QED BY <3>2, <3>3
  <2> QED BY <2>2, <2>3, <2>4 DEF Numbered
<1>9. ASSUME b <= s, IsItem(f, t), f.n = s + 1, \A i \in DOMAIN q : ~Last(q[i], t)
      PROVE  Numbered(more, t, b, s + 1)
  <2>1. \A i \in DOMAIN more : IsItem(more[i], t) => more[i].n \in b + 1 .. s + 1
    <3>1. \A i \in DOMAIN q : IsItem(q[i], t) => q[i].n \in b + 1 .. s
      BY DEF Numbered
    <3>2. \A n \in b + 1 .. s : n \in b + 1 .. s + 1
      OBVIOUS
    <3>3. s + 1 \in b + 1 .. s + 1
      BY <1>9
    <3> QED BY <1>2, <1>3, <1>9, <3>1, <3>2, <3>3
  <2>2. ASSUME NEW n \in b + 1 .. s + 1 PROVE \E i \in DOMAIN more : IsItem(more[i], t) /\ more[i].n = n
    <3>1. CASE n = s + 1
      BY <1>1, <1>9, <3>1
    <3>2. CASE n # s + 1
      <4>1. n \in b + 1 .. s
        BY <3>2
      <4> QED BY <1>2, <4>1 DEF Numbered
    <3> QED BY <3>1, <3>2
  <2>3. ASSUME NEW i \in DOMAIN more, NEW j \in DOMAIN more, i < j, Back(more[i], t), Back(more[j], t)
        PROVE  more[i].kind = "item" /\ (more[j].kind = "item" => more[i].n < more[j].n)
    <3>1. i \in DOMAIN q /\ more[i] = q[i] /\ IsItem(q[i], t) /\ q[i].n \in b + 1 .. s
      BY <1>2, <1>4, <1>6, <1>9, <2>3 DEF Numbered
    <3>2. CASE j \in DOMAIN q
      BY <1>2, <2>3, <3>1, <3>2 DEF Numbered
    <3>3. CASE j \notin DOMAIN q
      BY <1>3, <1>9, <3>1, <3>3 DEF IsItem
    <3> QED BY <3>2, <3>3
  <2> QED BY <2>1, <2>2, <2>3 DEF Numbered
<1> QED BY <1>7, <1>8, <1>9 DEF more

LEMMA NumberedTake ==
    ASSUME NEW q \in Seq(Frames), q # <<>>, NEW t, NEW b \in Nat, NEW s \in Nat, b <= s,
           Numbered(q, t, b, s)
    PROVE  /\ ~Back(Head(q), t) => Numbered(Tail(q), t, b, s)
           /\ IsItem(Head(q), t) => /\ Head(q).n = b + 1 /\ b + 1 <= s
                                    /\ Numbered(Tail(q), t, b + 1, s)
           /\ Last(Head(q), t) => b = s /\ NoBack(Tail(q), t)
<1> DEFINE rest == Tail(q)
<1>1. /\ DOMAIN q = 1 .. Len(q) /\ Len(q) \in Nat \ {0} /\ DOMAIN rest = 1 .. Len(q) - 1
      /\ \A i \in 1 .. Len(q) - 1 : rest[i] = q[i + 1] /\ i + 1 \in DOMAIN q
      /\ Head(q) = q[1] /\ 1 \in DOMAIN q
  BY Shifted
<1> HIDE DEF rest
<1>2. \A i \in DOMAIN rest : rest[i] = q[i + 1] /\ i + 1 \in DOMAIN q /\ 1 < i + 1
  BY <1>1
<1>3. \A i \in DOMAIN q : i = 1 \/ (i - 1 \in DOMAIN rest /\ rest[i - 1] = q[i])
  BY <1>1
<1>4. \A g : IsItem(g, t) => Back(g, t) /\ ~Last(g, t) /\ g.kind = "item"
  BY DEF IsItem, Back, Last, Replies
<1>5. \A i, j \in DOMAIN rest : i < j /\ Back(rest[i], t) /\ Back(rest[j], t) =>
          rest[i].kind = "item" /\ (rest[j].kind = "item" => rest[i].n < rest[j].n)
  <2> SUFFICES ASSUME NEW i \in DOMAIN rest, NEW j \in DOMAIN rest, i < j,
                      Back(rest[i], t), Back(rest[j], t)
               PROVE  rest[i].kind = "item" /\ (rest[j].kind = "item" => rest[i].n < rest[j].n)
    OBVIOUS
  <2>1. i + 1 < j + 1
    BY <1>1
  <2> QED BY <1>2, <2>1 DEF Numbered
<1>6. ASSUME ~IsItem(Head(q), t)
      PROVE  /\ \A i \in DOMAIN rest : IsItem(rest[i], t) => rest[i].n \in b + 1 .. s
             /\ \A n \in b + 1 .. s : \E i \in DOMAIN rest : IsItem(rest[i], t) /\ rest[i].n = n
  <2>1. \A i \in DOMAIN rest : IsItem(rest[i], t) => rest[i].n \in b + 1 .. s
    BY <1>2 DEF Numbered
  <2>2. ASSUME NEW n \in b + 1 .. s PROVE \E i \in DOMAIN rest : IsItem(rest[i], t) /\ rest[i].n = n
    <3>1. PICK i \in DOMAIN q : IsItem(q[i], t) /\ q[i].n = n
      BY DEF Numbered
    <3> QED BY <1>1, <1>3, <1>6, <3>1
  <2> QED BY <2>1, <2>2
<1>7. ~Back(Head(q), t) => Numbered(rest, t, b, s)
  BY <1>4, <1>5, <1>6 DEF Numbered
<1>8. ASSUME IsItem(Head(q), t)
      PROVE  Head(q).n = b + 1 /\ b + 1 <= s /\ Numbered(rest, t, b + 1, s)
  <2>1. Head(q).n \in b + 1 .. s
    BY <1>1, <1>8 DEF Numbered
  <2>2. ASSUME NEW i \in DOMAIN rest, IsItem(rest[i], t) PROVE rest[i].n \in b + 1 .. s /\ Head(q).n < rest[i].n
    <3>1. Back(q[1], t) /\ Back(q[i + 1], t) /\ q[i + 1].kind = "item"
      BY <1>1, <1>2, <1>4, <1>8, <2>2
    <3>2. q[i + 1].n \in b + 1 .. s /\ q[1].n < q[i + 1].n
      BY <1>1, <1>2, <2>2, <3>1 DEF Numbered
    <3> QED BY <1>1, <1>2, <2>2, <3>2
  <2>3. b + 1 \in b + 1 .. s
    BY <2>1
  <2>4. Head(q).n = b + 1
    <3>1. PICK i \in DOMAIN q : IsItem(q[i], t) /\ q[i].n = b + 1
      BY <2>3 DEF Numbered
    <3>2. CASE i = 1
      BY <1>1, <3>1, <3>2
    <3>3. CASE i # 1
      <4>1. Head(q).n < b + 1
        BY <1>3, <2>2, <3>1, <3>3
      <4> QED BY <2>1, <4>1
    <3> QED BY <3>2, <3>3
  <2>5. \A i \in DOMAIN rest : IsItem(rest[i], t) => rest[i].n \in (b + 1) + 1 .. s
    BY <2>2, <2>4
  <2>6. ASSUME NEW n \in (b + 1) + 1 .. s PROVE \E i \in DOMAIN rest : IsItem(rest[i], t) /\ rest[i].n = n
    <3>1. n \in b + 1 .. s /\ n # b + 1
      OBVIOUS
    <3>2. PICK i \in DOMAIN q : IsItem(q[i], t) /\ q[i].n = n
      BY <3>1 DEF Numbered
    <3>3. i # 1
      BY <1>1, <2>4, <3>1, <3>2
    <3> QED BY <1>3, <3>2, <3>3
  <2> QED BY <1>5, <2>3, <2>4, <2>5, <2>6 DEF Numbered
<1>9. ASSUME Last(Head(q), t) PROVE b = s /\ NoBack(rest, t)
  <2>1. ~IsItem(Head(q), t) /\ Back(q[1], t) /\ q[1].kind # "item"
    BY <1>1, <1>4, <1>9 DEF Last
  <2>2. ASSUME NEW i \in DOMAIN rest, Back(rest[i], t) PROVE FALSE
    <3>1. i + 1 \in DOMAIN q /\ 1 < i + 1 /\ Back(q[i + 1], t)
      BY <1>2, <2>2
    <3> QED BY <1>1, <2>1, <3>1 DEF Numbered
  <2>3. b = s
    <3> SUFFICES ASSUME b < s PROVE FALSE
      OBVIOUS
    <3>1. b + 1 \in b + 1 .. s
      OBVIOUS
    <3> QED BY <1>4, <1>6, <2>1, <2>2, <3>1
  <2> QED BY <2>2, <2>3 DEF NoBack
<1> QED BY <1>7, <1>8, <1>9 DEF rest

\* A stream as its receiver sees it: q is the line, box the frames that wait for the
\* task, g how many items it has taken, hs its handlers, there whether the tunnel is
\* in the map, and s how many items the handler has sent.
AllItems(box) == \A k \in DOMAIN box : box[k].kind = "item"
Flow(q, box, g, hs, t, there, s) ==
    /\ \A h \in hs : h.n = s
    /\ \A k \in DOMAIN box : box[k].kind = "item" => box[k].n = g + k
    /\ \A k \in DOMAIN box : box[k].kind # "item" =>
          /\ k = Len(box) /\ NoBack(q, t) /\ hs = {}
          /\ box[k].kind = "end" => g + k = Items + 1
    /\ \A i \in DOMAIN q : Last(q[i], t) => hs = {} /\ (q[i].kind = "end" => s = Items)
    /\ AllItems(box) => g + Len(box) <= s /\ Numbered(q, t, g + Len(box), s) /\ there

LEMMA FlowAppend ==
    ASSUME NEW q \in Seq(Frames), NEW f \in Frames, NEW box \in Seq(Frames), NEW g \in Nat, NEW hs,
           NEW t, NEW there, NEW s \in Nat, Flow(q, box, g, hs, t, there, s)
    PROVE  /\ ~Back(f, t) => Flow(Append(q, f), box, g, hs, t, there, s)
           /\ Last(f, t) /\ hs # {} /\ (f.kind = "end" => s = Items) =>
                 Flow(Append(q, f), box, g, {}, t, there, s)
           /\ IsItem(f, t) /\ hs # {} /\ f.n = s + 1 =>
                 \A ks : (\A h \in ks : h.n = s + 1) => Flow(Append(q, f), box, g, ks, t, there, s + 1)
<1> DEFINE more == Append(q, f)
<1>1. /\ \A i \in DOMAIN more : i \in DOMAIN q \/ more[i] = f
      /\ \A i \in DOMAIN q : more[i] = q[i]
  BY Appended
<1>2. Len(box) \in Nat
  BY LenProperties
<1>3. /\ ~Back(f, t) /\ NoBack(q, t) => NoBack(more, t)
      /\ Numbered(q, t, g + Len(box), s) => (~Back(f, t) => Numbered(more, t, g + Len(box), s))
  BY <1>2, BackTaken, NumberedAppend
<1>4. \A x : IsItem(x, t) => Back(x, t) /\ ~Last(x, t)
  BY DEF IsItem, Back, Last, Replies
<1>5. \A x : Last(x, t) => Back(x, t)
  BY DEF Last
<1>6. hs # {} => AllItems(box) /\ \A i \in DOMAIN q : ~Last(q[i], t)
  BY DEF Flow, AllItems
<1>7. ASSUME ~Back(f, t) PROVE Flow(more, box, g, hs, t, there, s)
  <2> HIDE DEF more
  <2>1. \A i \in DOMAIN more : Last(more[i], t) => hs = {} /\ (more[i].kind = "end" => s = Items)
    BY <1>1, <1>5, <1>7 DEF Flow
  <2> QED BY <1>3, <1>7, <2>1 DEF Flow
<1>8. ASSUME Last(f, t), hs # {}, f.kind = "end" => s = Items
      PROVE  Flow(more, box, g, {}, t, there, s)
  <2>1. AllItems(box) /\ g + Len(box) <= s /\ Numbered(q, t, g + Len(box), s) /\ there
    BY <1>6, <1>8 DEF Flow
  <2>2. Numbered(more, t, g + Len(box), s)
    <3>1. PICK b \in Nat : b = g + Len(box)
      BY <1>2
    <3>2. b <= s /\ Numbered(q, t, b, s)
      BY <2>1, <3>1
    <3>3. Numbered(more, t, b, s)
      BY <1>6, <1>8, <3>2, NumberedAppend
    <3> QED BY <3>1, <3>3
  <2> HIDE DEF more
  <2>3. \A i \in DOMAIN more : Last(more[i], t) => (more[i].kind = "end" => s = Items)
    BY <1>1, <1>6, <1>8
  <2> QED BY <2>1, <2>2, <2>3 DEF Flow, AllItems
<1>9. ASSUME IsItem(f, t), hs # {}, f.n = s + 1, NEW ks, \A h \in ks : h.n = s + 1
      PROVE  Flow(more, box, g, ks, t, there, s + 1)
  <2>1. AllItems(box) /\ g + Len(box) <= s /\ Numbered(q, t, g + Len(box), s) /\ there
    BY <1>6, <1>9 DEF Flow
  <2>2. Numbered(more, t, g + Len(box), s + 1)
    <3>1. PICK b \in Nat : b = g + Len(box)
      BY <1>2
    <3>2. b <= s /\ Numbered(q, t, b, s)
      BY <2>1, <3>1
    <3>3. Numbered(more, t, b, s + 1)
      BY <1>6, <1>9, <3>2, NumberedAppend
    <3> QED BY <3>1, <3>3
  <2> HIDE DEF more
  <2>3. \A i \in DOMAIN more : ~Last(more[i], t)
    BY <1>1, <1>4, <1>6, <1>9
  <2>4. g + Len(box) <= s + 1
    BY <1>2, <2>1
  <2> QED BY <1>9, <2>1, <2>2, <2>3, <2>4 DEF Flow, AllItems
<1> QED BY <1>7, <1>8, <1>9

LEMMA FlowTake ==
    ASSUME NEW q \in Seq(Frames), q # <<>>, NEW box \in Seq(Frames), NEW g \in Nat, NEW hs,
           NEW t, NEW there, NEW s \in Nat, Flow(q, box, g, hs, t, there, s)
    PROVE  /\ ~Back(Head(q), t) => Flow(Tail(q), box, g, hs, t, there, s)
           /\ Back(Head(q), t) =>
                 /\ there
                 /\ \A here : (Head(q).kind = "item" => here) =>
                       Flow(Tail(q), Append(box, Head(q)), g, hs, t, here, s)
<1> DEFINE rest == Tail(q)
           f == Head(q)
           more == Append(box, f)
<1>1. /\ \A i \in DOMAIN rest : rest[i] = q[i + 1] /\ i + 1 \in DOMAIN q
      /\ f = q[1] /\ 1 \in DOMAIN q /\ f \in Frames
  BY Shifted
<1>2. /\ DOMAIN box = 1 .. Len(box) /\ Len(box) \in Nat /\ DOMAIN more = 1 .. Len(box) + 1
      /\ Len(more) = Len(box) + 1 /\ more[Len(box) + 1] = f
      /\ \A k \in 1 .. Len(box) : more[k] = box[k]
  BY <1>1, Appended
<1>3. NoBack(q, t) => NoBack(rest, t) /\ ~Back(f, t)
  BY BackTaken
<1>4. /\ g + Len(box) \in Nat
      /\ g + Len(box) <= s /\ Numbered(q, t, g + Len(box), s) =>
            /\ ~Back(f, t) => Numbered(rest, t, g + Len(box), s)
            /\ IsItem(f, t) => /\ f.n = g + Len(box) + 1 /\ g + Len(box) + 1 <= s
                               /\ Numbered(rest, t, g + Len(box) + 1, s)
            /\ Last(f, t) => g + Len(box) = s /\ NoBack(rest, t)
  <2>1. g + Len(box) \in Nat
    BY <1>2
  <2> QED BY <2>1, NumberedTake
<1> HIDE DEF rest, f, more
<1>5. \A i \in DOMAIN rest : Last(rest[i], t) => hs = {} /\ (rest[i].kind = "end" => s = Items)
  BY <1>1 DEF Flow
<1>6. ASSUME ~Back(f, t) PROVE Flow(rest, box, g, hs, t, there, s)
  BY <1>3, <1>4, <1>5, <1>6 DEF Flow
<1>7. ASSUME Back(f, t), NEW here, f.kind = "item" => here
      PROVE  there /\ Flow(rest, more, g, hs, t, here, s)
  <2>1. AllItems(box) /\ g + Len(box) <= s /\ Numbered(q, t, g + Len(box), s) /\ there
    <3>1. ~NoBack(q, t)
      BY <1>3, <1>7
    <3> QED BY <3>1 DEF Flow, AllItems
  <2>2. \A k \in DOMAIN more : (k \in DOMAIN box /\ more[k] = box[k]) \/ (k = Len(more) /\ more[k] = f)
    BY <1>2
  <2>3. CASE f.kind = "item"
    <3>1. IsItem(f, t)
      BY <1>7, <2>3 DEF IsItem, Back
    <3>2. /\ f.n = g + Len(more) /\ g + Len(more) <= s /\ Numbered(rest, t, g + Len(more), s)
      BY <1>2, <1>4, <2>1, <3>1
    <3>3. AllItems(more)
      BY <2>1, <2>2, <2>3 DEF AllItems
    <3>4. \A k \in DOMAIN more : more[k].kind = "item" => more[k].n = g + k
      BY <2>2, <3>2 DEF Flow
    <3> QED BY <1>5, <1>7, <2>1, <2>3, <3>2, <3>3, <3>4 DEF Flow, AllItems
  <2>4. CASE f.kind # "item"
    <3>1. Last(f, t)
      BY <1>7, <2>4 DEF Last
    <3>2. g + Len(box) = s /\ NoBack(rest, t)
      BY <1>4, <2>1, <3>1
    <3>3. hs = {} /\ (f.kind = "end" => s = Items)
      BY <1>1, <3>1 DEF Flow
    <3>4. ~AllItems(more)
      <4>1. Len(box) + 1 \in DOMAIN more
        BY <1>2
      <4> QED BY <1>2, <2>4, <4>1 DEF AllItems
    <3>5. \A k \in DOMAIN more : more[k].kind # "item" => k = Len(more) /\ more[k] = f
      BY <2>1, <2>2 DEF AllItems
    <3>6. f.kind = "end" => g + Len(more) = Items + 1
      BY <1>2, <3>2, <3>3
    <3>7. \A k \in DOMAIN more : more[k].kind = "item" => more[k].n = g + k
      BY <2>2, <2>4 DEF Flow
    <3> QED BY <1>5, <2>1, <3>2, <3>3, <3>4, <3>5, <3>6, <3>7 DEF Flow
  <2> QED BY <2>3, <2>4
<1> QED BY <1>6, <1>7 DEF rest, f, more

LEMMA FlowReceive ==
    ASSUME NEW q \in Seq(Frames), NEW box \in Seq(Frames), box # <<>>, NEW g \in Nat, NEW hs,
           NEW t, NEW there, NEW s \in Nat, Flow(q, box, g, hs, t, there, s)
    PROVE  /\ Head(box).kind = "item" => /\ Head(box).n = g + 1
                                         /\ Flow(q, Tail(box), g + 1, hs, t, there, s)
           /\ Head(box).kind # "item" => /\ NoBack(q, t) /\ hs = {}
                                         /\ Head(box).kind = "end" => g = Items
<1> DEFINE rest == Tail(box)
<1>1. /\ Len(rest) = Len(box) - 1 /\ Len(box) \in Nat \ {0} /\ DOMAIN rest = 1 .. Len(box) - 1
      /\ \A k \in DOMAIN rest : rest[k] = box[k + 1] /\ k + 1 \in DOMAIN box
      /\ Head(box) = box[1] /\ 1 \in DOMAIN box /\ DOMAIN box = 1 .. Len(box)
  BY Shifted
<1> HIDE DEF rest
<1>2. ASSUME Head(box).kind = "item"
      PROVE  Head(box).n = g + 1 /\ Flow(q, rest, g + 1, hs, t, there, s)
  <2>1. Head(box).n = g + 1
    BY <1>1, <1>2 DEF Flow
  <2>2. \A k \in DOMAIN rest : rest[k].kind = "item" => rest[k].n = (g + 1) + k
    <3>1. \A k \in DOMAIN rest : rest[k].kind = "item" => rest[k].n = g + (k + 1)
      BY <1>1 DEF Flow
    <3>2. \A k \in Nat : g + (k + 1) = (g + 1) + k
      OBVIOUS
    <3>3. \A k \in DOMAIN rest : k \in Nat
      BY <1>1
    <3> QED BY <3>1, <3>2, <3>3
  <2>3. \A k \in DOMAIN rest : rest[k].kind # "item" =>
            /\ k = Len(rest) /\ NoBack(q, t) /\ hs = {}
            /\ rest[k].kind = "end" => (g + 1) + k = Items + 1
    <3>1. \A k \in DOMAIN rest : rest[k].kind # "item" =>
              /\ k + 1 = Len(box) /\ NoBack(q, t) /\ hs = {}
              /\ rest[k].kind = "end" => g + (k + 1) = Items + 1
      BY <1>1 DEF Flow
    <3> QED BY <1>1, <3>1
  <2>4. AllItems(rest) => AllItems(box)
    <3>1. \A k \in DOMAIN box : k = 1 \/ (k - 1 \in DOMAIN rest /\ rest[k - 1] = box[k])
      BY <1>1
    <3> QED BY <1>1, <1>2, <3>1 DEF AllItems
  <2>5. (g + 1) + Len(rest) = g + Len(box)
    BY <1>1
  <2> QED BY <2>1, <2>2, <2>3, <2>4, <2>5 DEF Flow
<1>3. ASSUME Head(box).kind # "item"
      PROVE  NoBack(q, t) /\ hs = {} /\ (Head(box).kind = "end" => g = Items)
  <2>1. NoBack(q, t) /\ hs = {} /\ (Head(box).kind = "end" => g + 1 = Items + 1)
    BY <1>1, <1>3 DEF Flow
  <2> QED BY <2>1, SessionAssumption
<1> QED BY <1>2, <1>3 DEF rest

-----------------------------------------------------------------------------
(* Types, and the line of a side. *)

RunSteps == {"say_hello", "recv_hello", "await_hello", "recv", "wait", "route", "tunnel",
             "cancel", "ended"}
CallSteps == {"idle", "await_ready", "send_open", "send_request", "await", "unwind",
              "answered", "gave_up"}
StreamSteps == {"idle", "send_open", "send_request", "receiving", "answered", "gave_up", "failed"}
HandlerType == [chan : Ids, of : Tasks, n : 0 .. Items, no_reply : BOOLEAN]
Busy(x) == run_pc[x] \in {"route", "tunnel", "cancel"}

SessionTypes ==
    /\ wire \in [Sides -> Seq(Frames)]
    /\ closed \subseteq Sides /\ gone \subseteq Sides /\ ready \subseteq Sides
    /\ run_pc \in [Sides -> RunSteps] /\ cur \in [Sides -> Frames \cup {<<>>}]
    /\ \A x \in Sides : Busy(x) => cur[x] \in Frames
    /\ via \in [Sides -> SUBSET Streamers] /\ next_id \in [Sides -> Ids]
    /\ pending \in [Sides -> SUBSET Callers] /\ tunnels \in [Sides -> SUBSET Streamers]
    /\ open_channels \in [Sides -> SUBSET Ids] /\ handlers \in [Sides -> SUBSET HandlerType]
    /\ pc \in [Tasks -> CallSteps \cup StreamSteps]
    /\ (\A t \in Callers : pc[t] \in CallSteps) /\ \A t \in Streamers : pc[t] \in StreamSteps
    /\ chan \in [Tasks -> Ids] /\ inbox \in [Tasks -> Seq(Frames)]
    /\ executed \in [Tasks -> Nat] /\ got \in [Tasks -> Seq(Tasks \cup Nat)]

\* What run() of x has in hand, and then what is on the wire to x.
Line(x) == IF Busy(x) THEN <<cur[x]>> \o wire[x] ELSE wire[x]

LinesSame == \A z \in Sides : Line(z)' = Line(z)
LineGrows(y, f) == /\ Line(y)' = Append(Line(y), f)
                   /\ \A z \in Sides \ {y} : Line(z)' = Line(z)
LineShrinks(x) == /\ Line(x) # <<>> /\ Line(x)' = Tail(Line(x))
                  /\ \A z \in Sides \ {x} : Line(z)' = Line(z)

LEMMA LineTypes ==
    ASSUME SessionTypes, NEW x \in Sides
    PROVE  Line(x) \in Seq(Frames) /\ (Busy(x) => Line(x) # <<>> /\ Head(Line(x)) = cur[x])
<1>1. wire[x] \in Seq(Frames) /\ (Busy(x) => cur[x] \in Frames)
  BY DEF SessionTypes
<1>2. CASE Busy(x)
  <2>1. PICK w \in Seq(Frames), f \in Frames : w = wire[x] /\ f = cur[x]
    BY <1>1, <1>2
  <2> QED BY <1>2, <2>1, Consed DEF Line
<1> QED BY <1>1, <1>2 DEF Line

LEMMA LinesStay ==
    ASSUME UNCHANGED <<wire, cur>>, \A z \in Sides : Busy(z)' = Busy(z) PROVE LinesSame
BY DEF LinesSame, Line

LEMMA LinePut ==
    ASSUME SessionTypes, NEW x \in Sides, NEW f \in Frames, Put(x, f), UNCHANGED cur,
           \A z \in Sides : Busy(z)' = Busy(z)
    PROVE  LineGrows(Peer(x), f)
<1> DEFINE y == Peer(x)
<1>1. y \in Sides /\ wire'[y] = Append(wire[y], f) /\ \A z \in Sides \ {y} : wire'[z] = wire[z]
  BY PeerFacts DEF Put, SessionTypes
<1> HIDE DEF y
<1>2. wire[y] \in Seq(Frames) /\ (Busy(y) => cur[y] \in Frames)
  BY <1>1 DEF SessionTypes
<1>3. Line(y)' = Append(Line(y), f)
  <2>1. CASE Busy(y)
    <3>1. PICK w \in Seq(Frames), g \in Frames : w = wire[y] /\ g = cur[y]
      BY <1>2, <2>1
    <3>2. <<g>> \o Append(w, f) = Append(<<g>> \o w, f)
      BY <3>1, Consed
    <3>3. Line(y) = <<g>> \o w /\ Line(y)' = <<g>> \o Append(w, f)
      BY <1>1, <2>1, <3>1 DEF Line
    <3> QED BY <3>2, <3>3
  <2>2. CASE ~Busy(y)
    BY <1>1, <2>2 DEF Line
  <2> QED BY <2>1, <2>2
<1>4. \A z \in Sides \ {y} : Line(z)' = Line(z)
  BY <1>1 DEF Line
<1> QED BY <1>3, <1>4 DEF LineGrows, y

\* A frame that run() hears before its loop is gone at once ...
LEMMA LineHeard ==
    ASSUME SessionTypes, NEW x \in Sides, HearHello(x)
    PROVE  LineShrinks(x) /\ Head(Line(x)).kind = "hello" /\ \A z \in Sides : Busy(z)' = Busy(z)
<1>1. /\ wire[x] # <<>> /\ wire'[x] = Tail(wire[x]) /\ Head(wire[x]).kind = "hello"
      /\ \A z \in Sides \ {x} : wire'[z] = wire[z]
      /\ run_pc[x] = "await_hello" /\ run_pc'[x] \in {"recv", "say_hello"} /\ cur' = cur
      /\ \A z \in Sides \ {x} : run_pc'[z] = run_pc[z]
  BY DEF HearHello, HasFrame, Take, GotoRun, SessionTypes
<1>2. ~Busy(x) /\ ~Busy(x)' /\ \A z \in Sides : Busy(z)' = Busy(z)
  BY <1>1 DEF Busy
<1>3. Line(x) = wire[x] /\ Line(x)' = Tail(wire[x])
  BY <1>1, <1>2 DEF Line
<1>4. ASSUME NEW z \in Sides \ {x} PROVE Line(z)' = Line(z)
  <2>1. Busy(z)' = Busy(z) /\ cur'[z] = cur[z] /\ wire'[z] = wire[z]
    BY <1>1, <1>2
  <2> QED BY <2>1 DEF Line
<1> QED BY <1>1, <1>2, <1>3, <1>4 DEF LineShrinks

\* ... the loop takes it in hand ...
LEMMA LineTaken ==
    ASSUME SessionTypes, NEW x \in Sides, RecvFrame(x)
    PROVE  LinesSame /\ Busy(x)' /\ cur'[x] \in Frames /\ \A z \in Sides \ {x} : Busy(z)' = Busy(z)
<1>1. /\ wire[x] # <<>> /\ wire'[x] = Tail(wire[x]) /\ cur'[x] = Head(wire[x])
      /\ \A z \in Sides \ {x} : wire'[z] = wire[z] /\ cur'[z] = cur[z] /\ run_pc'[z] = run_pc[z]
      /\ run_pc[x] = "wait" /\ run_pc'[x] = "route" /\ wire[x] \in Seq(Frames)
  BY DEF RecvFrame, HasFrame, Take, GotoRun, SessionTypes
<1>2. ~Busy(x) /\ Busy(x)' /\ \A z \in Sides \ {x} : Busy(z)' = Busy(z)
  BY <1>1 DEF Busy
<1>3. Line(x)' = Line(x) /\ cur'[x] \in Frames
  <2>1. PICK w \in Seq(Frames) : w = wire[x] /\ w # <<>>
    BY <1>1
  <2>2. Head(w) \in Frames /\ <<Head(w)>> \o Tail(w) = w
    BY <2>1, Shifted, Consed
  <2>3. Line(x) = w /\ Line(x)' = <<Head(w)>> \o Tail(w)
    BY <1>1, <1>2, <2>1 DEF Line
  <2> QED BY <1>1, <2>1, <2>2, <2>3
<1> QED BY <1>1, <1>2, <1>3 DEF LinesSame, Line

\* ... and is done with it.
LEMMA LineHandled ==
    ASSUME SessionTypes, NEW x \in Sides, Busy(x), Handled(x), UNCHANGED wire
    PROVE  /\ LineShrinks(x) /\ Head(Line(x)) = cur[x] /\ ~Busy(x)'
           /\ \A z \in Sides \ {x} : Busy(z)' = Busy(z) /\ cur'[z] = cur[z] /\ run_pc'[z] = run_pc[z]
<1>1. /\ run_pc'[x] = "recv"
      /\ \A z \in Sides \ {x} : run_pc'[z] = run_pc[z] /\ cur'[z] = cur[z]
  BY DEF Handled, GotoRun, SessionTypes
<1>2. ~Busy(x)' /\ \A z \in Sides \ {x} : Busy(z)' = Busy(z)
  BY <1>1 DEF Busy
<1>3. PICK w \in Seq(Frames), f \in Frames : w = wire[x] /\ f = cur[x]
  BY DEF SessionTypes
<1>4. Line(x) = <<f>> \o w /\ Line(x)' = w
  BY <1>2, <1>3 DEF Line
<1>5. Line(x) # <<>> /\ Tail(Line(x)) = w /\ Head(Line(x)) = f
  BY <1>4, Consed
<1> QED BY <1>1, <1>2, <1>3, <1>4, <1>5 DEF LineShrinks, Line

-----------------------------------------------------------------------------
(* Channel ids: odd ones for the initiator and even ones for the acceptor,   *)
(* one after another, so that no two tasks of the session share one.         *)

First(x) == IF x = Initiator THEN 1 ELSE 2
Begun(x) == {t \in Tasks : Home[t] = x /\ chan[t] # 0}
IdsInv ==
    /\ \A t \in Tasks : chan[t] = 0 <=> pc[t] = "idle"
    /\ \A x \in Sides : next_id[x] = First(x) + 2 * Cardinality(Begun(x))
    /\ \A t \in Tasks : chan[t] # 0 =>
          \E k \in Nat : k < Cardinality(Begun(Home[t])) /\ chan[t] = First(Home[t]) + 2 * k
    /\ \A t, u \in Tasks : chan[t] = chan[u] /\ chan[t] # 0 => t = u

LEMMA HomeFacts == ASSUME NEW t \in Tasks PROVE Home[t] \in Sides /\ Peer(Home[t]) \in Sides
BY PeerFacts, SessionAssumption

LEMMA BegunFacts ==
    ASSUME IdsLast, NEW x
    PROVE  /\ IsFiniteSet(Begun(x)) /\ Cardinality(Begun(x)) \in Nat
           /\ Cardinality(Begun(x)) <= Cardinality(Tasks) /\ Cardinality(Tasks) \in Nat
           /\ \A t \in Tasks \ Begun(x) : Cardinality(Begun(x)) < Cardinality(Tasks)
<1>1. Begun(x) \subseteq Tasks /\ IsFiniteSet(Tasks)
  BY DEF Begun, IdsLast
<1>2. /\ IsFiniteSet(Begun(x)) /\ Cardinality(Begun(x)) \in Nat
      /\ Cardinality(Begun(x)) <= Cardinality(Tasks) /\ Cardinality(Tasks) \in Nat
  BY <1>1, FS_Subset, FS_CardinalityType
<1>3. ASSUME NEW t \in Tasks \ Begun(x) PROVE Cardinality(Begun(x)) < Cardinality(Tasks)
  <2>1. Cardinality(Begun(x)) # Cardinality(Tasks)
    BY <1>1, <1>3, FS_Subset
  <2> QED BY <1>2, <2>1
<1> QED BY <1>2, <1>3

\* Steps that begin nothing.
LEMMA IdsStay ==
    ASSUME IdsInv, UNCHANGED <<chan, next_id>>, \A t \in Tasks : pc[t] = "idle" <=> pc'[t] = "idle"
    PROVE  IdsInv'
BY DEF IdsInv, Begun

\* A task takes the next id of its side.
LEMMA IdTaken ==
    ASSUME IdsLast, SessionTypes, IdsInv, NEW t \in Tasks, pc[t] = "idle",
           chan' = [chan EXCEPT ![t] = next_id[Home[t]]],
           next_id' = [next_id EXCEPT ![Home[t]] = NextId(@)],
           NEW step, pc' = [pc EXCEPT ![t] = step], step # "idle"
    PROVE  IdsInv' /\ chan'[t] # 0 /\ (\A u \in Tasks : chan[u] # chan'[t]) /\ next_id' \in [Sides -> Ids]
<1> DEFINE x == Home[t]
           n == Cardinality(Begun(x))
<1>1. x \in Sides /\ chan[t] = 0 /\ t \notin Begun(x)
  BY HomeFacts DEF IdsInv, Begun
<1>2. n \in Nat /\ n < Cardinality(Tasks) /\ Cardinality(Tasks) \in Nat /\ IsFiniteSet(Begun(x))
  BY <1>1, BegunFacts
<1>3. next_id[x] = First(x) + 2 * n /\ First(x) \in {1, 2}
  BY <1>1 DEF IdsInv, First
<1> HIDE DEF n
<1>4. next_id'[x] = First(x) + 2 * (n + 1) /\ next_id'[x] \in Ids
  <2>1. next_id[x] + 2 \in Nat /\ next_id[x] + 2 < IdSpace /\ IdSpace \in Nat
    BY <1>2, <1>3, SessionAssumption DEF IdsLast
  <2>2. (next_id[x] + 2) % IdSpace = next_id[x] + 2
    BY <2>1
  <2>3. next_id'[x] = next_id[x] + 2
    BY <1>1, <2>2 DEF NextId, SessionTypes
  <2> QED BY <1>2, <1>3, <2>1, <2>3 DEF Ids
<1>5. /\ chan'[t] = First(x) + 2 * n
      /\ \A u \in Tasks \ {t} : chan'[u] = chan[u] /\ pc'[u] = pc[u]
      /\ pc'[t] = step
      /\ \A z \in Sides \ {x} : next_id'[z] = next_id[z]
  BY <1>1, <1>3 DEF SessionTypes
<1>6. chan'[t] # 0 /\ chan'[t] \in Nat
  BY <1>2, <1>3, <1>5
<1>7. Begun(x)' = Begun(x) \cup {t} /\ \A z \in Sides \ {x} : Begun(z)' = Begun(z)
  BY <1>1, <1>5, <1>6 DEF Begun
<1>8. Cardinality(Begun(x)') = n + 1
  BY <1>1, <1>2, <1>7, FS_AddElement DEF n
<1>9. \A u \in Tasks : chan[u] # chan'[t]
  <2> SUFFICES ASSUME NEW u \in Tasks, chan[u] = chan'[t] PROVE FALSE
    OBVIOUS
  <2>1. PICK k \in Nat : k < Cardinality(Begun(Home[u])) /\ chan[u] = First(Home[u]) + 2 * k
    BY <1>6 DEF IdsInv
  <2>2. CASE Home[u] = x
    BY <1>2, <1>3, <1>5, <2>1, <2>2 DEF n
  <2>3. CASE Home[u] # x
    <3>1. First(Home[u]) # First(x) /\ First(Home[u]) \in {1, 2}
      <4>1. Home[u] \in Sides /\ Initiator \in Sides
        BY HomeFacts, SessionAssumption
      <4>2. Home[u] = Initiator \/ x = Initiator
        BY <1>1, <2>3, <4>1, PeerFacts
      <4> QED BY <2>3, <4>2 DEF First
    <3> QED BY <1>2, <1>3, <1>5, <2>1, <3>1
  <2> QED BY <2>2, <2>3
<1>10. \A u \in Tasks : chan'[u] = 0 <=> pc'[u] = "idle"
  BY <1>5, <1>6 DEF IdsInv
<1>11. \A z \in Sides : next_id'[z] = First(z) + 2 * Cardinality(Begun(z)')
  <2> SUFFICES ASSUME NEW z \in Sides PROVE next_id'[z] = First(z) + 2 * Cardinality(Begun(z)')
    OBVIOUS
  <2>1. CASE z = x
    BY <1>4, <1>8, <2>1
  <2>2. CASE z # x
    <3>1. next_id'[z] = next_id[z] /\ Begun(z)' = Begun(z)
      BY <1>5, <1>7, <2>2
    <3> QED BY <3>1 DEF IdsInv
  <2> QED BY <2>1, <2>2
<1>12. ASSUME NEW u \in Tasks, chan'[u] # 0
       PROVE  \E k \in Nat : k < Cardinality(Begun(Home[u])') /\ chan'[u] = First(Home[u]) + 2 * k
  <2>1. CASE u = t
    BY <1>2, <1>5, <1>8, <2>1
  <2>2. CASE u # t
    <3>1. PICK k \in Nat : k < Cardinality(Begun(Home[u])) /\ chan[u] = First(Home[u]) + 2 * k
      BY <1>5, <1>12, <2>2 DEF IdsInv
    <3>2. k < Cardinality(Begun(Home[u])')
      <4>1. CASE Home[u] = x
        BY <1>2, <1>8, <3>1, <4>1 DEF n
      <4>2. CASE Home[u] # x
        BY <1>7, <3>1, <4>2, HomeFacts
      <4> QED BY <4>1, <4>2
    <3> QED BY <1>5, <2>2, <3>1, <3>2
  <2> QED BY <2>1, <2>2
<1>13. \A u, v \in Tasks : chan'[u] = chan'[v] /\ chan'[u] # 0 => u = v
  BY <1>5, <1>9 DEF IdsInv
<1>14. next_id' \in [Sides -> Ids]
  BY <1>4, <1>1 DEF SessionTypes
<1> QED BY <1>6, <1>9, <1>10, <1>11, <1>12, <1>13, <1>14 DEF IdsInv

-----------------------------------------------------------------------------
(* Every frame, handler, waiter and open channel belongs to one task: the    *)
(* channel it names is that task's.                                          *)

ChanKept == \A t \in Tasks : chan[t] # 0 => chan'[t] = chan[t]
Opened(c, y) == \E t \in Tasks : Home[t] = Peer(y) /\ chan[t] = c /\ c # 0

\* Frame f is one that may be on its way to x.
Well(x, f) ==
    /\ f.kind \in {"hello", "open", "cancel"} => f.chan = 0
    /\ f.kind = "open" => Opened(f.of, x)
    /\ f.kind \in Requests \cup Replies => f.of \in Tasks /\ f.chan = chan[f.of] /\ f.chan # 0
    /\ f.kind \in Requests => Home[f.of] = Peer(x)
    /\ f.kind \in Replies => Home[f.of] = x
    /\ f.kind \in {"request", "response"} => f.of \in Callers
    /\ f.kind \in {"stream_request", "item", "end"} => f.of \in Streamers

Serves(h, x) == /\ Home[h.of] = Peer(x) /\ h.chan = chan[h.of] /\ h.chan # 0
                /\ h.no_reply <=> h.of \in Streamers
Boxed(q, t) == \A i \in DOMAIN q : Back(q[i], t)

LinesInv == \A x \in Sides \ gone : \A i \in DOMAIN Line(x) : Well(x, Line(x)[i])
PlacesInv ==
    /\ \A x \in Sides : \A h \in handlers[x] : Serves(h, x)
    /\ \A x \in Sides : \A c \in open_channels[x] : Opened(c, x)
    /\ \A x \in Sides : \A t \in pending[x] \cup tunnels[x] : Home[t] = x /\ chan[t] # 0
    /\ \A x \in Sides : run_pc[x] = "tunnel" => via[x] = {cur[x].of} /\ cur[x].kind \in Replies
    /\ \A t \in Tasks : Boxed(inbox[t], t)

LEMMA WellKept == ASSUME ChanKept, NEW x, NEW f, Well(x, f) PROVE Well(x, f)'
BY DEF ChanKept, Well, Opened

LEMMA LinesKept ==
    ASSUME SessionTypes, LinesInv, ChanKept, gone \subseteq gone',
           \A x \in Sides \ gone' :
               \/ Line(x)' = Line(x)
               \/ Line(x) # <<>> /\ Line(x)' = Tail(Line(x))
               \/ \E f \in Frames : Well(x, f)' /\ Line(x)' = Append(Line(x), f)
    PROVE  LinesInv'
<1> SUFFICES ASSUME NEW x \in Sides \ gone' PROVE (\A i \in DOMAIN Line(x) : Well(x, Line(x)[i]))'
  BY DEF LinesInv
<1>1. PICK q, p : q \in Seq(Frames) /\ q = Line(x) /\ p = Line(x)' /\ \A i \in DOMAIN q : Well(x, q[i])'
  BY LineTypes, WellKept DEF LinesInv
<1>2. CASE p = q
  BY <1>1, <1>2
<1>3. CASE q # <<>> /\ p = Tail(q)
  <2>1. \A i \in DOMAIN p : Well(x, p[i])'
    BY <1>1, <1>3, Shifted
  <2> QED BY <1>1, <2>1
<1>4. ASSUME NEW f \in Frames, Well(x, f)', p = Append(q, f)
      PROVE  (\A i \in DOMAIN Line(x) : Well(x, Line(x)[i]))'
  <2>1. \A i \in DOMAIN p : Well(x, p[i])'
    BY <1>1, <1>4, Appended
  <2> QED BY <1>1, <2>1
<1> QED BY <1>1, <1>2, <1>3, <1>4

LEMMA PlacesKept ==
    ASSUME PlacesInv, ChanKept,
           \A x \in Sides : \A h \in handlers'[x] : h \in handlers[x] \/ Serves(h, x)',
           \A x \in Sides : \A c \in open_channels'[x] : c \in open_channels[x] \/ Opened(c, x)',
           \A x \in Sides : \A t \in pending'[x] \cup tunnels'[x] :
               t \in pending[x] \cup tunnels[x] \/ (Home[t] = x /\ chan'[t] # 0),
           \A x \in Sides : run_pc'[x] = "tunnel" =>
               \/ run_pc[x] = "tunnel" /\ via'[x] = via[x] /\ cur'[x] = cur[x]
               \/ via'[x] = {cur'[x].of} /\ cur'[x].kind \in Replies,
           \A t \in Tasks : inbox'[t] = inbox[t] \/ Boxed(inbox'[t], t),
           SessionTypes
    PROVE  PlacesInv'
<1>1. \A x \in Sides : \A h \in handlers'[x] : Serves(h, x)'
  <2>1. ASSUME NEW x \in Sides, NEW h \in handlers[x] PROVE Serves(h, x)'
    BY DEF PlacesInv, Serves, ChanKept, SessionTypes, HandlerType
  <2> QED BY <2>1
<1>2. \A x \in Sides : \A c \in open_channels'[x] : Opened(c, x)'
  BY DEF PlacesInv, Opened, ChanKept
<1>3. \A x \in Sides : \A t \in pending'[x] \cup tunnels'[x] : Home[t] = x /\ chan'[t] # 0
  BY DEF PlacesInv, ChanKept, SessionTypes, Tasks
<1>4. \A x \in Sides : run_pc'[x] = "tunnel" => via'[x] = {cur'[x].of} /\ cur'[x].kind \in Replies
  BY DEF PlacesInv
<1>5. \A t \in Tasks : Boxed(inbox'[t], t)
  BY DEF PlacesInv, Boxed
<1> QED BY <1>1, <1>2, <1>3, <1>4, <1>5 DEF PlacesInv

LEMMA BoxedFacts ==
    ASSUME NEW q \in Seq(Frames), NEW t, Boxed(q, t)
    PROVE  /\ \A f \in Frames : Back(f, t) => Boxed(Append(q, f), t)
           /\ q # <<>> => Boxed(Tail(q), t) /\ Back(Head(q), t) /\ Head(q) \in Frames
           /\ Boxed(<<>>, t)
<1>1. ASSUME NEW f \in Frames, Back(f, t) PROVE Boxed(Append(q, f), t)
  BY <1>1, Appended DEF Boxed
<1>2. ASSUME q # <<>> PROVE Boxed(Tail(q), t) /\ Back(Head(q), t) /\ Head(q) \in Frames
  BY <1>2, Shifted DEF Boxed
<1>3. Boxed(<<>>, t)
  BY DEF Boxed
<1> QED BY <1>1, <1>2, <1>3

\* The frame in hand, while run() lives.
LEMMA InHand ==
    ASSUME SessionTypes, LinesInv, NEW x \in Sides \ gone, Busy(x)
    PROVE  cur[x] \in Frames /\ Well(x, cur[x])
<1>1. Line(x) \in Seq(Frames) /\ Line(x) # <<>> /\ Head(Line(x)) = cur[x]
  BY LineTypes
<1>2. 1 \in DOMAIN Line(x) /\ Line(x)[1] = cur[x]
  BY <1>1, Shifted
<1> QED BY <1>2 DEF LinesInv, SessionTypes

LEMMA SmallIds == ASSUME IdsLast PROVE 0 \in Ids /\ IdSpace \in Nat \ {0}
<1>1. Cardinality(Tasks) \in Nat /\ IdSpace \in Nat
  BY FS_CardinalityType, SessionAssumption DEF IdsLast
<1> QED BY <1>1 DEF IdsLast, Ids

LEMMA FramesMade ==
    ASSUME IdsLast, NEW c \in Ids
    PROVE  /\ \A kind \in Kinds, t \in Tasks : Frame(kind, c, t) \in Frames
           /\ \A t \in Tasks, i \in 0 .. Items : ItemFrame(c, t, i) \in Frames
           /\ \A kind \in Kinds : Control(kind, c) \in Frames
<1>1. 0 \in Ids /\ 0 \in 0 .. Items
  BY SmallIds, SessionAssumption
<1> QED BY <1>1 DEF Frame, ItemFrame, Control, Frames, Kinds

-----------------------------------------------------------------------------
(* The invariant, one task at a time.                                        *)

HandlersOf(t) == {h \in handlers[Peer(Home[t])] : h.of = t}
Underway == {"send_open", "send_request", "receiving"}

\* A request is dispatched at most once, and nothing of an answer precedes that.
Counting(t) ==
    /\ executed[t] \in {0, 1}
    /\ pc[t] \in UnsentSteps => executed[t] = 0
    /\ executed[t] = 0 => /\ HandlersOf(t) = {} /\ inbox[t] = <<>> /\ got[t] = <<>>
                          /\ Home[t] \in gone \/ NoBack(Line(Home[t]), t)
    /\ \A h, k \in HandlersOf(t) : h = k
    /\ \/ Peer(Home[t]) \in gone
       \/ Asking(Line(Peer(Home[t])), t, chan[t], open_channels[Peer(Home[t])], pc[t], executed[t])

Waiting(t) ==
    /\ t \in pending[Home[t]] =>
          pc[t] \in {"send_open", "send_request", "await", "unwind"} /\ inbox[t] = <<>>
    /\ pc[t] \in {"send_open", "send_request", "await"} /\ inbox[t] = <<>> =>
          t \in pending[Home[t]]

Flowing(t) ==
    /\ got[t] = [i \in 1 .. Len(got[t]) |-> i]
    /\ pc[t] = "answered" => Len(got[t]) = Items
    /\ pc[t] \in {"answered", "failed"} =>
          /\ executed[t] = 1
          /\ Home[t] \in gone \/ (NoBack(Line(Home[t]), t) /\ HandlersOf(t) = {})
    /\ pc[t] \in Underway =>
          \/ Home[t] \in gone
          \/ \E s \in 0 .. Items : Flow(Line(Home[t]), inbox[t], Len(got[t]), HandlersOf(t), t,
                                        t \in tunnels[Home[t]], s)

TaskInv(t) == /\ Counting(t)
              /\ t \in Callers => Waiting(t)
              /\ t \in Streamers => Flowing(t)
Rejecting == \A x \in Sides : run_pc[x] = "cancel" =>
                 cur[x].kind = "item" /\ cur[x].of \in Streamers /\ pc[cur[x].of] = "gave_up"
Inv == /\ SessionTypes /\ IdsInv /\ LinesInv /\ PlacesInv /\ Rejecting
       /\ \A t \in Tasks : TaskInv(t)

-----------------------------------------------------------------------------
(* A step of somebody else leaves a task as it was.                          *)

OpensHeld(x) == \A c \in Ids : Opens(Head(Line(x)), c) => c \in open_channels'[x]

LEMMA AskingKept ==
    ASSUME SessionTypes, NEW t \in Tasks, NEW y \in Sides, NEW c \in Ids, NEW step, NEW runs,
           Asking(Line(y), t, c, open_channels[y], step, runs),
           open_channels[y] \subseteq open_channels'[y],
           \/ Line(y)' = Line(y)
           \/ Line(y) # <<>> /\ Line(y)' = Tail(Line(y)) /\ OpensHeld(y)
           \/ \E f \in Frames : ~Req(f, t) /\ Line(y)' = Append(Line(y), f)
    PROVE  Asking(Line(y)', t, c, open_channels'[y], step, runs)
<1>1. PICK q, p, o, m : /\ q \in Seq(Frames) /\ q = Line(y) /\ p = Line(y)'
                        /\ o = open_channels[y] /\ m = open_channels'[y]
  BY LineTypes
<1>2. Asking(q, t, c, m, step, runs)
  BY <1>1 DEF Asking
<1>3. CASE q # <<>> /\ p = Tail(q) /\ (Opens(Head(q), c) => c \in m)
  <2>1. Asking(Tail(q), t, c, m, step, runs)
    BY <1>1, <1>2, <1>3, AskingTake
  <2> QED BY <1>1, <1>3, <2>1
<1>4. ASSUME NEW f \in Frames, ~Req(f, t), p = Append(q, f) PROVE Asking(p, t, c, m, step, runs)
  BY <1>1, <1>2, <1>4, AskingAppend
<1> QED BY <1>1, <1>2, <1>3, <1>4 DEF OpensHeld

LEMMA NoBackKept ==
    ASSUME SessionTypes, NEW t \in Tasks, NEW x \in Sides, NoBack(Line(x), t),
           \/ Line(x)' = Line(x)
           \/ Line(x) # <<>> /\ Line(x)' = Tail(Line(x))
           \/ \E f \in Frames : ~Back(f, t) /\ Line(x)' = Append(Line(x), f)
    PROVE  NoBack(Line(x)', t)
<1>1. PICK q, p : q \in Seq(Frames) /\ q = Line(x) /\ p = Line(x)'
  BY LineTypes
<1>2. /\ \A f \in Frames : ~Back(f, t) => NoBack(Append(q, f), t)
      /\ q # <<>> => NoBack(Tail(q), t)
  BY <1>1, BackTaken
<1>3. NoBack(p, t)
  BY <1>1, <1>2
<1> QED BY <1>1, <1>3

LEMMA FlowKept ==
    ASSUME SessionTypes, NEW t \in Tasks, NEW x \in Sides, NEW box \in Seq(Frames), NEW g \in Nat,
           NEW hs, NEW there, NEW s \in Nat, Flow(Line(x), box, g, hs, t, there, s),
           \/ Line(x)' = Line(x)
           \/ Line(x) # <<>> /\ Line(x)' = Tail(Line(x)) /\ ~Back(Head(Line(x)), t)
           \/ \E f \in Frames : ~Back(f, t) /\ Line(x)' = Append(Line(x), f)
    PROVE  Flow(Line(x)', box, g, hs, t, there, s)
<1>1. PICK q \in Seq(Frames) : q = Line(x)
  BY LineTypes
<1> QED BY <1>1, FlowAppend, FlowTake

LEMMA OthersKept ==
    ASSUME Inv, NEW S, gone \subseteq gone',
           \A t \in Tasks \ S : /\ pc'[t] = pc[t] /\ chan'[t] = chan[t] /\ inbox'[t] = inbox[t]
                                /\ executed'[t] = executed[t] /\ got'[t] = got[t],
           \A z \in Sides : \A h : h.of \in Tasks \ S => (h \in handlers'[z] <=> h \in handlers[z]),
           \A z \in Sides : \A t \in Tasks \ S : /\ t \in pending'[z] <=> t \in pending[z]
                                                 /\ t \in tunnels'[z] <=> t \in tunnels[z],
           \A z \in Sides : open_channels[z] \subseteq open_channels'[z],
           \A z \in Sides \ gone' :
               \/ Line(z)' = Line(z)
               \/ /\ Line(z) # <<>> /\ Line(z)' = Tail(Line(z)) /\ OpensHeld(z)
                  /\ \A t \in Streamers \ S : Back(Head(Line(z)), t) => pc[t] = "gave_up"
               \/ \E f \in Frames : /\ Line(z)' = Append(Line(z), f)
                                    /\ \A t \in Tasks \ S : ~Back(f, t) /\ ~Req(f, t)
    PROVE  \A t \in Tasks \ S : TaskInv(t)'
<1> SUFFICES ASSUME NEW t \in Tasks, t \notin S PROVE TaskInv(t)'
  OBVIOUS
<1> DEFINE x == Home[t]
           y == Peer(Home[t])
<1>1. x \in Sides /\ y \in Sides
  BY HomeFacts
<1>2. TaskInv(t) /\ SessionTypes /\ chan[t] \in Ids
  BY DEF Inv, SessionTypes
<1>3. /\ pc'[t] = pc[t] /\ chan'[t] = chan[t] /\ inbox'[t] = inbox[t]
      /\ executed'[t] = executed[t] /\ got'[t] = got[t]
      /\ (t \in pending'[x] <=> t \in pending[x]) /\ (t \in tunnels'[x] <=> t \in tunnels[x])
  BY <1>1
<1>4. HandlersOf(t)' = HandlersOf(t)
  BY <1>1 DEF HandlersOf
<1>5. Asking(Line(y), t, chan[t], open_channels[y], pc[t], executed[t]) /\ y \notin gone' =>
          Asking(Line(y), t, chan[t], open_channels[y], pc[t], executed[t])'
  BY <1>1, <1>2, <1>3, AskingKept
<1>6. NoBack(Line(x), t) /\ x \notin gone' => NoBack(Line(x)', t)
  BY <1>1, <1>2, NoBackKept
<1>7. Counting(t)'
  <2>1. Counting(t)
    BY <1>2 DEF TaskInv
  <2>2. /\ executed'[t] \in {0, 1}
        /\ pc'[t] \in UnsentSteps => executed'[t] = 0
        /\ \A h, k \in HandlersOf(t)' : h = k
    BY <1>3, <1>4, <2>1 DEF Counting
  <2>3. executed'[t] = 0 => /\ HandlersOf(t)' = {} /\ inbox'[t] = <<>> /\ got'[t] = <<>>
                            /\ x \in gone' \/ NoBack(Line(x)', t)
    BY <1>3, <1>4, <1>6, <2>1 DEF Counting
  <2>4. y \in gone' \/ Asking(Line(y), t, chan[t], open_channels[y], pc[t], executed[t])'
    BY <1>5, <2>1 DEF Counting
  <2> QED BY <2>2, <2>3, <2>4 DEF Counting
<1>8. t \in Callers => Waiting(t)'
  BY <1>2, <1>3 DEF TaskInv, Waiting
<1>9. t \in Streamers => Flowing(t)'
  <2> SUFFICES ASSUME t \in Streamers PROVE Flowing(t)'
    OBVIOUS
  <2>1. Flowing(t) /\ inbox[t] \in Seq(Frames) /\ Len(got[t]) \in Nat
    BY <1>2, LenProperties DEF TaskInv, SessionTypes
  <2>2. ASSUME NEW s \in 0 .. Items, pc[t] \in Underway, x \notin gone',
               Flow(Line(x), inbox[t], Len(got[t]), HandlersOf(t), t, t \in tunnels[x], s)
        PROVE  Flow(Line(x)', inbox[t], Len(got[t]), HandlersOf(t), t, t \in tunnels[x], s)
    <3>1. pc[t] # "gave_up"
      BY <2>2 DEF Underway
    <3> QED BY <1>1, <1>2, <2>1, <2>2, <3>1, FlowKept
  <2>3. /\ got'[t] = [i \in 1 .. Len(got'[t]) |-> i]
        /\ pc'[t] = "answered" => Len(got'[t]) = Items
        /\ pc'[t] \in {"answered", "failed"} =>
              /\ executed'[t] = 1
              /\ x \in gone' \/ (NoBack(Line(x)', t) /\ HandlersOf(t)' = {})
    BY <1>3, <1>4, <1>6, <2>1 DEF Flowing
  <2>4. pc'[t] \in Underway =>
            \/ x \in gone'
            \/ \E s \in 0 .. Items : Flow(Line(x)', inbox'[t], Len(got'[t]), HandlersOf(t)', t,
                                          t \in tunnels'[x], s)
    <3>1. (t \in tunnels'[x]) = (t \in tunnels[x])
      BY <1>3
    <3> QED BY <1>3, <1>4, <2>1, <2>2, <3>1 DEF Flowing
  <2> QED BY <2>3, <2>4 DEF Flowing
<1> QED BY <1>7, <1>8, <1>9 DEF TaskInv

-----------------------------------------------------------------------------
(* Steps of run(). *)

LEMMA RunTypes ==
    ASSUME IdsLast, Inv, NEW x \in Sides, RunStep(x)
    PROVE  SessionTypes'
<1>1. SessionTypes
  BY DEF Inv
<1>2. 0 \in Ids /\ IdSpace \in Nat \ {0}
  BY SmallIds
<1>3. Peer(x) \in Sides /\ wire[Peer(x)] \in Seq(Frames)
  BY <1>1, PeerFacts DEF SessionTypes
<1>4. CASE SayHello(x)
  <2>1. Control("hello", 0) \in Frames
    BY <1>2, FramesMade DEF Kinds
  <2> QED BY <1>1, <1>3, <1>4, <2>1 DEF SessionTypes, SayHello, Put, GotoRun, RunSteps, Busy, task_vars
<1>5. CASE HearHello(x)
  <2>1. Tail(wire[x]) \in Seq(Frames)
    BY <1>1, <1>5, Shifted DEF SessionTypes, HearHello, HasFrame
  <2> QED BY <1>1, <1>5, <2>1 DEF SessionTypes, HearHello, Take, GotoRun, RunSteps, Busy, task_vars
<1>6. CASE HandshakeFails(x)
  BY <1>1, <1>6 DEF SessionTypes, HandshakeFails, GotoRun, RunSteps, Busy, task_vars
<1>7. CASE RecvBegin(x)
  BY <1>1, <1>7 DEF SessionTypes, RecvBegin, GotoRun, RunSteps, Busy, task_vars
<1>8. CASE RecvFrame(x)
  <2>1. Tail(wire[x]) \in Seq(Frames) /\ Head(wire[x]) \in Frames
    BY <1>1, <1>8, Shifted DEF SessionTypes, RecvFrame, HasFrame
  <2> QED BY <1>1, <1>8, <2>1 DEF SessionTypes, RecvFrame, Take, GotoRun, RunSteps, Busy, task_vars
<1>9. CASE RecvClosed(x)
  BY <1>1, <1>9 DEF SessionTypes, RecvClosed, GotoRun, RunSteps, Busy, task_vars
<1>10. CASE RouteToTunnel(x)
  BY <1>1, <1>10 DEF SessionTypes, RouteToTunnel, Routing, On, GotoRun, RunSteps, Busy, task_vars
<1>11. CASE DeliverToTunnel(x)
  <2>1. PICK t \in via[x] :
          /\ inbox' = IF Listening(t) THEN [inbox EXCEPT ![t] = Append(@, cur[x])] ELSE inbox
          /\ tunnels' = IF Listening(t) /\ cur[x].kind = "item" THEN tunnels
                        ELSE [tunnels EXCEPT ![x] = @ \ On(@, cur[x].chan)]
    BY <1>11 DEF DeliverToTunnel
  <2>2. t \in Streamers /\ t \in Tasks /\ cur[x] \in Frames /\ inbox[t] \in Seq(Frames)
    BY <1>1, <1>11 DEF SessionTypes, Tasks, Busy, DeliverToTunnel
  <2>3. Append(inbox[t], cur[x]) \in Seq(Frames)
    BY <2>2, Appended
  <2>4. inbox' \in [Tasks -> Seq(Frames)]
    BY <1>1, <2>1, <2>2, <2>3 DEF SessionTypes
  <2>5. tunnels' \in [Sides -> SUBSET Streamers]
    BY <1>1, <2>1 DEF SessionTypes
  <2> QED BY <1>1, <1>11, <2>4, <2>5 DEF SessionTypes, DeliverToTunnel, Handled, GotoRun, RunSteps, Busy
<1>12. CASE RouteResponse(x)
  <2>1. cur[x] \in Frames /\ <<cur[x]>> \in Seq(Frames)
    BY <1>1, <1>12 DEF SessionTypes, RouteResponse, Routing, Busy
  <2> QED BY <1>1, <1>12, <2>1 DEF SessionTypes, RouteResponse, Handled, GotoRun, RunSteps, Busy
<1>13. CASE RouteControl(x)
  <2>1. cur[x] \in Frames /\ (cur[x].kind = "open" => Opened(cur[x].of, x))
    BY <1>1, <1>13, InHand DEF Inv, RouteControl, Routing, Busy, Well
  <2>2. cur[x].kind = "open" => cur[x].of \in Ids
    BY <1>1, <2>1 DEF Opened, SessionTypes
  <2> QED BY <1>1, <1>13, <2>2 DEF SessionTypes, RouteControl, Handled, GotoRun, RunSteps, Busy, task_vars
<1>14. CASE SkipNonData(x)
  BY <1>1, <1>14 DEF SessionTypes, SkipNonData, Handled, GotoRun, RunSteps, Busy, task_vars
<1>15. CASE RejectUnopened(x)
  BY <1>1, <1>15 DEF SessionTypes, RejectUnopened, DataForHandler, Routing, GotoRun, RunSteps, Busy, task_vars
<1>16. CASE SendCancel(x)
  <2>1. cur[x] \in Frames
    BY <1>1, <1>16 DEF SessionTypes, SendCancel, Busy
  <2>2. Control("cancel", cur[x].chan) \in Frames
    BY <2>1, FramesMade DEF Kinds, Frames
  <2>3. wire' \in [Sides -> Seq(Frames)]
    <3>1. PICK f \in Frames : f = Control("cancel", cur[x].chan)
      BY <2>2
    <3>2. Append(wire[Peer(x)], f) \in Seq(Frames)
      BY <1>3, Appended
    <3>3. wire' = wire \/ wire' = [wire EXCEPT ![Peer(x)] = Append(@, f)]
      BY <1>16, <3>1 DEF SendCancel, Put
    <3> QED BY <1>1, <3>2, <3>3 DEF SessionTypes
  <2> QED BY <1>1, <1>16, <2>3 DEF SessionTypes, SendCancel, Handled, GotoRun, RunSteps, Busy, task_vars
<1>17. CASE Dispatch(x)
  <2>1. cur[x] \in Frames /\ cur[x].of \in Tasks
    BY <1>1, <1>17, InHand DEF Inv, Dispatch, DataForHandler, Routing, Busy, Well, Requests, Replies
  <2>2. [chan |-> cur[x].chan, of |-> cur[x].of, n |-> 0, no_reply |-> cur[x].kind = "stream_request"]
            \in HandlerType
    BY <2>1, SessionAssumption DEF HandlerType, Frames
  <2>3. handlers' \in [Sides -> SUBSET HandlerType]
    BY <1>1, <1>17, <2>2 DEF SessionTypes, Dispatch
  <2>4. executed' \in [Tasks -> Nat]
    BY <1>1, <1>17, <2>1 DEF SessionTypes, Dispatch
  <2> QED BY <1>1, <1>17, <2>3, <2>4 DEF SessionTypes, Dispatch, Handled, GotoRun, RunSteps, Busy, task_vars
<1> QED BY <1>4, <1>5, <1>6, <1>7, <1>8, <1>9, <1>10, <1>11, <1>12, <1>13, <1>14, <1>15, <1>16, <1>17 DEF RunStep

\* What a step of somebody other than the tasks in S may do to a line.
LineStep(z, S) ==
    \/ Line(z)' = Line(z)
    \/ /\ Line(z) # <<>> /\ Line(z)' = Tail(Line(z)) /\ OpensHeld(z)
       /\ \A t \in Streamers \ S : Back(Head(Line(z)), t) => pc[t] = "gave_up"
    \/ \E f \in Frames : /\ Line(z)' = Append(Line(z), f) /\ Well(z, f)'
                         /\ \A t \in Tasks \ S : ~Back(f, t) /\ ~Req(f, t)

LEMMA LineStepKept ==
    ASSUME Inv, NEW S, gone \subseteq gone', ChanKept,
           \A t \in Tasks \ S : /\ pc'[t] = pc[t] /\ chan'[t] = chan[t] /\ inbox'[t] = inbox[t]
                                /\ executed'[t] = executed[t] /\ got'[t] = got[t],
           \A z \in Sides : \A h : h.of \in Tasks \ S => (h \in handlers'[z] <=> h \in handlers[z]),
           \A z \in Sides : \A t \in Tasks \ S : /\ t \in pending'[z] <=> t \in pending[z]
                                                 /\ t \in tunnels'[z] <=> t \in tunnels[z],
           \A z \in Sides : open_channels[z] \subseteq open_channels'[z],
           \A z \in Sides \ gone' : LineStep(z, S)
    PROVE  LinesInv' /\ \A t \in Tasks \ S : TaskInv(t)'
<1>1. LinesInv'
  <2>1. \A z \in Sides \ gone' :
               \/ Line(z)' = Line(z)
               \/ Line(z) # <<>> /\ Line(z)' = Tail(Line(z))
               \/ \E f \in Frames : Well(z, f)' /\ Line(z)' = Append(Line(z), f)
    BY DEF LineStep
  <2> QED BY <2>1, LinesKept DEF Inv
<1>2. \A z \in Sides \ gone' :
               \/ Line(z)' = Line(z)
               \/ /\ Line(z) # <<>> /\ Line(z)' = Tail(Line(z)) /\ OpensHeld(z)
                  /\ \A t \in Streamers \ S : Back(Head(Line(z)), t) => pc[t] = "gave_up"
               \/ \E f \in Frames : /\ Line(z)' = Append(Line(z), f)
                                    /\ \A t \in Tasks \ S : ~Back(f, t) /\ ~Req(f, t)
  BY DEF LineStep
<1>3. \A t \in Tasks \ S : TaskInv(t)'
  BY <1>2, OthersKept
<1> QED BY <1>1, <1>3

\* A step that no task notices.
LEMMA Unnoticed ==
    ASSUME Inv, SessionTypes', gone \subseteq gone',
           UNCHANGED <<next_id, pending, tunnels, handlers, task_vars, executed>>,
           \A z \in Sides : open_channels[z] \subseteq open_channels'[z],
           \A z \in Sides : \A c \in open_channels'[z] : c \in open_channels[z] \/ Opened(c, z),
           \A z \in Sides \ gone' : LineStep(z, {}),
           \A z \in Sides : run_pc'[z] = "tunnel" =>
               \/ run_pc[z] = "tunnel" /\ via'[z] = via[z] /\ cur'[z] = cur[z]
               \/ via'[z] = {cur'[z].of} /\ cur'[z].kind \in Replies,
           \A z \in Sides : run_pc'[z] = "cancel" =>
               \/ run_pc[z] = "cancel" /\ cur'[z] = cur[z]
               \/ cur'[z].kind = "item" /\ cur'[z].of \in Streamers /\ pc[cur'[z].of] = "gave_up"
    PROVE  Inv'
<1>1. ChanKept
  BY DEF ChanKept, task_vars
<1>2. LinesInv' /\ \A t \in Tasks : TaskInv(t)'
  <2>1. LinesInv' /\ \A t \in Tasks \ {} : TaskInv(t)'
    BY <1>1, LineStepKept DEF task_vars
  <2> QED BY <2>1
<1>3. IdsInv'
  BY IdsStay DEF Inv, task_vars
<1>4. PlacesInv'
  <2>1. PlacesInv /\ SessionTypes /\ inbox' = inbox /\ handlers' = handlers /\ pending' = pending
        /\ tunnels' = tunnels /\ chan' = chan
    BY DEF Inv, task_vars
  <2>2. \A z, c : Opened(c, z) => Opened(c, z)'
    BY <2>1 DEF Opened
  <2> QED BY <1>1, <2>1, <2>2, PlacesKept
<1>5. Rejecting'
  BY DEF Inv, Rejecting, task_vars
<1> QED BY <1>2, <1>3, <1>4, <1>5 DEF Inv

LEMMA NothingNoticed ==
    ASSUME Inv, SessionTypes', gone \subseteq gone', \A z \in Sides \ gone' : Line(z)' = Line(z),
           UNCHANGED <<next_id, pending, tunnels, handlers, task_vars, executed, open_channels>>,
           \A z \in Sides : run_pc'[z] = "tunnel" =>
               \/ run_pc[z] = "tunnel" /\ via'[z] = via[z] /\ cur'[z] = cur[z]
               \/ via'[z] = {cur'[z].of} /\ cur'[z].kind \in Replies,
           \A z \in Sides : run_pc'[z] = "cancel" =>
               \/ run_pc[z] = "cancel" /\ cur'[z] = cur[z]
               \/ cur'[z].kind = "item" /\ cur'[z].of \in Streamers /\ pc[cur'[z].of] = "gave_up"
    PROVE  Inv'
<1>1. \A z \in Sides \ gone' : LineStep(z, {})
  BY DEF LineStep
<1> QED BY <1>1, Unnoticed

\* A frame for a stream that has no tunnel any more is one for a stream given up.
LEMMA Abandoned ==
    ASSUME Inv, NEW x \in Sides \ gone, Busy(x), NEW t \in Streamers, Back(cur[x], t), t \notin tunnels[x]
    PROVE  pc[t] = "gave_up"
<1>1. cur[x] \in Frames /\ Well(x, cur[x]) /\ t \in Tasks
  BY InHand DEF Inv, Tasks
<1>2. Home[t] = x /\ chan[t] # 0
  BY <1>1 DEF Well, Back
<1>3. PICK q \in Seq(Frames) : q = Line(x) /\ q # <<>> /\ Head(q) = cur[x]
  BY LineTypes DEF Inv
<1>4. Flowing(t) /\ pc[t] \in StreamSteps /\ inbox[t] \in Seq(Frames) /\ Len(got[t]) \in Nat
  BY <1>1, LenProperties DEF Inv, TaskInv, SessionTypes
<1>5. pc[t] # "idle"
  BY <1>1, <1>2 DEF Inv, IdsInv
<1>6. ~NoBack(Line(x), t)
  BY <1>3, BackTaken
<1>7. pc[t] \notin {"answered", "failed"}
  BY <1>2, <1>4, <1>6 DEF Flowing
<1>8. pc[t] \notin Underway
  <2> SUFFICES ASSUME pc[t] \in Underway PROVE FALSE
    OBVIOUS
  <2>1. PICK s \in 0 .. Items : Flow(q, inbox[t], Len(got[t]), HandlersOf(t), t, t \in tunnels[x], s)
    BY <1>2, <1>3, <1>4 DEF Flowing
  <2>2. s \in Nat
    BY SessionAssumption
  <2>3. PICK there, g, box, hs : /\ g \in Nat /\ box \in Seq(Frames)
                                 /\ Flow(q, box, g, hs, t, there, s) /\ there = (t \in tunnels[x])
    BY <1>4, <2>1
  <2>4. there
    BY <1>3, <2>2, <2>3, FlowTake
  <2> QED BY <2>3, <2>4
<1> QED BY <1>4, <1>5, <1>7, <1>8 DEF StreamSteps, Underway

\* What a frame in hand says of its task.
LEMMA TaskInHand ==
    ASSUME Inv, NEW x \in Sides \ gone, Busy(x), cur[x].chan # 0
    PROVE  LET t == cur[x].of IN
           /\ cur[x].kind \in Requests \cup Replies /\ t \in Tasks /\ chan[t] # 0
           /\ Back(cur[x], t) \/ Req(cur[x], t)
           /\ Back(cur[x], t) => Home[t] = x
           /\ Req(cur[x], t) => Home[t] = Peer(x)
           /\ \A u \in Tasks : chan[u] = cur[x].chan <=> u = t
<1>1. cur[x] \in Frames /\ Well(x, cur[x])
  BY InHand DEF Inv
<1>2. cur[x].kind \in Requests \cup Replies
  BY <1>1 DEF Well, Frames, Kinds, Requests, Replies
<1>3. cur[x].of \in Tasks /\ cur[x].chan = chan[cur[x].of]
  BY <1>1, <1>2 DEF Well
<1>4. \A u \in Tasks : chan[u] = cur[x].chan => u = cur[x].of
  BY <1>3 DEF Inv, IdsInv
<1> QED BY <1>1, <1>2, <1>3, <1>4 DEF Well, Back, Req

LEMMA RunBusy ==
    ASSUME SessionTypes, NEW x \in Sides, NEW step, GotoRun(x, step), step \in RunSteps
    PROVE  /\ run_pc'[x] = step /\ \A z \in Sides \ {x} : run_pc'[z] = run_pc[z] /\ Busy(z)' = Busy(z)
           /\ Busy(x)' = (step \in {"route", "tunnel", "cancel"})
<1>1. run_pc'[x] = step /\ \A z \in Sides \ {x} : run_pc'[z] = run_pc[z]
  BY DEF SessionTypes, GotoRun
<1> QED BY <1>1 DEF Busy

LEMMA HandshakeKept ==
    ASSUME IdsLast, Inv, NEW x \in Sides, RunStep(x), SayHello(x) \/ HearHello(x)
    PROVE  Inv'
<1>1. SessionTypes /\ SessionTypes' /\ Peer(x) \in Sides
  BY RunTypes, PeerFacts DEF Inv
<1>2. CASE SayHello(x)
  <2>1. PICK f \in Frames : f = Control("hello", 0)
    BY SmallIds, FramesMade DEF Kinds
  <2>2. /\ Put(x, f) /\ run_pc[x] = "say_hello" /\ cur' = cur
        /\ UNCHANGED <<gone, via, next_id, pending, tunnels, open_channels, handlers, task_vars, executed>>
    BY <1>2, <2>1 DEF SayHello
  <2>3. /\ run_pc'[x] \in {"recv_hello", "recv"} /\ \A z \in Sides \ {x} : run_pc'[z] = run_pc[z]
    BY <1>1, <1>2 DEF SayHello, GotoRun, SessionTypes
  <2>4. \A z \in Sides : Busy(z)' = Busy(z)
    BY <2>2, <2>3 DEF Busy
  <2>5. LineGrows(Peer(x), f)
    BY <1>1, <2>2, <2>4, LinePut
  <2>6. \A z : Well(z, f)' /\ \A t : ~Back(f, t) /\ ~Req(f, t)
    BY <2>1 DEF Control, Well, Requests, Replies, Back, Req
  <2>7. \A z \in Sides \ gone' : LineStep(z, {})
    BY <2>5, <2>6 DEF LineStep, LineGrows
  <2> QED BY <1>1, <2>2, <2>3, <2>7, Unnoticed
<1>3. CASE HearHello(x)
  <2>1. LineShrinks(x) /\ Head(Line(x)).kind = "hello"
    BY <1>1, <1>3, LineHeard
  <2>2. /\ run_pc[x] = "await_hello" /\ cur' = cur
        /\ UNCHANGED <<gone, via, next_id, pending, tunnels, open_channels, handlers, task_vars, executed>>
    BY <1>3 DEF HearHello
  <2>3. /\ run_pc'[x] \in {"say_hello", "recv"} /\ \A z \in Sides \ {x} : run_pc'[z] = run_pc[z]
    BY <1>1, <1>3 DEF HearHello, GotoRun, SessionTypes
  <2>4. LineStep(x, {})
    BY <2>1 DEF LineStep, LineShrinks, OpensHeld, Opens, Back, Replies
  <2>5. \A z \in Sides \ gone' : LineStep(z, {})
    BY <2>1, <2>4 DEF LineStep, LineShrinks
  <2> QED BY <1>1, <2>2, <2>3, <2>5, Unnoticed
<1> QED BY <1>2, <1>3

LEMMA LoopKept ==
    ASSUME IdsLast, Inv, NEW x \in Sides, RunStep(x),
           HandshakeFails(x) \/ RecvBegin(x) \/ RecvFrame(x) \/ RecvClosed(x)
    PROVE  Inv'
<1>1. SessionTypes /\ SessionTypes'
  BY RunTypes DEF Inv
<1>2. UNCHANGED <<gone, via, next_id, pending, tunnels, open_channels, handlers, task_vars, executed>>
  BY DEF HandshakeFails, RecvBegin, RecvFrame, RecvClosed
<1>3. CASE RecvFrame(x)
  <2>1. LinesSame
    BY <1>1, <1>3, LineTaken
  <2>2. /\ run_pc'[x] = "route"
        /\ \A z \in Sides \ {x} : run_pc'[z] = run_pc[z] /\ cur'[z] = cur[z]
    BY <1>1, <1>3 DEF RecvFrame, GotoRun, SessionTypes
  <2> QED BY <1>1, <1>2, <2>1, <2>2, NothingNoticed DEF LinesSame
<1>4. CASE HandshakeFails(x) \/ RecvBegin(x) \/ RecvClosed(x)
  <2>1. /\ wire' = wire /\ cur' = cur /\ run_pc[x] \notin {"route", "tunnel", "cancel"}
        /\ \E step \in RunSteps \ {"route", "tunnel", "cancel"} : GotoRun(x, step)
    BY <1>4 DEF HandshakeFails, RecvBegin, RecvClosed, RunSteps
  <2>2. PICK step \in RunSteps \ {"route", "tunnel", "cancel"} : GotoRun(x, step)
    BY <2>1
  <2>3. run_pc'[x] = step /\ \A z \in Sides \ {x} : run_pc'[z] = run_pc[z] /\ Busy(z)' = Busy(z)
    BY <1>1, <2>2, RunBusy
  <2>4. \A z \in Sides : Busy(z)' = Busy(z)
    BY <2>1, <2>3 DEF Busy
  <2>5. LinesSame
    BY <2>1, <2>4, LinesStay
  <2> QED BY <1>1, <1>2, <2>1, <2>3, <2>5, NothingNoticed DEF LinesSame
<1> QED BY <1>3, <1>4

LEMMA RouteToTunnelKept ==
    ASSUME IdsLast, Inv, NEW x \in Sides, RouteToTunnel(x)
    PROVE  Inv'
<1>1. SessionTypes /\ SessionTypes'
  BY RunTypes DEF Inv, RunStep
<1>2. /\ UNCHANGED <<gone, wire, cur, next_id, pending, tunnels, open_channels, handlers, task_vars, executed>>
      /\ x \notin gone /\ run_pc[x] = "route" /\ Busy(x)
      /\ On(tunnels[x], cur[x].chan) # {}
      /\ GotoRun(x, "tunnel")
      /\ via'[x] = On(tunnels[x], cur[x].chan) /\ \A z \in Sides \ {x} : via'[z] = via[z]
  BY <1>1 DEF RouteToTunnel, Routing, Tunnelled, Busy, SessionTypes
<1>3. PICK t \in tunnels[x] : chan[t] = cur[x].chan
  BY <1>2 DEF On
<1>4. t \in Tasks /\ Home[t] = x /\ chan[t] # 0 /\ tunnels[x] \subseteq Tasks
  BY <1>1, <1>3 DEF Inv, PlacesInv, SessionTypes, Tasks
<1>5. t = cur[x].of /\ Back(cur[x], t) /\ \A u \in Tasks : chan[u] = cur[x].chan <=> u = t
  BY <1>2, <1>3, <1>4, TaskInHand, PeerFacts
<1>6. On(tunnels[x], cur[x].chan) = {t}
  BY <1>3, <1>4, <1>5 DEF On
<1>7. run_pc'[x] = "tunnel" /\ \A z \in Sides \ {x} : run_pc'[z] = run_pc[z] /\ Busy(z)' = Busy(z)
  BY <1>1, <1>2, RunBusy DEF RunSteps
<1>8. \A z \in Sides : Busy(z)' = Busy(z)
  BY <1>2, <1>7 DEF Busy
<1>9. LinesSame
  BY <1>2, <1>8, LinesStay
<1>10. cur'[x] = cur[x] /\ cur[x].kind \in Replies /\ via'[x] = {cur'[x].of}
  BY <1>2, <1>5, <1>6 DEF Back
<1> QED BY <1>1, <1>2, <1>7, <1>9, <1>10, NothingNoticed DEF LinesSame

LEMMA PassedOverKept ==
    ASSUME IdsLast, Inv, NEW x \in Sides, RouteControl(x) \/ SkipNonData(x)
    PROVE  Inv'
<1>1. SessionTypes /\ SessionTypes'
  BY RunTypes DEF Inv, RunStep
<1>2. /\ UNCHANGED <<gone, wire, via, next_id, pending, tunnels, handlers, task_vars, executed>>
      /\ x \notin gone /\ Busy(x) /\ Handled(x) /\ ~Tunnelled(x)
      /\ cur[x].kind \in {"hello", "open", "cancel", "error", "end"}
  BY DEF RouteControl, SkipNonData, Routing, Busy
<1>3. /\ LineShrinks(x) /\ Head(Line(x)) = cur[x]
      /\ \A z \in Sides \ {x} : cur'[z] = cur[z] /\ run_pc'[z] = run_pc[z]
      /\ run_pc'[x] = "recv"
  BY <1>1, <1>2, LineHandled DEF Handled, GotoRun, SessionTypes
<1>4. cur[x] \in Frames /\ Well(x, cur[x])
  BY <1>1, <1>2, InHand DEF Inv
<1>5. /\ \A z \in Sides : open_channels[z] \subseteq open_channels'[z]
      /\ \A z \in Sides : \A c \in open_channels'[z] : c \in open_channels[z] \/ Opened(c, z)
      /\ \A c \in Ids : Opens(cur[x], c) => c \in open_channels'[x]
  <2>1. CASE RouteControl(x) /\ cur[x].kind = "open"
    <3>1. open_channels' = [open_channels EXCEPT ![x] = @ \cup {cur[x].of}] /\ Opened(cur[x].of, x)
      BY <1>4, <2>1 DEF RouteControl, Well
    <3> QED BY <1>1, <3>1 DEF SessionTypes, Opens
  <2>2. CASE ~(RouteControl(x) /\ cur[x].kind = "open")
    <3>1. open_channels' = open_channels /\ cur[x].kind # "open"
      BY <2>2 DEF RouteControl, SkipNonData
    <3> QED BY <3>1 DEF Opens
  <2> QED BY <2>1, <2>2
<1>6. \A t \in Streamers : Back(cur[x], t) => pc[t] = "gave_up"
  <2> SUFFICES ASSUME NEW t \in Streamers, Back(cur[x], t) PROVE pc[t] = "gave_up"
    OBVIOUS
  <2>1. cur[x].chan = chan[t]
    BY <1>4 DEF Well, Back
  <2>2. t \notin tunnels[x]
    BY <1>2, <2>1 DEF Tunnelled, On
  <2> QED BY <1>2, <2>2, Abandoned
<1>7. LineStep(x, {})
  BY <1>3, <1>5, <1>6 DEF LineStep, LineShrinks, OpensHeld
<1>8. \A z \in Sides \ gone' : LineStep(z, {})
  BY <1>3, <1>7 DEF LineStep, LineShrinks
<1> QED BY <1>1, <1>2, <1>3, <1>5, <1>8, Unnoticed

LEMMA RejectUnopenedKept ==
    ASSUME IdsLast, Inv, NEW x \in Sides, RejectUnopened(x)
    PROVE  Inv'
<1>1. SessionTypes /\ SessionTypes'
  BY RunTypes DEF Inv, RunStep
<1>2. /\ UNCHANGED <<gone, wire, cur, via, next_id, pending, tunnels, open_channels, handlers, task_vars, executed>>
      /\ x \notin gone /\ run_pc[x] = "route" /\ Busy(x) /\ ~Tunnelled(x)
      /\ cur[x].kind \in {"request", "stream_request", "item"}
      /\ cur[x].chan \notin open_channels[x]
      /\ GotoRun(x, "cancel")
  BY DEF RejectUnopened, DataForHandler, Routing, Busy
<1>3. run_pc'[x] = "cancel" /\ \A z \in Sides \ {x} : run_pc'[z] = run_pc[z] /\ Busy(z)' = Busy(z)
  BY <1>1, <1>2, RunBusy DEF RunSteps
<1>4. \A z \in Sides : Busy(z)' = Busy(z)
  BY <1>2, <1>3 DEF Busy
<1>5. LinesSame
  BY <1>2, <1>4, LinesStay
<1> DEFINE t == cur[x].of
<1>6. cur[x] \in Frames /\ Well(x, cur[x])
  BY <1>1, <1>2, InHand DEF Inv
<1>7. t \in Tasks /\ cur[x].chan = chan[t] /\ chan[t] # 0
  BY <1>2, <1>6 DEF Well, Requests, Replies
<1>8. ~Req(cur[x], t)
  <2> SUFFICES ASSUME Req(cur[x], t) PROVE FALSE
    OBVIOUS
  <2>1. Peer(Home[t]) = x
    BY <1>6, PeerFacts DEF Well, Req
  <2>2. Counting(t)
    BY <1>7 DEF Inv, TaskInv
  <2>3. PICK q, o, c, step, runs : /\ q \in Seq(Frames) /\ q = Line(x) /\ q # <<>> /\ Head(q) = cur[x]
                                   /\ o = open_channels[x] /\ c = chan[t] /\ c \notin o
                                   /\ step = pc[t] /\ runs = executed[t]
    BY <1>1, <1>2, <1>7, LineTypes
  <2>4. Asking(q, t, c, o, step, runs)
    BY <1>2, <2>1, <2>2, <2>3 DEF Counting
  <2>5. Req(Head(q), t) /\ ~Opens(Head(q), c)
    BY <2>3 DEF Req, Opens, Requests
  <2>6. c \in o
    BY <2>3, <2>4, <2>5, AskingTake
  <2> QED BY <2>3, <2>6
<1>9. cur[x].kind = "item" /\ t \in Streamers
  BY <1>2, <1>6, <1>8 DEF Req, Requests, Well
<1>10. pc[t] = "gave_up"
  <2>1. Back(cur[x], t)
    BY <1>9 DEF Back, Replies
  <2>2. t \notin tunnels[x]
    BY <1>2, <1>7 DEF Tunnelled, On
  <2> QED BY <1>2, <1>9, <2>1, <2>2, Abandoned
<1> QED BY <1>1, <1>2, <1>3, <1>5, <1>9, <1>10, NothingNoticed DEF LinesSame

LEMMA SendCancelKept ==
    ASSUME IdsLast, Inv, NEW x \in Sides, SendCancel(x)
    PROVE  Inv'
<1>1. SessionTypes /\ SessionTypes' /\ Peer(x) \in Sides /\ Peer(x) # x
  BY RunTypes, PeerFacts DEF Inv, RunStep
<1>2. PICK f \in Frames : f = Control("cancel", cur[x].chan)
  <2>1. cur[x] \in Frames
    BY <1>1 DEF SessionTypes, SendCancel, Busy
  <2> QED BY <2>1, FramesMade DEF Kinds, Frames
<1>3. /\ UNCHANGED <<gone, via, next_id, pending, tunnels, open_channels, handlers, task_vars, executed>>
      /\ x \notin gone /\ run_pc[x] = "cancel" /\ Busy(x) /\ Handled(x)
      /\ Put(x, f) \/ wire' = wire
  BY <1>2 DEF SendCancel, Busy, CanSend, SendFails
<1>4. /\ run_pc'[x] = "recv"
      /\ \A z \in Sides \ {x} : run_pc'[z] = run_pc[z] /\ cur'[z] = cur[z] /\ Busy(z)' = Busy(z)
  BY <1>1, <1>3 DEF Handled, GotoRun, SessionTypes, Busy
<1>5. cur[x].kind = "item" /\ pc[cur[x].of] = "gave_up"
  BY <1>3 DEF Inv, Rejecting
<1>6. LineStep(x, {})
  <2>1. wire'[x] = wire[x] /\ ~Busy(x)'
    BY <1>1, <1>3, <1>4 DEF Put, SessionTypes, Busy
  <2>2. PICK w, g : w \in Seq(Frames) /\ g \in Frames /\ w = wire[x] /\ g = cur[x]
    BY <1>1, <1>3 DEF SessionTypes
  <2>3. Line(x) = <<g>> \o w /\ Line(x)' = w
    BY <1>3, <2>1, <2>2 DEF Line
  <2>4. Line(x) # <<>> /\ Tail(Line(x)) = w /\ Head(Line(x)) = g
    BY <2>2, <2>3, Consed
  <2>5. OpensHeld(x) /\ \A t \in Streamers : Back(Head(Line(x)), t) => pc[t] = "gave_up"
    BY <1>5, <2>2, <2>4 DEF OpensHeld, Opens, Back
  <2> QED BY <2>3, <2>4, <2>5 DEF LineStep
<1>7. ASSUME NEW z \in Sides, z # x PROVE LineStep(z, {})
  <2>1. z = Peer(x) /\ Busy(z)' = Busy(z) /\ cur'[z] = cur[z]
    BY <1>4, <1>7, PeerFacts
  <2>2. CASE wire' = wire
    BY <2>1, <2>2 DEF LineStep, Line
  <2>3. CASE Put(x, f)
    <3>1. wire'[z] = Append(wire[z], f)
      BY <1>1, <2>1, <2>3 DEF Put, SessionTypes
    <3>2. Line(z)' = Append(Line(z), f)
      <4>1. PICK w, g : /\ w \in Seq(Frames) /\ w = wire[z] /\ g = cur[z]
                        /\ Busy(z) => g \in Frames
        BY <1>1 DEF SessionTypes
      <4>2. Busy(z) => <<g>> \o Append(w, f) = Append(<<g>> \o w, f)
        BY <4>1, Consed
      <4>3. Line(z) = (IF Busy(z) THEN <<g>> \o w ELSE w)
            /\ Line(z)' = IF Busy(z) THEN <<g>> \o Append(w, f) ELSE Append(w, f)
        BY <2>1, <3>1, <4>1 DEF Line
      <4> QED BY <4>2, <4>3
    <3>3. Well(z, f)' /\ \A t : ~Back(f, t) /\ ~Req(f, t)
      BY <1>2 DEF Control, Well, Requests, Replies, Back, Req
    <3> QED BY <3>2, <3>3 DEF LineStep
  <2> QED BY <1>3, <2>2, <2>3
<1>8. \A z \in Sides \ gone' : LineStep(z, {})
  BY <1>6, <1>7
<1> QED BY <1>1, <1>3, <1>4, <1>8, Unnoticed

LEMMA EndsKept ==
    ASSUME Inv, NEW x \in Sides, Close(x) \/ Exit(x)
    PROVE  Inv'
<1>1. SessionTypes
  BY DEF Inv
<1>2. /\ UNCHANGED <<run_pc, cur, via, next_id, pending, tunnels, open_channels, handlers, task_vars, executed>>
      /\ gone \subseteq gone'
  BY DEF Close, Exit, run_vars
<1>3. \A z \in Sides : Busy(z)' = Busy(z)
  BY <1>2 DEF Busy
<1>4. SessionTypes'
  <2>1. wire' \in [Sides -> Seq(Frames)]
    <3>1. <<>> \in Seq(Frames)
      OBVIOUS
    <3>2. wire' = wire \/ wire' = [wire EXCEPT ![x] = <<>>]
      BY DEF Close, Exit
    <3> QED BY <1>1, <3>1, <3>2 DEF SessionTypes
  <2>2. closed' \subseteq Sides /\ gone' \subseteq Sides /\ ready' \subseteq Sides
    BY <1>1 DEF SessionTypes, Close, Exit
  <2> QED BY <1>1, <1>2, <1>3, <2>1, <2>2 DEF SessionTypes, task_vars
<1>5. \A z \in Sides \ gone' : Line(z)' = Line(z)
  <2>1. \A z \in Sides \ gone' : wire'[z] = wire[z]
    BY <1>1 DEF SessionTypes, Close, Exit
  <2> QED BY <1>2, <1>3, <2>1 DEF Line
<1> QED BY <1>2, <1>4, <1>5, NothingNoticed

-----------------------------------------------------------------------------
(* Steps that one task notices. *)

LEMMA Noticed ==
    ASSUME Inv, SessionTypes', IdsInv', ChanKept, UNCHANGED <<gone, open_channels>>, NEW t \in Tasks,
           \A u \in Tasks \ {t} : /\ pc'[u] = pc[u] /\ chan'[u] = chan[u] /\ inbox'[u] = inbox[u]
                                  /\ executed'[u] = executed[u] /\ got'[u] = got[u],
           \A z \in Sides : \A h : h.of \in Tasks \ {t} => (h \in handlers'[z] <=> h \in handlers[z]),
           \A z \in Sides : \A h \in handlers'[z] : h \in handlers[z] \/ Serves(h, z)',
           \A z \in Sides : \A u \in Tasks \ {t} : /\ u \in pending'[z] <=> u \in pending[z]
                                                   /\ u \in tunnels'[z] <=> u \in tunnels[z],
           \A z \in Sides : t \in pending'[z] \cup tunnels'[z] =>
               t \in pending[z] \cup tunnels[z] \/ (Home[t] = z /\ chan'[t] # 0),
           \A z \in Sides \ gone : LineStep(z, {t}),
           \A z \in Sides : run_pc'[z] \in {"tunnel", "cancel"} =>
               run_pc[z] = run_pc'[z] /\ via'[z] = via[z] /\ cur'[z] = cur[z],
           pc[t] = "gave_up" => pc'[t] = "gave_up",
           inbox'[t] = inbox[t] \/ Boxed(inbox'[t], t),
           TaskInv(t)'
    PROVE  Inv'
<1>1. LinesInv' /\ \A u \in Tasks \ {t} : TaskInv(u)'
  BY LineStepKept
<1>2. PlacesInv'
  <2>1. \A z \in Sides : \A u \in pending'[z] \cup tunnels'[z] :
            u \in pending[z] \cup tunnels[z] \/ (Home[u] = z /\ chan'[u] # 0)
    <3>1. \A z \in Sides : pending'[z] \cup tunnels'[z] \subseteq Tasks
      BY DEF SessionTypes, Tasks
    <3> QED BY <3>1
  <2>2. \A u \in Tasks : inbox'[u] = inbox[u] \/ Boxed(inbox'[u], u)
    OBVIOUS
  <2>3. PlacesInv /\ SessionTypes /\ open_channels' = open_channels
    BY DEF Inv
  <2> QED BY <2>1, <2>2, <2>3, PlacesKept
<1>3. Rejecting'
  BY DEF Inv, Rejecting, Tasks
<1> QED BY <1>1, <1>2, <1>3 DEF Inv

LEMMA FlowFresh ==
    ASSUME NEW q \in Seq(Frames), NEW hs, NEW t, NEW there, NoBack(q, t), there, \A h \in hs : h.n = 0
    PROVE  Flow(q, <<>>, 0, hs, t, there, 0)
<1>1. \A i \in DOMAIN q : ~Back(q[i], t) /\ ~Last(q[i], t) /\ ~IsItem(q[i], t)
  BY DEF NoBack, Last, IsItem, Back, Replies
<1>2. Numbered(q, t, 0, 0)
  BY <1>1 DEF Numbered
<1>3. DOMAIN <<>> = {} /\ Len(<<>>) = 0 /\ 0 + 0 = 0
  OBVIOUS
<1> QED BY <1>1, <1>2, <1>3 DEF Flow

LEMMA FlowThere ==
    ASSUME NEW q, NEW g, NEW hs, NEW t, NEW there, NEW s, Flow(q, <<>>, g, hs, t, there, s)
    PROVE  there
<1>1. DOMAIN <<>> = {}
  OBVIOUS
<1> QED BY <1>1 DEF Flow, AllItems

LEMMA FlowDelivered ==
    ASSUME NEW q \in Seq(Frames), q # <<>>, NEW box \in Seq(Frames), NEW g \in Nat, NEW hs,
           NEW t, NEW there, NEW s \in Nat, Flow(q, box, g, hs, t, there, s), Back(Head(q), t),
           NEW here, Head(q).kind = "item" => here
    PROVE  Flow(Tail(q), Append(box, Head(q)), g, hs, t, here, s)
<1>1. \A b : (Head(q).kind = "item" => b) => Flow(Tail(q), Append(box, Head(q)), g, hs, t, b, s)
  BY FlowTake, Zenon
<1> QED BY <1>1, Zenon

LEMMA AskingDispatched ==
    ASSUME NEW q \in Seq(Frames), q # <<>>, NEW t, NEW c, NEW open, NEW step, NEW runs,
           Asking(q, t, c, open, step, runs), Req(Head(q), t)
    PROVE  runs = 0 /\ step \notin UnsentSteps /\ \A n : Asking(Tail(q), t, c, open, step, n)
<1>1. open \subseteq open /\ ~Opens(Head(q), c)
  BY DEF Opens, Req, Requests
<1>2. Asking(Tail(q), t, c, open, step, runs)
  BY <1>1, AskingTake
<1>3. runs = 0
  BY <1>1, AskingTake
<1>4. step \notin UnsentSteps
  BY <1>1, AskingTake
<1>5. NoReq(Tail(q), t)
  BY <1>1, AskingTake
<1> QED BY <1>2, <1>3, <1>4, <1>5 DEF Asking

LEMMA DeliverKept ==
    ASSUME IdsLast, Inv, NEW x \in Sides, DeliverToTunnel(x)
    PROVE  Inv'
<1>1. SessionTypes /\ SessionTypes'
  BY RunTypes DEF Inv, RunStep
<1>2. /\ UNCHANGED <<gone, wire, next_id, pending, open_channels, handlers, pc, chan, got, executed>>
      /\ x \notin gone /\ run_pc[x] = "tunnel" /\ Busy(x) /\ Handled(x)
      /\ via[x] = {cur[x].of} /\ cur[x].kind \in Replies
  BY DEF DeliverToTunnel, Busy, Inv, PlacesInv
<1>3. /\ LineShrinks(x) /\ Head(Line(x)) = cur[x]
      /\ \A z \in Sides \ {x} : cur'[z] = cur[z] /\ run_pc'[z] = run_pc[z]
      /\ run_pc'[x] = "recv"
  BY <1>1, <1>2, LineHandled DEF Handled, GotoRun, SessionTypes
<1>4. PICK t : t = cur[x].of
  OBVIOUS
<1>5. /\ inbox' = IF Listening(t) THEN [inbox EXCEPT ![t] = Append(@, cur[x])] ELSE inbox
      /\ tunnels' = IF Listening(t) /\ cur[x].kind = "item" THEN tunnels
                    ELSE [tunnels EXCEPT ![x] = @ \ On(@, cur[x].chan)]
      /\ \A z \in Sides \ {x} : via'[z] = via[z]
  BY <1>1, <1>2, <1>4 DEF DeliverToTunnel, SessionTypes
<1>6. t \in Streamers /\ t \in Tasks /\ t \notin Callers
  BY <1>1, <1>2, <1>4, SessionAssumption DEF SessionTypes, Tasks
<1>7. PICK f : f \in Frames /\ f = cur[x] /\ Well(x, f) /\ Back(f, t) /\ f.chan = chan[t] /\ Home[t] = x /\ chan[t] # 0
  BY <1>1, <1>2, <1>4, InHand DEF Inv, Back, Well
<1>8. PICK q : q \in Seq(Frames) /\ q = Line(x) /\ q # <<>> /\ Head(q) = f /\ Line(x)' = Tail(q)
  BY <1>1, <1>2, <1>3, <1>7, LineTypes DEF LineShrinks
<1>9. executed[t] = 1
  <2>1. ~NoBack(Line(x), t)
    BY <1>7, <1>8, BackTaken
  <2> QED BY <1>2, <1>6, <1>7, <2>1 DEF Inv, TaskInv, Counting
<1>10. \A z \in Sides : \A u \in Tasks \ {t} : /\ u \in pending'[z] <=> u \in pending[z]
                                               /\ u \in tunnels'[z] <=> u \in tunnels[z]
  <2>1. \A u \in Tasks \ {t} : chan[u] # cur[x].chan
    BY <1>6, <1>7 DEF Inv, IdsInv
  <2>2. \A z \in Sides : tunnels'[z] = tunnels[z] \/ tunnels'[z] = tunnels[z] \ On(tunnels[z], cur[x].chan)
    BY <1>1, <1>5 DEF SessionTypes
  <2> QED BY <1>2, <2>1, <2>2 DEF On
<1>11. \A z \in Sides : t \in pending'[z] \cup tunnels'[z] => t \in pending[z] \cup tunnels[z]
  BY <1>1, <1>2, <1>5 DEF SessionTypes
<1>12. \A z \in Sides \ gone : LineStep(z, {t})
  <2>1. \A u \in Streamers \ {t} : ~Back(f, u)
    BY <1>7 DEF Back
  <2>2. OpensHeld(x)
    BY <1>7, <1>8 DEF OpensHeld, Opens, Back, Replies
  <2>3. LineStep(x, {t})
    BY <1>8, <2>1, <2>2 DEF LineStep
  <2> QED BY <1>3, <2>3 DEF LineStep, LineShrinks
<1>13. (\A u \in Tasks \ {t} : inbox'[u] = inbox[u]) /\ inbox'[t] = IF Listening(t) THEN Append(inbox[t], f) ELSE inbox[t]
  BY <1>1, <1>5, <1>6, <1>7 DEF SessionTypes
<1>14. inbox'[t] = inbox[t] \/ Boxed(inbox'[t], t)
  BY <1>1, <1>6, <1>7, <1>13, BoxedFacts DEF Inv, PlacesInv, SessionTypes
<1>15. Counting(t)'
  <2>1. Counting(t) /\ Peer(x) \in Sides /\ Peer(x) # x
    BY <1>6, PeerFacts DEF Inv, TaskInv
  <2>2. HandlersOf(t)' = HandlersOf(t) /\ Line(Peer(x))' = Line(Peer(x))
    BY <1>2, <1>3, <2>1 DEF HandlersOf, LineShrinks
  <2> QED BY <1>2, <1>7, <1>9, <2>1, <2>2 DEF Counting
<1>16. Flowing(t)'
  <2>1. Flowing(t) /\ HandlersOf(t)' = HandlersOf(t) /\ pc[t] \in StreamSteps
    BY <1>1, <1>2, <1>6 DEF Inv, TaskInv, HandlersOf, SessionTypes
  <2>2. pc[t] \notin {"answered", "failed"} /\ pc[t] # "idle"
    <3>1. ~NoBack(Line(x), t)
      BY <1>7, <1>8, BackTaken
    <3> QED BY <1>2, <1>6, <1>7, <2>1, <3>1 DEF Flowing, Inv, IdsInv
  <2>3. CASE pc[t] \in Underway
    <3>1. PICK s \in 0 .. Items : Flow(q, inbox[t], Len(got[t]), HandlersOf(t), t, t \in tunnels[x], s)
      BY <1>2, <1>7, <1>8, <2>1, <2>3 DEF Flowing
    <3>2. s \in Nat /\ inbox[t] \in Seq(Frames) /\ Len(got[t]) \in Nat
      BY <1>1, <1>6, LenProperties, SessionAssumption DEF SessionTypes
    <3>3. PICK there, here, g, box, hs :
              /\ g \in Nat /\ box \in Seq(Frames) /\ Flow(q, box, g, hs, t, there, s)
              /\ g = Len(got[t]) /\ box = inbox[t] /\ hs = HandlersOf(t)
              /\ there = (t \in tunnels[x]) /\ here = (t \in tunnels'[x])
      BY <3>1, <3>2
    <3>4. Listening(t)
      BY <2>3 DEF Listening, Underway
    <3>5. there /\ (f.kind = "item" => here)
      <4>1. there
        BY <1>7, <1>8, <3>2, <3>3, FlowTake
      <4>2. f.kind = "item" => tunnels' = tunnels
        BY <1>5, <1>7, <3>4
      <4> QED BY <3>3, <4>1, <4>2
    <3>6. Flow(Tail(q), Append(box, f), g, hs, t, here, s)
      BY <1>7, <1>8, <3>2, <3>3, <3>5, FlowDelivered
    <3>7. Flow(Line(x)', inbox'[t], Len(got'[t]), HandlersOf(t)', t, t \in tunnels'[x], s)
      BY <1>2, <1>8, <1>13, <2>1, <3>3, <3>4, <3>6
    <3> QED BY <1>2, <1>7, <2>1, <2>2, <3>7 DEF Flowing
  <2>4. CASE pc[t] = "gave_up"
    BY <1>2, <2>1, <2>4 DEF Flowing, Underway
  <2> QED BY <2>1, <2>2, <2>3, <2>4 DEF StreamSteps, Underway
<1>17. TaskInv(t)' /\ IdsInv' /\ ChanKept
  BY <1>2, <1>6, <1>15, <1>16, IdsStay DEF TaskInv, Inv, ChanKept
<1>18. \A z \in Sides : run_pc'[z] \in {"tunnel", "cancel"} =>
           run_pc[z] = run_pc'[z] /\ via'[z] = via[z] /\ cur'[z] = cur[z]
  BY <1>3, <1>5
<1> QED BY <1>1, <1>2, <1>6, <1>10, <1>11, <1>12, <1>13, <1>14, <1>17, <1>18, Noticed

LEMMA RouteResponseKept ==
    ASSUME IdsLast, Inv, NEW x \in Sides, RouteResponse(x)
    PROVE  Inv'
<1>1. SessionTypes /\ SessionTypes'
  BY RunTypes DEF Inv, RunStep
<1>2. /\ UNCHANGED <<gone, wire, via, next_id, tunnels, open_channels, handlers, pc, chan, got, executed>>
      /\ x \notin gone /\ Busy(x) /\ Handled(x) /\ cur[x].kind = "response"
      /\ pending' = [pending EXCEPT ![x] = @ \ On(pending[x], cur[x].chan)]
      /\ inbox' = [u \in Tasks |-> IF u \in On(pending[x], cur[x].chan) /\ Listening(u)
                                   THEN <<cur[x]>> ELSE inbox[u]]
  BY DEF RouteResponse, Routing, Busy
<1>3. /\ LineShrinks(x) /\ Head(Line(x)) = cur[x]
      /\ \A z \in Sides \ {x} : cur'[z] = cur[z] /\ run_pc'[z] = run_pc[z]
      /\ run_pc'[x] = "recv"
  BY <1>1, <1>2, LineHandled DEF Handled, GotoRun, SessionTypes
<1>4. PICK t, f : /\ t = cur[x].of /\ f = cur[x] /\ f \in Frames /\ Well(x, f) /\ f.chan = chan[t]
                  /\ f.kind = "response" /\ f.of = t /\ t \in Callers /\ Home[t] = x /\ chan[t] # 0
  BY <1>1, <1>2, InHand DEF Inv, Well, Requests, Replies
<1>5. t \in Tasks /\ t \notin Streamers /\ Back(f, t) /\ \A u \in Tasks : chan[u] = f.chan <=> u = t
  BY <1>4, SessionAssumption DEF Tasks, Back, Replies, Inv, IdsInv
<1>6. On(pending[x], cur[x].chan) = pending[x] \cap {t}
  <2>1. pending[x] \subseteq Tasks
    BY <1>1 DEF SessionTypes, Tasks
  <2> QED BY <1>4, <1>5, <2>1 DEF On
<1>7. PICK q : q \in Seq(Frames) /\ q = Line(x) /\ q # <<>> /\ Head(q) = f /\ Line(x)' = Tail(q)
  BY <1>1, <1>2, <1>3, <1>4, LineTypes DEF LineShrinks
<1>8. executed[t] = 1
  <2>1. ~NoBack(Line(x), t)
    BY <1>5, <1>7, BackTaken
  <2> QED BY <1>2, <1>4, <1>5, <2>1 DEF Inv, TaskInv, Counting
<1>9. /\ \A z \in Sides : pending'[z] \subseteq pending[z]
      /\ \A z \in Sides : \A u \in Tasks \ {t} : u \in pending'[z] <=> u \in pending[z]
      /\ t \notin pending'[x]
      /\ \A u \in Tasks \ {t} : inbox'[u] = inbox[u]
      /\ inbox'[t] = IF t \in pending[x] /\ Listening(t) THEN <<f>> ELSE inbox[t]
  BY <1>1, <1>2, <1>4, <1>5, <1>6 DEF SessionTypes
<1>10. \A z \in Sides \ gone : LineStep(z, {t})
  <2>1. \A u \in Streamers \ {t} : ~Back(f, u)
    BY <1>4, <1>5 DEF Back
  <2>2. OpensHeld(x)
    BY <1>4, <1>7 DEF OpensHeld, Opens
  <2>3. LineStep(x, {t})
    BY <1>7, <2>1, <2>2 DEF LineStep
  <2> QED BY <1>3, <2>3 DEF LineStep, LineShrinks
<1>11. inbox'[t] = inbox[t] \/ Boxed(inbox'[t], t)
  BY <1>5, <1>9 DEF Boxed
<1>12. Counting(t)'
  <2>1. Counting(t) /\ Peer(x) \in Sides /\ Peer(x) # x
    BY <1>5, PeerFacts DEF Inv, TaskInv
  <2>2. HandlersOf(t)' = HandlersOf(t) /\ Line(Peer(x))' = Line(Peer(x))
    BY <1>2, <1>3, <2>1 DEF HandlersOf, LineShrinks
  <2> QED BY <1>2, <1>4, <1>8, <2>1, <2>2 DEF Counting
<1>13. Waiting(t)'
  <2>1. Waiting(t)
    BY <1>4, <1>5 DEF Inv, TaskInv
  <2>2. <<f>> # <<>>
    OBVIOUS
  <2>3. pc[t] \in {"send_open", "send_request", "await"} => inbox'[t] # <<>>
    BY <1>4, <1>9, <2>1, <2>2 DEF Waiting, Listening
  <2> QED BY <1>2, <1>4, <1>9, <2>3 DEF Waiting
<1>14. TaskInv(t)' /\ IdsInv' /\ ChanKept
  BY <1>2, <1>5, <1>12, <1>13, IdsStay DEF TaskInv, Inv, ChanKept
<1>15. \A z \in Sides : run_pc'[z] \in {"tunnel", "cancel"} =>
           run_pc[z] = run_pc'[z] /\ via'[z] = via[z] /\ cur'[z] = cur[z]
  BY <1>2, <1>3
<1> QED BY <1>1, <1>2, <1>5, <1>9, <1>10, <1>11, <1>14, <1>15, Noticed

LEMMA DispatchKept ==
    ASSUME IdsLast, Inv, NEW x \in Sides, Dispatch(x)
    PROVE  /\ Inv' /\ cur[x].of \in Tasks /\ pc[cur[x].of] \notin UnsentSteps
           /\ executed[cur[x].of] = 0 /\ executed' = [executed EXCEPT ![cur[x].of] = 1]
<1>1. SessionTypes /\ SessionTypes'
  BY RunTypes DEF Inv, RunStep
<1>2. /\ UNCHANGED <<gone, wire, via, next_id, pending, tunnels, open_channels, pc, chan, inbox, got>>
      /\ x \notin gone /\ Busy(x) /\ Handled(x)
      /\ cur[x].kind \in {"request", "stream_request", "item"} /\ cur[x].chan \in open_channels[x]
  BY DEF Dispatch, DataForHandler, Routing, Busy, task_vars
<1>3. /\ LineShrinks(x) /\ Head(Line(x)) = cur[x]
      /\ \A z \in Sides \ {x} : cur'[z] = cur[z] /\ run_pc'[z] = run_pc[z]
      /\ run_pc'[x] = "recv"
  BY <1>1, <1>2, LineHandled DEF Handled, GotoRun, SessionTypes
<1>4. PICK u \in Tasks : Home[u] = Peer(x) /\ chan[u] = cur[x].chan /\ cur[x].chan # 0
  BY <1>2 DEF Inv, PlacesInv, Opened
<1>5. PICK t, f : /\ t = cur[x].of /\ f = cur[x] /\ f \in Frames /\ Well(x, f) /\ f.chan = chan[t]
                  /\ f.of = t /\ t \in Tasks /\ Home[t] = Peer(x) /\ chan[t] # 0 /\ Req(f, t)
  <2>1. cur[x].of = u /\ Home[u] # x /\ cur[x] \in Frames /\ Well(x, cur[x])
    BY <1>1, <1>2, <1>4, TaskInHand, PeerFacts, InHand DEF Inv
  <2>2. Req(cur[x], u)
    BY <1>2, <1>4, <2>1, TaskInHand
  <2> QED BY <1>4, <2>1, <2>2
<1>6. Peer(Home[t]) = x /\ Home[t] \in Sides /\ Home[t] # x
  BY <1>5, PeerFacts
<1>7. PICK q : q \in Seq(Frames) /\ q = Line(x) /\ q # <<>> /\ Head(q) = f /\ Line(x)' = Tail(q)
  BY <1>1, <1>2, <1>3, <1>5, LineTypes DEF LineShrinks
<1>8. TaskInv(t) /\ Counting(t)
  BY <1>5 DEF Inv, TaskInv
<1>9. /\ executed[t] = 0 /\ pc[t] \notin UnsentSteps
      /\ Asking(Tail(q), t, chan[t], open_channels[x], pc[t], 1)
  <2>1. PICK o, c, step, runs : o = open_channels[x] /\ c = chan[t] /\ step = pc[t] /\ runs = executed[t]
    OBVIOUS
  <2>2. Asking(q, t, c, o, step, runs)
    BY <1>2, <1>6, <1>7, <1>8, <2>1 DEF Counting
  <2>3. Req(Head(q), t)
    BY <1>5, <1>7
  <2>4. runs = 0 /\ step \notin UnsentSteps /\ \A n : Asking(Tail(q), t, c, o, step, n)
    BY <1>7, <2>2, <2>3, AskingDispatched
  <2> QED BY <2>1, <2>4
<1>10. executed' = [executed EXCEPT ![t] = 1] /\ executed'[t] = 1 /\ \A v \in Tasks \ {t} : executed'[v] = executed[v]
  <2>1. executed' = [executed EXCEPT ![t] = @ + 1]
    BY <1>5 DEF Dispatch
  <2> QED BY <1>1, <1>5, <1>9, <2>1 DEF SessionTypes
<1>11. PICK h : /\ h = [chan |-> f.chan, of |-> t, n |-> 0, no_reply |-> f.kind = "stream_request"]
                /\ handlers' = [handlers EXCEPT ![x] = @ \cup {h}]
  BY <1>5 DEF Dispatch
<1>12. h.of = t /\ h.n = 0 /\ h.chan = chan[t] /\ (h.no_reply <=> f.kind = "stream_request")
  BY <1>5, <1>11
<1>13. \A z \in Sides : \A k : k \in handlers'[z] <=> k \in handlers[z] \/ (z = x /\ k = h)
  BY <1>1, <1>11 DEF SessionTypes
<1>14. HandlersOf(t) = {} /\ HandlersOf(t)' = {h}
  BY <1>6, <1>8, <1>9, <1>12, <1>13 DEF Counting, HandlersOf
<1>15. Serves(h, x)'
  <2>1. h.no_reply <=> t \in Streamers
    BY <1>5, <1>12, SessionAssumption DEF Well, Req, Requests
  <2> QED BY <1>2, <1>5, <1>12, <2>1 DEF Serves
<1>16. \A z \in Sides \ gone : LineStep(z, {t})
  <2>1. \A v : ~Back(f, v)
    BY <1>5 DEF Back, Req, Requests, Replies
  <2>2. OpensHeld(x)
    BY <1>5, <1>7 DEF OpensHeld, Opens, Req, Requests
  <2>3. LineStep(x, {t})
    BY <1>7, <2>1, <2>2 DEF LineStep
  <2> QED BY <1>3, <2>3 DEF LineStep, LineShrinks
<1>17. Counting(t)'
  <2>1. Asking(Line(x), t, chan[t], open_channels[x], pc[t], executed[t])'
    BY <1>2, <1>7, <1>9, <1>10
  <2>2. \A k, l \in HandlersOf(t)' : k = l
    BY <1>14
  <2> QED BY <1>2, <1>6, <1>9, <1>10, <2>1, <2>2 DEF Counting
<1>18. t \in Callers => Waiting(t)'
  BY <1>2, <1>8 DEF TaskInv, Waiting
<1>19. t \in Streamers => Flowing(t)'
  <2> SUFFICES ASSUME t \in Streamers PROVE Flowing(t)'
    OBVIOUS
  <2>1. Flowing(t) /\ inbox[t] = <<>> /\ got[t] = <<>>
    BY <1>8, <1>9 DEF TaskInv, Counting
  <2>2. ASSUME pc[t] \in Underway, Home[t] \notin gone
        PROVE  Flow(Line(Home[t])', inbox'[t], Len(got'[t]), HandlersOf(t)', t, t \in tunnels'[Home[t]], 0)
    <3>1. PICK p : p \in Seq(Frames) /\ p = Line(Home[t]) /\ p = Line(Home[t])' /\ NoBack(p, t)
      BY <1>1, <1>3, <1>6, <1>8, <1>9, <2>2, LineTypes DEF LineShrinks, Counting
    <3>2. PICK s \in 0 .. Items : Flow(p, <<>>, Len(got[t]), HandlersOf(t), t, t \in tunnels[Home[t]], s)
      BY <2>1, <2>2, <3>1 DEF Flowing
    <3>3. PICK there, g, hs : there = (t \in tunnels[Home[t]]) /\ Flow(p, <<>>, g, hs, t, there, s)
      BY <3>2
    <3>4. there
      BY <3>3, FlowThere
    <3>5. Flow(p, <<>>, 0, {h}, t, there, 0)
      BY <1>12, <3>1, <3>4, FlowFresh
    <3> QED BY <1>2, <1>14, <2>1, <3>1, <3>3, <3>5
  <2>3. 0 \in 0 .. Items
    BY SessionAssumption
  <2> QED BY <1>2, <1>9, <2>1, <2>2, <2>3 DEF Flowing
<1>20. TaskInv(t)' /\ IdsInv' /\ ChanKept
  BY <1>2, <1>17, <1>18, <1>19, IdsStay DEF TaskInv, Inv, ChanKept
<1>21. \A z \in Sides : run_pc'[z] \in {"tunnel", "cancel"} =>
           run_pc[z] = run_pc'[z] /\ via'[z] = via[z] /\ cur'[z] = cur[z]
  BY <1>2, <1>3
<1>22. Inv'
  BY <1>1, <1>2, <1>5, <1>10, <1>12, <1>13, <1>15, <1>16, <1>20, <1>21, Noticed
<1> QED BY <1>5, <1>9, <1>10, <1>22

LEMMA FlowLess ==
    ASSUME NEW q, NEW box, NEW g, NEW hs, NEW t, NEW there, NEW s, Flow(q, box, g, hs, t, there, s)
    PROVE  Flow(q, box, g, {}, t, there, s)
BY DEF Flow

\* A handler's last frame, its next item, or its end without a frame.
LEMMA HandlerSteps ==
    ASSUME IdsLast, Inv, NEW x \in Sides, NEW h \in handlers[x], HandlerStep(x, h)
    PROVE  \E f \in Frames, rest \in SUBSET HandlerType :
              /\ Well(Peer(x), f) /\ Back(f, h.of)
              /\ \/ Put(x, f) /\ handlers' = [handlers EXCEPT ![x] = (@ \ {h}) \cup rest]
                 \/ wire' = wire /\ handlers' = [handlers EXCEPT ![x] = @ \ {h}]
              /\ \/ Last(f, h.of) /\ rest = {} /\ (f.kind = "end" => h.n = Items)
                 \/ /\ IsItem(f, h.of) /\ f.n = h.n + 1 /\ h.n < Items
                    /\ rest = {[h EXCEPT !.n = @ + 1]}
<1> DEFINE t == h.of
<1>1. h \in HandlerType /\ Serves(h, x) /\ t \in Tasks /\ Items \in Nat
  BY SessionAssumption DEF Inv, SessionTypes, PlacesInv, HandlerType
<1>2. Home[t] = Peer(x) /\ h.chan = chan[t] /\ h.chan # 0 /\ h.chan \in Ids /\ h.n \in 0 .. Items
      /\ (h.no_reply <=> t \in Streamers)
  BY <1>1 DEF Serves, HandlerType
<1>3. ASSUME NEW kind \in {"response", "error", "end"}, NEW f, f = Frame(kind, h.chan, t),
             kind = "response" => ~h.no_reply, kind = "end" => h.no_reply
      PROVE  f \in Frames /\ Last(f, t) /\ Back(f, t) /\ Well(Peer(x), f) /\ f.kind = kind
  <2>1. f \in Frames
    BY <1>1, <1>2, <1>3, FramesMade DEF Kinds
  <2>2. f.kind = kind /\ f.chan = h.chan /\ f.of = t
    BY <1>3 DEF Frame
  <2> QED BY <1>1, <1>2, <1>3, <2>1, <2>2 DEF Last, Back, Well, Replies, Requests, Tasks
<1>4. CASE Reply(x, h)
  <2>1. PICK f : f = Frame("response", h.chan, t)
    OBVIOUS
  <2>2. ~h.no_reply /\ HandlerSends(x, h, f, {})
    BY <1>4, <2>1 DEF Reply
  <2>3. f \in Frames /\ Last(f, t) /\ Back(f, t) /\ Well(Peer(x), f) /\ f.kind = "response"
    BY <1>3, <2>1, <2>2
  <2> QED BY <2>2, <2>3 DEF HandlerSends
<1>5. CASE ReplyError(x, h)
  <2>1. PICK f : f = Frame("error", h.chan, t)
    OBVIOUS
  <2>2. HandlerSends(x, h, f, {})
    BY <1>5, <2>1 DEF ReplyError
  <2>3. f \in Frames /\ Last(f, t) /\ Back(f, t) /\ Well(Peer(x), f) /\ f.kind = "error"
    BY <1>3, <2>1
  <2> QED BY <2>2, <2>3 DEF HandlerSends
<1>6. CASE StreamEnd(x, h)
  <2>1. PICK f : f = Frame("end", h.chan, t)
    OBVIOUS
  <2>2. h.no_reply /\ h.n = Items /\ HandlerSends(x, h, f, {})
    BY <1>6, <2>1 DEF StreamEnd
  <2>3. f \in Frames /\ Last(f, t) /\ Back(f, t) /\ Well(Peer(x), f) /\ f.kind = "end"
    BY <1>3, <2>1, <2>2
  <2> QED BY <2>2, <2>3 DEF HandlerSends
<1>7. CASE StreamPanics(x, h)
  <2>1. PICK f : f = Frame("error", h.chan, t)
    OBVIOUS
  <2>2. f \in Frames /\ Last(f, t) /\ Back(f, t) /\ Well(Peer(x), f) /\ f.kind = "error"
    BY <1>3, <2>1
  <2> QED BY <1>7, <2>2 DEF StreamPanics
<1>8. CASE StreamItem(x, h)
  <2>1. PICK f, k : f = ItemFrame(h.chan, t, h.n + 1) /\ k = [h EXCEPT !.n = @ + 1]
    OBVIOUS
  <2>2. h.no_reply /\ h.n < Items /\ HandlerSends(x, h, f, {k})
    BY <1>8, <2>1 DEF StreamItem
  <2>3. h.n + 1 \in 0 .. Items
    BY <1>1, <1>2, <2>2
  <2>4. f \in Frames
    BY <1>1, <1>2, <2>1, <2>3, FramesMade
  <2>5. f.kind = "item" /\ f.chan = h.chan /\ f.of = t /\ f.n = h.n + 1
    BY <2>1 DEF ItemFrame
  <2>6. IsItem(f, t) /\ Back(f, t) /\ Well(Peer(x), f)
    BY <1>1, <1>2, <2>2, <2>5 DEF IsItem, Back, Well, Replies, Requests
  <2>7. k \in HandlerType
    BY <1>1, <2>1, <2>3 DEF HandlerType
  <2>8. {k} \in SUBSET HandlerType
    BY <2>7
  <2> QED BY <2>1, <2>2, <2>4, <2>5, <2>6, <2>8 DEF HandlerSends
<1> QED BY <1>4, <1>5, <1>6, <1>7, <1>8 DEF HandlerStep

LEMMA HandlerKept ==
    ASSUME IdsLast, Inv, NEW x \in Sides, NEW h \in handlers[x], HandlerStep(x, h)
    PROVE  Inv' /\ UNCHANGED <<pc, executed, got>>
<1>1. SessionTypes /\ Peer(x) \in Sides /\ Peer(x) # x /\ Peer(Peer(x)) = x
  BY PeerFacts DEF Inv
<1>2. UNCHANGED <<closed, gone, run_vars, ready, next_id, pending, tunnels, open_channels, task_vars, executed>>
  BY DEF HandlerStep, Reply, ReplyError, StreamItem, StreamEnd, StreamPanics, HandlerSends
<1>3. PICK t : t = h.of
  OBVIOUS
<1>4. PICK f \in Frames, rest \in SUBSET HandlerType :
              /\ Well(Peer(x), f) /\ Back(f, t)
              /\ \/ Put(x, f) /\ handlers' = [handlers EXCEPT ![x] = (@ \ {h}) \cup rest]
                 \/ wire' = wire /\ handlers' = [handlers EXCEPT ![x] = @ \ {h}]
              /\ \/ Last(f, t) /\ rest = {} /\ (f.kind = "end" => h.n = Items)
                 \/ /\ IsItem(f, t) /\ f.n = h.n + 1 /\ h.n < Items
                    /\ rest = {[h EXCEPT !.n = @ + 1]}
  BY <1>3, HandlerSteps
<1>5. h \in HandlerType /\ Serves(h, x) /\ t \in Tasks /\ Home[t] = Peer(x) /\ chan[t] # 0 /\ h.n \in 0 .. Items
  BY <1>1, <1>3 DEF Inv, PlacesInv, SessionTypes, HandlerType, Serves
<1>6. \A k \in rest : k.of = t /\ k.n = h.n + 1 /\ Serves(k, x)
  BY <1>3, <1>4, <1>5 DEF HandlerType, Serves
<1>7. SessionTypes'
  <2>1. wire' \in [Sides -> Seq(Frames)]
    <3>1. Append(wire[Peer(x)], f) \in Seq(Frames)
      BY <1>1, Appended DEF SessionTypes
    <3> QED BY <1>1, <1>4, <3>1 DEF SessionTypes, Put
  <2>2. handlers' \in [Sides -> SUBSET HandlerType]
    BY <1>1, <1>4 DEF SessionTypes
  <2> QED BY <1>1, <1>2, <2>1, <2>2 DEF SessionTypes, Busy, run_vars, task_vars
<1>8. \A z \in Sides : Busy(z)' = Busy(z)
  BY <1>2 DEF Busy, run_vars
<1>9. \/ LineGrows(Peer(x), f) /\ handlers' = [handlers EXCEPT ![x] = (@ \ {h}) \cup rest]
      \/ LinesSame /\ handlers' = [handlers EXCEPT ![x] = @ \ {h}]
  BY <1>1, <1>2, <1>4, <1>8, LinePut, LinesStay DEF run_vars
<1>10. \A z \in Sides \ gone : LineStep(z, {t})
  <2>1. \A u \in Tasks \ {t} : ~Back(f, u) /\ ~Req(f, u)
    BY <1>4 DEF Back, Req, Requests, Replies
  <2>2. Well(Peer(x), f)'
    BY <1>2, <1>4 DEF Well, Opened, task_vars
  <2> QED BY <1>9, <2>1, <2>2 DEF LineStep, LineGrows, LinesSame
<1>11. /\ \A z \in Sides : \A k : k.of \in Tasks \ {t} => (k \in handlers'[z] <=> k \in handlers[z])
       /\ \A z \in Sides : \A k \in handlers'[z] : k \in handlers[z] \/ Serves(k, z)'
  <2>1. \A k : Serves(k, x) => Serves(k, x)'
    BY <1>2 DEF Serves, task_vars
  <2>2. /\ \A z \in Sides \ {x} : handlers'[z] = handlers[z]
        /\ handlers[x] \ {h} \subseteq handlers'[x] /\ handlers'[x] \subseteq handlers[x] \cup rest
    BY <1>1, <1>9 DEF SessionTypes
  <2>3. \A k \in rest : k.of = t /\ Serves(k, x)
    BY <1>6
  <2>4. \A z \in Sides : \A k : k.of \in Tasks \ {t} => (k \in handlers'[z] <=> k \in handlers[z])
    BY <1>3, <2>2, <2>3
  <2>5. \A z \in Sides : \A k \in handlers'[z] : k \in handlers[z] \/ (z = x /\ Serves(k, x)')
    BY <2>1, <2>2, <2>3
  <2> QED BY <2>4, <2>5
<1>12. TaskInv(t)
  BY <1>5 DEF Inv
<1>13. HandlersOf(t) = {h} /\ executed[t] = 1
  <2>1. h \in HandlersOf(t) /\ Counting(t)
    BY <1>1, <1>3, <1>5, <1>12 DEF HandlersOf, TaskInv
  <2> QED BY <2>1 DEF Counting
<1>14. \/ LineGrows(Peer(x), f) /\ HandlersOf(t)' = rest
       \/ LinesSame /\ HandlersOf(t)' = {}
  <2>1. \A k \in handlers[x] : k.of = t => k = h
    BY <1>1, <1>5, <1>13 DEF HandlersOf
  <2>2. CASE LineGrows(Peer(x), f) /\ handlers' = [handlers EXCEPT ![x] = (@ \ {h}) \cup rest]
    <3>1. handlers'[x] = (handlers[x] \ {h}) \cup rest
      BY <1>1, <2>2 DEF SessionTypes
    <3> QED BY <1>1, <1>5, <1>6, <2>1, <2>2, <3>1 DEF HandlersOf
  <2>3. CASE LinesSame /\ handlers' = [handlers EXCEPT ![x] = @ \ {h}]
    <3>1. handlers'[x] = handlers[x] \ {h}
      BY <1>1, <2>3 DEF SessionTypes
    <3> QED BY <1>1, <1>5, <2>1, <2>3, <3>1 DEF HandlersOf
  <2> QED BY <1>9, <2>2, <2>3
<1>15. Counting(t)'
  <2>1. Counting(t)
    BY <1>12 DEF TaskInv
  <2>2. Line(x)' = Line(x)
    BY <1>1, <1>9 DEF LineGrows, LinesSame
  <2>3. \A k, l \in HandlersOf(t)' : k = l
    BY <1>4, <1>14
  <2> QED BY <1>1, <1>2, <1>5, <1>13, <2>1, <2>2, <2>3 DEF Counting, task_vars
<1>16. t \in Callers => Waiting(t)'
  BY <1>2, <1>12 DEF TaskInv, Waiting, task_vars
<1>17. t \in Streamers => Flowing(t)'
  <2> SUFFICES ASSUME t \in Streamers PROVE Flowing(t)'
    OBVIOUS
  <2>1. Flowing(t)
    BY <1>12 DEF TaskInv
  <2>2. ASSUME pc[t] \in Underway, Home[t] \notin gone
        PROVE  \E s \in 0 .. Items : Flow(Line(Home[t])', inbox[t], Len(got[t]), HandlersOf(t)', t,
                                          t \in tunnels[Home[t]], s)
    <3>1. PICK s \in 0 .. Items : Flow(Line(Home[t]), inbox[t], Len(got[t]), {h}, t, t \in tunnels[Home[t]], s)
      BY <1>13, <2>1, <2>2 DEF Flowing
    <3>2. h.n = s
      BY <3>1 DEF Flow
    <3>3. PICK there, g, box, q, p :
              /\ there = (t \in tunnels[Home[t]]) /\ g = Len(got[t]) /\ box = inbox[t]
              /\ q = Line(Home[t]) /\ p = Line(Home[t])'
              /\ q \in Seq(Frames) /\ g \in Nat /\ box \in Seq(Frames)
      BY <1>1, <1>5, LineTypes, LenProperties DEF SessionTypes
    <3>4. s \in Nat /\ Flow(q, box, g, {h}, t, there, s) /\ {h} # {}
      BY <3>1, <3>3, SessionAssumption
    <3>5. CASE LinesSame /\ HandlersOf(t)' = {}
      <4>1. p = q
        BY <1>1, <1>5, <3>3, <3>5 DEF LinesSame
      <4>2. Flow(p, box, g, {}, t, there, s)
        BY <3>4, <4>1, FlowLess
      <4> QED BY <3>3, <3>5, <4>2
    <3>6. CASE LineGrows(Peer(x), f) /\ HandlersOf(t)' = rest
      <4>1. p = Append(q, f)
        BY <1>1, <1>5, <3>3, <3>6 DEF LineGrows
      <4>2. CASE Last(f, t) /\ rest = {} /\ (f.kind = "end" => h.n = Items)
        <5>1. Flow(p, box, g, {}, t, there, s)
          <6>1. f.kind = "end" => s = Items
            BY <3>2, <4>2
          <6>2. Flow(Append(q, f), box, g, {}, t, there, s)
            BY <3>3, <3>4, <4>2, <6>1, FlowAppend
          <6> QED BY <4>1, <6>2
        <5> QED BY <3>3, <3>6, <4>2, <5>1
      <4>3. CASE IsItem(f, t) /\ f.n = h.n + 1 /\ h.n < Items
        <5>1. \A ks : (\A k \in ks : k.n = s + 1) => Flow(Append(q, f), box, g, ks, t, there, s + 1)
          BY <3>2, <3>3, <3>4, <4>3, FlowAppend
        <5>2. \A k \in rest : k.n = s + 1
          BY <1>6, <3>2
        <5>3. Flow(p, box, g, rest, t, there, s + 1)
          BY <4>1, <5>1, <5>2
        <5>4. s + 1 \in 0 .. Items
          BY <3>2, <3>4, <4>3, SessionAssumption
        <5> QED BY <3>3, <3>6, <5>3, <5>4
      <4> QED BY <1>4, <4>2, <4>3
    <3> QED BY <1>14, <3>5, <3>6
  <2>3. pc[t] \in {"answered", "failed"} => Home[t] \in gone
    BY <1>13, <2>1 DEF Flowing
  <2> QED BY <1>2, <1>13, <2>1, <2>2, <2>3 DEF Flowing, task_vars
<1>18. TaskInv(t)' /\ IdsInv' /\ ChanKept
  BY <1>2, <1>15, <1>16, <1>17, IdsStay DEF TaskInv, Inv, ChanKept, task_vars
<1>19. Inv'
  BY <1>2, <1>5, <1>7, <1>10, <1>11, <1>18, Noticed DEF task_vars, run_vars
<1> QED BY <1>2, <1>19 DEF task_vars

-----------------------------------------------------------------------------
(* Steps of a task. *)

LEMMA AskingStep ==
    ASSUME NEW q, NEW t, NEW c, NEW open, NEW step, NEW runs, Asking(q, t, c, open, step, runs),
           NEW next, next # "send_request", step \notin UnsentSteps => next \notin UnsentSteps
    PROVE  Asking(q, t, c, open, next, runs)
BY DEF Asking

LEMMA AskingBegun ==
    ASSUME NEW q, NEW t, NEW c, NEW open, NEW runs, Asking(q, t, c, open, "idle", runs),
           NEW d, NEW next, next # "send_request"
    PROVE  Asking(q, t, d, open, next, runs)
BY DEF Asking, NoReq, OpenFirst, UnsentSteps

\* A task on its way takes a step: the lines stay, or its frame is sent.
LEMMA TaskMoved ==
    ASSUME Inv, SessionTypes', NEW t \in Tasks, pc[t] \notin {"idle", "gave_up"}, pc'[t] # "idle",
           UNCHANGED <<gone, run_vars, next_id, tunnels, open_channels, handlers, chan, executed>>,
           \A u \in Tasks \ {t} : pc'[u] = pc[u] /\ inbox'[u] = inbox[u] /\ got'[u] = got[u],
           \A z \in Sides : \A u \in Tasks \ {t} : u \in pending'[z] <=> u \in pending[z],
           \A z \in Sides : t \in pending'[z] => t \in pending[z] \/ Home[t] = z,
           \A z \in Sides \ gone : LineStep(z, {t}),
           inbox'[t] = inbox[t] \/ Boxed(inbox'[t], t),
           TaskInv(t)'
    PROVE  Inv'
<1>1. IdsInv' /\ ChanKept /\ chan'[t] # 0
  BY IdsStay DEF Inv, ChanKept, IdsInv
<1> QED BY <1>1, Noticed DEF run_vars

LEMMA BeginKept ==
    ASSUME IdsLast, Inv, NEW t \in Tasks, CallBegin(t) \/ StreamBegin(t)
    PROVE  Inv' /\ UNCHANGED <<executed, got>>
<1> DEFINE x == Home[t]
           y == Peer(x)
<1>1. SessionTypes /\ x \in Sides /\ y \in Sides /\ y # x /\ Peer(y) = x /\ TaskInv(t)
  BY HomeFacts, PeerFacts DEF Inv
<1>2. /\ UNCHANGED <<wire, closed, gone, run_vars, ready, pending, open_channels, handlers, inbox, got, executed>>
      /\ pc[t] = "idle" /\ x \notin gone
      /\ chan' = [chan EXCEPT ![t] = next_id[x]]
      /\ next_id' = [next_id EXCEPT ![x] = NextId(@)]
  BY DEF CallBegin, StreamBegin, At
<1>3. \/ t \in Callers /\ pc' = [pc EXCEPT ![t] = "await_ready"] /\ tunnels' = tunnels
      \/ t \in Streamers /\ pc' = [pc EXCEPT ![t] = "send_open"] /\ tunnels' = [tunnels EXCEPT ![x] = @ \cup {t}]
  BY DEF CallBegin, StreamBegin, Goto
<1>4. IdsInv' /\ chan'[t] # 0 /\ next_id' \in [Sides -> Ids] /\ chan[t] = 0
  <2>1. PICK step : pc' = [pc EXCEPT ![t] = step] /\ step # "idle"
    BY <1>3
  <2> QED BY <1>1, <1>2, <2>1, IdTaken DEF Inv, IdsInv
<1>5. ChanKept
  BY <1>1, <1>2, <1>4 DEF ChanKept, SessionTypes
<1>6. SessionTypes'
  <2>1. chan' \in [Tasks -> Ids]
    BY <1>1, <1>2 DEF SessionTypes
  <2>2. pc' \in [Tasks -> CallSteps \cup StreamSteps] /\ tunnels' \in [Sides -> SUBSET Streamers]
    <3>1. CASE t \in Callers /\ pc' = [pc EXCEPT ![t] = "await_ready"] /\ tunnels' = tunnels
      BY <1>1, <3>1 DEF SessionTypes, CallSteps, StreamSteps
    <3>2. CASE t \in Streamers /\ pc' = [pc EXCEPT ![t] = "send_open"] /\ tunnels' = [tunnels EXCEPT ![x] = @ \cup {t}]
      <4>1. tunnels[x] \cup {t} \in SUBSET Streamers
        BY <1>1, <3>2 DEF SessionTypes
      <4> QED BY <1>1, <3>2, <4>1 DEF SessionTypes, CallSteps, StreamSteps
    <3> QED BY <1>3, <3>1, <3>2
  <2>3. (\A u \in Callers : pc'[u] \in CallSteps) /\ \A u \in Streamers : pc'[u] \in StreamSteps
    BY <1>1, <1>3, SessionAssumption DEF SessionTypes, CallSteps, StreamSteps, Tasks
  <2> QED BY <1>1, <1>2, <1>4, <2>1, <2>2, <2>3 DEF SessionTypes, Busy, run_vars
<1>7. LinesSame
  BY <1>2, LinesStay DEF run_vars, Busy
<1>8. \A z \in Sides \ gone : LineStep(z, {t})
  BY <1>7 DEF LinesSame, LineStep
<1>9. executed[t] = 0 /\ HandlersOf(t)' = HandlersOf(t) /\ HandlersOf(t) = {} /\ inbox[t] = <<>>
      /\ got[t] = <<>> /\ NoBack(Line(x), t)
  BY <1>1, <1>2 DEF TaskInv, Counting, UnsentSteps, HandlersOf
<1>10. pc'[t] \in {"await_ready", "send_open"}
  BY <1>1, <1>3 DEF SessionTypes
<1>11. Counting(t)'
  <2>1. y \in gone \/ Asking(Line(y), t, chan[t], open_channels[y], pc[t], executed[t])'
    <3>1. y \in gone \/ Asking(Line(y), t, chan[t], open_channels[y], "idle", executed[t])
      BY <1>1, <1>2 DEF TaskInv, Counting
    <3>2. y \in gone \/ Asking(Line(y), t, chan'[t], open_channels[y], pc'[t], executed[t])
      BY <1>10, <3>1, AskingBegun
    <3> QED BY <1>1, <1>2, <1>7, <3>2 DEF LinesSame
  <2>2. Line(x)' = Line(x)
    BY <1>1, <1>7 DEF LinesSame
  <2> QED BY <1>2, <1>9, <1>10, <2>1, <2>2 DEF Counting, UnsentSteps
<1>12. t \in Callers => Waiting(t)'
  BY <1>1, <1>2, <1>3, SessionAssumption DEF TaskInv, Waiting, SessionTypes
<1>13. t \in Streamers => Flowing(t)'
  <2> SUFFICES ASSUME t \in Streamers PROVE Flowing(t)'
    OBVIOUS
  <2>1. pc'[t] = "send_open" /\ t \in tunnels'[x]
    BY <1>1, <1>3, SessionAssumption DEF SessionTypes
  <2>2. Line(x)' = Line(x)
    BY <1>1, <1>7 DEF LinesSame
  <2>3. PICK q, there : q \in Seq(Frames) /\ q = Line(x) /\ there = (t \in tunnels'[x])
    BY <1>1, LineTypes
  <2>4. Flow(q, <<>>, 0, {}, t, there, 0)
    BY <1>9, <2>1, <2>3, FlowFresh
  <2>5. Len(<<>>) = 0 /\ <<>> = [i \in 1 .. 0 |-> i] /\ 0 \in 0 .. Items
    BY SessionAssumption
  <2>6. \E s \in 0 .. Items : Flow(Line(x)', inbox'[t], Len(got'[t]), HandlersOf(t)', t, t \in tunnels'[x], s)
    BY <1>2, <1>9, <2>2, <2>3, <2>4, <2>5
  <2>7. got'[t] = [i \in 1 .. Len(got'[t]) |-> i]
    BY <1>2, <1>9, <2>5
  <2> QED BY <2>1, <2>6, <2>7 DEF Flowing
<1>14. TaskInv(t)'
  BY <1>11, <1>12, <1>13 DEF TaskInv
<1>15. /\ \A u \in Tasks \ {t} : pc'[u] = pc[u] /\ chan'[u] = chan[u]
       /\ \A z \in Sides : \A u \in Tasks \ {t} : u \in tunnels'[z] <=> u \in tunnels[z]
       /\ \A z \in Sides : t \in tunnels'[z] => t \in tunnels[z] \/ Home[t] = z
  <2>1. \A u \in Tasks \ {t} : pc'[u] = pc[u] /\ chan'[u] = chan[u]
    BY <1>1, <1>2, <1>3 DEF SessionTypes
  <2>2. \/ tunnels' = tunnels
        \/ tunnels'[x] = tunnels[x] \cup {t} /\ \A z \in Sides \ {x} : tunnels'[z] = tunnels[z]
    BY <1>1, <1>3 DEF SessionTypes
  <2>3. \A z \in Sides : \A u \in Tasks \ {t} : u \in tunnels'[z] <=> u \in tunnels[z]
    BY <2>2
  <2>4. \A z \in Sides : t \in tunnels'[z] => t \in tunnels[z] \/ Home[t] = z
    BY <2>2
  <2> QED BY <2>1, <2>3, <2>4
<1>16. Inv'
  BY <1>2, <1>4, <1>5, <1>6, <1>8, <1>14, <1>15, Noticed DEF run_vars
<1> QED BY <1>2, <1>16

LEMMA CallTypes ==
    ASSUME SessionTypes, NEW t \in Tasks, NEW step,
           \/ t \in Callers /\ step \in CallSteps
           \/ t \in Streamers /\ step \in StreamSteps,
           pc' = [pc EXCEPT ![t] = step],
           inbox' \in [Tasks -> Seq(Frames)], got' \in [Tasks -> Seq(Tasks \cup Nat)],
           pending' \in [Sides -> SUBSET Callers], wire' \in [Sides -> Seq(Frames)],
           UNCHANGED <<closed, gone, run_vars, ready, next_id, tunnels, open_channels, handlers,
                       chan, executed>>
    PROVE  SessionTypes' /\ pc'[t] = step /\ \A u \in Tasks \ {t} : pc'[u] = pc[u]
<1>1. pc' \in [Tasks -> CallSteps \cup StreamSteps]
  BY DEF SessionTypes
<1>2. (\A u \in Callers : pc'[u] \in CallSteps) /\ \A u \in Streamers : pc'[u] \in StreamSteps
  BY SessionAssumption DEF SessionTypes, Tasks
<1>3. pc'[t] = step /\ \A u \in Tasks \ {t} : pc'[u] = pc[u]
  BY DEF SessionTypes
<1> QED BY <1>1, <1>2, <1>3 DEF SessionTypes, Busy, run_vars

\* Where a caller moves on, what it asks for does too.
LEMMA CountingMoved ==
    ASSUME Inv, NEW t \in Tasks, UNCHANGED <<gone, handlers, executed, open_channels, chan>>, LinesSame,
           pc'[t] # "send_request", pc[t] \notin UnsentSteps => pc'[t] \notin UnsentSteps,
           executed[t] = 0 => inbox'[t] = inbox[t] /\ got'[t] = got[t],
           pc'[t] \in UnsentSteps => pc[t] \in UnsentSteps
    PROVE  Counting(t)'
<1>1. Counting(t) /\ Home[t] \in Sides /\ Peer(Home[t]) \in Sides
  BY HomeFacts DEF Inv, TaskInv
<1>2. HandlersOf(t)' = HandlersOf(t) /\ Line(Home[t])' = Line(Home[t])
      /\ Line(Peer(Home[t]))' = Line(Peer(Home[t]))
  BY <1>1 DEF HandlersOf, LinesSame
<1>3. \/ Peer(Home[t]) \in gone
      \/ Asking(Line(Peer(Home[t])), t, chan[t], open_channels[Peer(Home[t])], pc'[t], executed[t])
  BY <1>1, AskingStep DEF Counting
<1> QED BY <1>1, <1>2, <1>3 DEF Counting

LEMMA RegisterKept ==
    ASSUME IdsLast, Inv, NEW t \in Callers, Register(t)
    PROVE  /\ Inv' /\ UNCHANGED <<executed, got>>
           /\ pc[t] = "await_ready" /\ \E s \in {"send_open", "gave_up"} : pc' = [pc EXCEPT ![t] = s]
<1>1. SessionTypes /\ t \in Tasks /\ t \notin Streamers /\ Home[t] \in Sides /\ TaskInv(t)
  BY HomeFacts, SessionAssumption DEF Inv, Tasks
<1> DEFINE x == Home[t]
<1>2. /\ UNCHANGED <<wire, closed, gone, run_vars, ready, next_id, tunnels, open_channels, handlers,
                     chan, inbox, got, executed>>
      /\ pc[t] = "await_ready" /\ x \notin gone
  BY DEF Register, At
<1>3. On(pending[x], chan[t]) \subseteq {t}
  <2>1. chan[t] # 0 /\ pending[x] \subseteq Tasks
    BY <1>1, <1>2 DEF Inv, IdsInv, SessionTypes, Tasks
  <2> QED BY <1>1, <2>1 DEF On, Inv, IdsInv
<1>4. \/ /\ pending' = [pending EXCEPT ![x] = (@ \ On(@, chan[t])) \cup {t}]
         /\ pc' = [pc EXCEPT ![t] = "send_open"]
      \/ pending' = pending /\ pc' = [pc EXCEPT ![t] = "gave_up"]
  BY DEF Register, Goto
<1>5. PICK step : /\ step \in {"send_open", "gave_up"} /\ pc' = [pc EXCEPT ![t] = step]
                  /\ \/ /\ pending' = [pending EXCEPT ![x] = (@ \ On(@, chan[t])) \cup {t}]
                        /\ step = "send_open"
                     \/ pending' = pending /\ step = "gave_up"
  BY <1>4
<1>6. \/ /\ pending'[x] = pending[x] \cup {t} /\ step = "send_open"
         /\ \A z \in Sides \ {x} : pending'[z] = pending[z]
      \/ pending' = pending /\ step = "gave_up"
  BY <1>1, <1>3, <1>5 DEF SessionTypes
<1>7. pending' \in [Sides -> SUBSET Callers]
  <2>1. (pending[x] \ On(pending[x], chan[t])) \cup {t} \in SUBSET Callers
    BY <1>1 DEF SessionTypes
  <2> QED BY <1>1, <1>5, <2>1 DEF SessionTypes
<1>8. SessionTypes' /\ pc'[t] = step /\ \A u \in Tasks \ {t} : pc'[u] = pc[u]
  BY <1>1, <1>2, <1>5, <1>7, CallTypes DEF SessionTypes, CallSteps
<1>9. LinesSame
  BY <1>2, LinesStay DEF run_vars, Busy
<1>10. Counting(t)'
  BY <1>1, <1>2, <1>5, <1>8, <1>9, CountingMoved DEF UnsentSteps
<1>11. Waiting(t)'
  <2>1. inbox[t] = <<>> /\ t \notin pending[x]
    BY <1>1, <1>2 DEF TaskInv, Counting, UnsentSteps, Waiting
  <2> QED BY <1>2, <1>5, <1>6, <1>8, <2>1 DEF Waiting
<1>12. /\ \A z \in Sides : \A u \in Tasks \ {t} : u \in pending'[z] <=> u \in pending[z]
       /\ \A z \in Sides : t \in pending'[z] => t \in pending[z] \/ x = z
  BY <1>6
<1>13. \A z \in Sides \ gone : LineStep(z, {t})
  BY <1>9 DEF LinesSame, LineStep
<1>14. TaskInv(t)'
  BY <1>1, <1>10, <1>11 DEF TaskInv
<1>15. Inv'
  BY <1>1, <1>2, <1>5, <1>8, <1>12, <1>13, <1>14, TaskMoved
<1> QED BY <1>2, <1>5, <1>15

\* CallAnswered.
LEMMA AnsweredKept ==
    ASSUME IdsLast, Inv, NEW t \in Callers, CallAnswered(t)
    PROVE  /\ Inv' /\ executed' = executed /\ executed[t] = 1
           /\ pc[t] = "await" /\ pc' = [pc EXCEPT ![t] = "answered"] /\ got' = [got EXCEPT ![t] = <<t>>]
<1>1. SessionTypes /\ t \in Tasks /\ t \notin Streamers /\ Home[t] \in Sides /\ TaskInv(t)
  BY HomeFacts, SessionAssumption DEF Inv, Tasks
<1>2. /\ UNCHANGED <<wire, closed, gone, run_vars, ready, next_id, pending, tunnels, open_channels, handlers,
                     chan, executed>>
      /\ pc[t] = "await" /\ inbox[t] # <<>>
      /\ got' = [got EXCEPT ![t] = <<Head(inbox[t]).of>>]
      /\ inbox' = [inbox EXCEPT ![t] = <<>>] /\ pc' = [pc EXCEPT ![t] = "answered"]
  BY DEF CallAnswered, At, Goto
<1>3. Head(inbox[t]).of = t
  BY <1>1, <1>2, BoxedFacts DEF Inv, PlacesInv, SessionTypes, Back
<1>4. executed[t] = 1
  BY <1>1, <1>2 DEF TaskInv, Counting
<1>5. /\ inbox' \in [Tasks -> Seq(Frames)] /\ inbox'[t] = <<>> /\ Boxed(<<>>, t)
      /\ \A u \in Tasks \ {t} : inbox'[u] = inbox[u]
  <2>1. <<>> \in Seq(Frames)
    OBVIOUS
  <2> QED BY <1>1, <1>2, <2>1 DEF SessionTypes, Boxed
<1>6. got' \in [Tasks -> Seq(Tasks \cup Nat)] /\ \A u \in Tasks \ {t} : got'[u] = got[u]
  <2>1. <<t>> \in Seq(Tasks \cup Nat)
    BY <1>1
  <2> QED BY <1>1, <1>2, <1>3, <2>1 DEF SessionTypes
<1>7. SessionTypes' /\ pc'[t] = "answered" /\ \A u \in Tasks \ {t} : pc'[u] = pc[u]
  BY <1>1, <1>2, <1>5, <1>6, CallTypes DEF SessionTypes, CallSteps
<1>8. LinesSame
  BY <1>2, LinesStay DEF run_vars, Busy
<1>9. Counting(t)'
  BY <1>1, <1>2, <1>4, <1>7, <1>8, CountingMoved DEF UnsentSteps
<1>10. Waiting(t)'
  BY <1>1, <1>2, <1>7 DEF TaskInv, Waiting
<1>11. \A z \in Sides \ gone : LineStep(z, {t})
  BY <1>8 DEF LinesSame, LineStep
<1>12. TaskInv(t)'
  BY <1>1, <1>9, <1>10 DEF TaskInv
<1>13. Inv'
  BY <1>1, <1>2, <1>5, <1>6, <1>7, <1>11, <1>12, TaskMoved
<1> QED BY <1>2, <1>3, <1>4, <1>13

\* CallTimeout and CallDropped.
LEMMA LeaveKept ==
    ASSUME IdsLast, Inv, NEW t \in Callers, CallTimeout(t) \/ CallDropped(t)
    PROVE  /\ Inv' /\ UNCHANGED <<executed, got>>
           /\ pc[t] \in {"send_open", "send_request", "await"} /\ pc' = [pc EXCEPT ![t] = "unwind"]
<1>1. SessionTypes /\ t \in Tasks /\ t \notin Streamers /\ TaskInv(t)
  BY SessionAssumption DEF Inv, Tasks
<1>2. /\ UNCHANGED <<wire, closed, gone, run_vars, ready, next_id, pending, tunnels, open_channels, handlers,
                     chan, executed, inbox, got>>
      /\ pc[t] \in {"send_open", "send_request", "await"} /\ pc' = [pc EXCEPT ![t] = "unwind"]
  BY DEF CallTimeout, CallDropped, LeaveCall, At, Goto
<1>3. SessionTypes' /\ pc'[t] = "unwind" /\ \A u \in Tasks \ {t} : pc'[u] = pc[u]
  BY <1>1, <1>2, CallTypes DEF SessionTypes, CallSteps
<1>4. LinesSame
  BY <1>2, LinesStay DEF run_vars, Busy
<1>5. Counting(t)'
  BY <1>1, <1>2, <1>3, <1>4, CountingMoved DEF UnsentSteps
<1>6. Waiting(t)'
  BY <1>1, <1>2, <1>3 DEF TaskInv, Waiting
<1>7. \A z \in Sides \ gone : LineStep(z, {t})
  BY <1>4 DEF LinesSame, LineStep
<1>8. TaskInv(t)'
  BY <1>1, <1>5, <1>6 DEF TaskInv
<1>9. Inv'
  BY <1>1, <1>2, <1>3, <1>7, <1>8, TaskMoved
<1> QED BY <1>2, <1>9

LEMMA UnwindKept ==
    ASSUME IdsLast, Inv, NEW t \in Callers, Unwind(t)
    PROVE  /\ Inv' /\ UNCHANGED <<executed, got>>
           /\ pc[t] = "unwind" /\ pc' = [pc EXCEPT ![t] = "gave_up"]
<1>1. SessionTypes /\ t \in Tasks /\ t \notin Streamers /\ Home[t] \in Sides /\ TaskInv(t)
  BY HomeFacts, SessionAssumption DEF Inv, Tasks
<1> DEFINE x == Home[t]
<1>2. /\ UNCHANGED <<wire, closed, gone, run_vars, ready, next_id, tunnels, open_channels, handlers,
                     chan, executed, got>>
      /\ pc[t] = "unwind" /\ pc' = [pc EXCEPT ![t] = "gave_up"]
      /\ pending' = [pending EXCEPT ![x] = @ \ On(@, chan[t])]
      /\ inbox' = [inbox EXCEPT ![t] = <<>>]
  BY DEF Unwind, At, Goto
<1>3. On(pending[x], chan[t]) = pending[x] \cap {t}
  <2>1. chan[t] # 0 /\ pending[x] \subseteq Tasks
    BY <1>1, <1>2 DEF Inv, IdsInv, SessionTypes, Tasks
  <2> QED BY <1>1, <2>1 DEF On, Inv, IdsInv
<1>4. /\ pending'[x] = pending[x] \ {t} /\ \A z \in Sides \ {x} : pending'[z] = pending[z]
      /\ pending' \in [Sides -> SUBSET Callers]
  BY <1>1, <1>2, <1>3 DEF SessionTypes
<1>5. /\ inbox' \in [Tasks -> Seq(Frames)] /\ inbox'[t] = <<>> /\ Boxed(<<>>, t)
      /\ \A u \in Tasks \ {t} : inbox'[u] = inbox[u]
  <2>1. <<>> \in Seq(Frames)
    OBVIOUS
  <2> QED BY <1>1, <1>2, <2>1 DEF SessionTypes, Boxed
<1>6. SessionTypes' /\ pc'[t] = "gave_up" /\ \A u \in Tasks \ {t} : pc'[u] = pc[u]
  BY <1>1, <1>2, <1>4, <1>5, CallTypes DEF SessionTypes, CallSteps
<1>7. LinesSame
  BY <1>2, LinesStay DEF run_vars, Busy
<1>8. Counting(t)'
  <2>1. executed[t] = 0 => inbox[t] = <<>>
    BY <1>1 DEF TaskInv, Counting
  <2> QED BY <1>1, <1>2, <1>5, <1>6, <1>7, <2>1, CountingMoved DEF UnsentSteps
<1>9. Waiting(t)'
  BY <1>4, <1>6 DEF Waiting
<1>10. \A z \in Sides \ gone : LineStep(z, {t})
  BY <1>7 DEF LinesSame, LineStep
<1>11. TaskInv(t)'
  BY <1>1, <1>8, <1>9 DEF TaskInv
<1>12. Inv'
  BY <1>1, <1>2, <1>4, <1>5, <1>6, <1>10, <1>11, TaskMoved
<1> QED BY <1>2, <1>12

LEMMA Counted ==
    ASSUME NEW got_t \in Seq(Tasks \cup Nat), got_t = [i \in 1 .. Len(got_t) |-> i]
    PROVE  LET more == Append(got_t, Len(got_t) + 1)
           IN  /\ more \in Seq(Tasks \cup Nat) /\ Len(more) = Len(got_t) + 1 /\ Len(got_t) \in Nat
               /\ more = [i \in 1 .. Len(more) |-> i]
<1>1. Len(got_t) \in Nat /\ Len(got_t) + 1 \in Tasks \cup Nat /\ \A i \in 1 .. Len(got_t) : got_t[i] = i
  BY LenProperties
<1>2. PICK more : more = Append(got_t, Len(got_t) + 1)
  OBVIOUS
<1>3. /\ more \in Seq(Tasks \cup Nat) /\ Len(more) = Len(got_t) + 1
      /\ \A i \in 1 .. Len(got_t) : more[i] = got_t[i]
      /\ more[Len(got_t) + 1] = Len(got_t) + 1
  BY <1>1, <1>2, AppendProperties
<1>4. \A i \in 1 .. Len(more) : more[i] = i
  BY <1>1, <1>3
<1>5. more = [i \in 1 .. Len(more) |-> i]
  BY <1>3, <1>4, SeqDef
<1> QED BY <1>1, <1>2, <1>3, <1>5

LEMMA StreamReceiveKept ==
    ASSUME IdsLast, Inv, NEW t \in Streamers, StreamReceive(t)
    PROVE  Inv' /\ executed' = executed /\ \A c \in Callers : pc'[c] = pc[c] /\ got'[c] = got[c]
<1> DEFINE x == Home[t]
           g == Len(got[t])
           f == Head(inbox[t])
<1>1. SessionTypes /\ t \in Tasks /\ t \notin Callers /\ x \in Sides /\ TaskInv(t)
  BY HomeFacts, SessionAssumption DEF Inv, Tasks
<1>2. /\ UNCHANGED <<wire, closed, gone, run_vars, ready, next_id, pending, tunnels, open_channels, handlers,
                     chan, executed>>
      /\ pc[t] = "receiving" /\ x \notin gone /\ inbox[t] # <<>>
      /\ inbox' = [inbox EXCEPT ![t] = Tail(@)]
  BY DEF StreamReceive, At
<1>3. \/ f.kind = "item" /\ got' = [got EXCEPT ![t] = Append(@, f.n)] /\ pc' = pc
      \/ /\ f.kind # "item" /\ got' = got
         /\ pc' = [pc EXCEPT ![t] = IF f.kind = "end" THEN "answered" ELSE "failed"]
  BY DEF StreamReceive, Goto
<1>4. Flowing(t) /\ Counting(t)
  BY <1>1 DEF TaskInv
<1>5. PICK s \in 0 .. Items : Flow(Line(x), inbox[t], g, HandlersOf(t), t, t \in tunnels[x], s)
  BY <1>2, <1>4 DEF Flowing, Underway
<1>6. PICK q, box, there, hs :
          /\ q \in Seq(Frames) /\ box \in Seq(Frames) /\ box # <<>> /\ q = Line(x) /\ box = inbox[t]
          /\ there = (t \in tunnels[x]) /\ hs = HandlersOf(t)
  BY <1>1, <1>2, LineTypes DEF SessionTypes
<1>7. s \in Nat /\ g \in Nat /\ got[t] \in Seq(Tasks \cup Nat) /\ Flow(q, box, g, hs, t, there, s)
  BY <1>1, <1>5, <1>6, SessionAssumption, LenProperties DEF SessionTypes
<1>8. /\ f.kind = "item" => f.n = g + 1 /\ Flow(q, Tail(box), g + 1, hs, t, there, s)
      /\ f.kind # "item" => NoBack(q, t) /\ hs = {} /\ (f.kind = "end" => g = Items)
  <2>1. f.kind = "item" => f.n = g + 1 /\ Flow(q, Tail(box), g + 1, hs, t, there, s)
    BY <1>6, <1>7, FlowReceive
  <2>2. f.kind # "item" => NoBack(q, t) /\ hs = {} /\ (f.kind = "end" => g = Items)
    BY <1>6, <1>7, FlowReceive
  <2> QED BY <2>1, <2>2
<1>9. executed[t] = 1
  BY <1>2, <1>4 DEF Counting
<1>10. PICK step : /\ pc' = [pc EXCEPT ![t] = step]
                   /\ step = IF f.kind = "item" THEN "receiving"
                             ELSE IF f.kind = "end" THEN "answered" ELSE "failed"
  <2>1. CASE f.kind = "item"
    <3>1. pc' = [pc EXCEPT ![t] = "receiving"]
      BY <1>1, <1>2, <1>3, <2>1 DEF SessionTypes
    <3> QED BY <2>1, <3>1
  <2>2. CASE f.kind # "item"
    BY <1>3, <2>2
  <2> QED BY <2>1, <2>2
<1>next. /\ step \in {"receiving", "answered", "failed"} /\ (step = "answered" => f.kind = "end")
         /\ f.kind # "item" => step \in {"answered", "failed"}
         /\ f.kind = "item" => step = "receiving"
  BY <1>10
<1>11. /\ inbox' \in [Tasks -> Seq(Frames)] /\ inbox'[t] = Tail(box) /\ Boxed(Tail(box), t)
       /\ \A u \in Tasks \ {t} : inbox'[u] = inbox[u]
  <2>1. Tail(box) \in Seq(Frames) /\ Boxed(Tail(box), t)
    BY <1>1, <1>6, Shifted, BoxedFacts DEF Inv, PlacesInv
  <2> QED BY <1>1, <1>2, <1>6, <2>1 DEF SessionTypes
<1>12. /\ got' \in [Tasks -> Seq(Tasks \cup Nat)] /\ \A u \in Tasks \ {t} : got'[u] = got[u]
       /\ f.kind = "item" => Len(got'[t]) = g + 1 /\ got'[t] = [i \in 1 .. Len(got'[t]) |-> i]
       /\ f.kind # "item" => got'[t] = got[t]
  <2>1. CASE f.kind = "item"
    <3>1. PICK a, more : a = got[t] /\ more = Append(a, Len(a) + 1)
      OBVIOUS
    <3>2. /\ more \in Seq(Tasks \cup Nat) /\ Len(more) = Len(a) + 1 /\ more = [i \in 1 .. Len(more) |-> i]
      BY <1>4, <1>7, <3>1, Counted DEF Flowing
    <3>3. got' = [got EXCEPT ![t] = more]
      BY <1>3, <1>8, <2>1, <3>1
    <3> QED BY <1>1, <2>1, <3>1, <3>2, <3>3 DEF SessionTypes
  <2>2. CASE f.kind # "item"
    BY <1>1, <1>3, <2>2 DEF SessionTypes
  <2> QED BY <2>1, <2>2
<1>13. SessionTypes' /\ pc'[t] = step /\ \A u \in Tasks \ {t} : pc'[u] = pc[u]
  BY <1>1, <1>2, <1>10, <1>next, <1>11, <1>12, CallTypes DEF SessionTypes, StreamSteps
<1>14. LinesSame
  BY <1>2, LinesStay DEF run_vars, Busy
<1>15. Counting(t)'
  BY <1>1, <1>2, <1>9, <1>next, <1>13, <1>14, CountingMoved DEF UnsentSteps
<1>16. HandlersOf(t)' = hs /\ Line(x)' = q
  BY <1>1, <1>2, <1>6, <1>14 DEF HandlersOf, LinesSame
<1>17. Flowing(t)'
  <2>1. CASE f.kind = "item"
    <3>1. pc'[t] = "receiving" /\ Len(got'[t]) = g + 1
      BY <1>next, <1>12, <1>13, <2>1
    <3>2. Flow(Line(x)', inbox'[t], Len(got'[t]), HandlersOf(t)', t, t \in tunnels'[x], s)
      BY <1>2, <1>6, <1>8, <1>11, <1>16, <2>1, <3>1
    <3> QED BY <1>12, <2>1, <3>1, <3>2 DEF Flowing
  <2>2. CASE f.kind # "item"
    <3>1. pc'[t] \in {"answered", "failed"} /\ (pc'[t] = "answered" => Len(got'[t]) = Items)
      BY <1>8, <1>12, <1>13, <1>next, <2>2
    <3>2. NoBack(Line(x)', t) /\ HandlersOf(t)' = {} /\ executed'[t] = 1
      BY <1>2, <1>8, <1>9, <1>16, <2>2
    <3>3. got'[t] = [i \in 1 .. Len(got'[t]) |-> i]
      BY <1>4, <1>12, <2>2 DEF Flowing
    <3> QED BY <3>1, <3>2, <3>3 DEF Flowing, Underway
  <2> QED BY <2>1, <2>2
<1>18. \A z \in Sides \ gone : LineStep(z, {t})
  BY <1>14 DEF LinesSame, LineStep
<1>19. TaskInv(t)'
  BY <1>1, <1>15, <1>17 DEF TaskInv
<1>20. Inv'
  BY <1>1, <1>2, <1>next, <1>11, <1>12, <1>13, <1>18, <1>19, TaskMoved
<1> QED BY <1>1, <1>2, <1>12, <1>13, <1>20 DEF Tasks

LEMMA StreamDroppedKept ==
    ASSUME IdsLast, Inv, NEW t \in Streamers, StreamDropped(t)
    PROVE  Inv' /\ UNCHANGED <<executed, got>> /\ \A c \in Callers : pc'[c] = pc[c]
<1>1. SessionTypes /\ t \in Tasks /\ t \notin Callers /\ TaskInv(t)
  BY SessionAssumption DEF Inv, Tasks
<1>2. /\ UNCHANGED <<wire, closed, gone, run_vars, ready, next_id, pending, tunnels, open_channels, handlers,
                     chan, executed, got>>
      /\ pc[t] = "receiving" /\ pc' = [pc EXCEPT ![t] = "gave_up"] /\ inbox' = [inbox EXCEPT ![t] = <<>>]
  BY DEF StreamDropped, At, Goto
<1>3. /\ inbox' \in [Tasks -> Seq(Frames)] /\ inbox'[t] = <<>> /\ Boxed(<<>>, t)
      /\ \A u \in Tasks \ {t} : inbox'[u] = inbox[u]
  <2>1. <<>> \in Seq(Frames)
    OBVIOUS
  <2> QED BY <1>1, <1>2, <2>1 DEF SessionTypes, Boxed
<1>4. SessionTypes' /\ pc'[t] = "gave_up" /\ \A u \in Tasks \ {t} : pc'[u] = pc[u]
  BY <1>1, <1>2, <1>3, CallTypes DEF SessionTypes, StreamSteps
<1>5. LinesSame
  BY <1>2, LinesStay DEF run_vars, Busy
<1>6. Counting(t)'
  <2>1. executed[t] = 0 => inbox[t] = <<>>
    BY <1>1 DEF TaskInv, Counting
  <2> QED BY <1>1, <1>2, <1>3, <1>4, <1>5, <2>1, CountingMoved DEF UnsentSteps
<1>7. Flowing(t)'
  BY <1>1, <1>2, <1>4 DEF TaskInv, Flowing, Underway
<1>8. \A z \in Sides \ gone : LineStep(z, {t})
  BY <1>5 DEF LinesSame, LineStep
<1>9. TaskInv(t)'
  BY <1>1, <1>6, <1>7 DEF TaskInv
<1>10. Inv'
  BY <1>1, <1>2, <1>3, <1>4, <1>8, <1>9, TaskMoved
<1> QED BY <1>1, <1>2, <1>4, <1>10 DEF Tasks

\* A send of a task, or its failure.
LEMMA SendTypes ==
    ASSUME SessionTypes, NEW t \in Tasks, NEW f \in Frames, NEW then, NEW otherwise,
           TaskSends(t, f, then, otherwise),
           \/ t \in Callers /\ {then, otherwise} \subseteq CallSteps
           \/ t \in Streamers /\ {then, otherwise} \subseteq StreamSteps
    PROVE  /\ SessionTypes'
           /\ \A u \in Tasks \ {t} : pc'[u] = pc[u]
           /\ UNCHANGED <<gone, run_vars, next_id, pending, tunnels, open_channels, handlers, chan,
                          inbox, got, executed>>
           /\ \/ /\ LineGrows(Peer(Home[t]), f) /\ Peer(Home[t]) \notin gone
                 /\ pc' = [pc EXCEPT ![t] = then] /\ pc'[t] = then
              \/ LinesSame /\ pc' = [pc EXCEPT ![t] = otherwise] /\ pc'[t] = otherwise
<1> DEFINE x == Home[t]
<1>1. x \in Sides /\ Peer(x) \in Sides
  BY HomeFacts
<1>2. UNCHANGED <<closed, gone, run_vars, ready, next_id, pending, tunnels, open_channels,
                  handlers, chan, inbox, got, executed>>
  BY DEF TaskSends
<1>3. PICK step : /\ step \in {then, otherwise} /\ pc' = [pc EXCEPT ![t] = step]
                  /\ \/ step = then /\ Put(x, f) /\ Peer(x) \notin gone
                     \/ step = otherwise /\ wire' = wire
  BY DEF TaskSends, Goto, CanSend
<1>4. wire' \in [Sides -> Seq(Frames)]
  <2>1. Append(wire[Peer(x)], f) \in Seq(Frames)
    BY <1>1, Appended DEF SessionTypes
  <2> QED BY <1>3, <2>1 DEF SessionTypes, Put
<1>5. SessionTypes' /\ pc'[t] = step /\ \A u \in Tasks \ {t} : pc'[u] = pc[u]
  BY <1>2, <1>3, <1>4, CallTypes DEF SessionTypes
<1>6. cur' = cur /\ \A z \in Sides : Busy(z)' = Busy(z)
  BY <1>2 DEF Busy, run_vars
<1>7. Put(x, f) => LineGrows(Peer(x), f)
  BY <1>1, <1>6, LinePut
<1>8. wire' = wire => LinesSame
  BY <1>6, LinesStay
<1> QED BY <1>2, <1>3, <1>5, <1>7, <1>8

\* What a send leaves to be shown of its task.
LEMMA SendKept ==
    ASSUME IdsLast, Inv, NEW t \in Tasks, NEW f \in Frames, NEW then, NEW otherwise,
           TaskSends(t, f, then, otherwise),
           pc[t] \in {"send_open", "send_request"}, otherwise \notin UnsentSteps,
           \/ t \in Callers /\ otherwise = "unwind" /\ then \in {"send_request", "await"}
           \/ t \in Streamers /\ otherwise = "gave_up" /\ then \in {"send_request", "receiving"},
           pc[t] = "send_open" \/ then \notin UnsentSteps,
           Well(Peer(Home[t]), f), f.kind \in {"open"} \cup Requests, Req(f, t) \/ f.kind = "open",
           Peer(Home[t]) \in gone \/
               Asking(Append(Line(Peer(Home[t])), f), t, chan[t], open_channels[Peer(Home[t])], then, executed[t])
    PROVE  Inv' /\ UNCHANGED <<executed, got>>
           /\ \E s \in {then, otherwise} : pc' = [pc EXCEPT ![t] = s]
<1> DEFINE x == Home[t]
           y == Peer(x)
<1>1. SessionTypes /\ x \in Sides /\ y \in Sides /\ y # x /\ Peer(y) = x /\ TaskInv(t)
  BY HomeFacts, PeerFacts DEF Inv
<1>2. /\ SessionTypes'
      /\ \A u \in Tasks \ {t} : pc'[u] = pc[u]
      /\ UNCHANGED <<gone, run_vars, next_id, pending, tunnels, open_channels, handlers, chan,
                     inbox, got, executed>>
      /\ \/ LineGrows(y, f) /\ y \notin gone /\ pc' = [pc EXCEPT ![t] = then] /\ pc'[t] = then
         \/ LinesSame /\ pc' = [pc EXCEPT ![t] = otherwise] /\ pc'[t] = otherwise
  BY <1>1, SendTypes DEF CallSteps, StreamSteps
<1>3. \A z \in Sides \ gone : LineStep(z, {t})
  <2>1. \A u \in Tasks \ {t} : ~Back(f, u) /\ ~Req(f, u)
    BY DEF Back, Req, Requests, Replies
  <2>2. Well(y, f)'
    BY <1>2 DEF Well, Opened
  <2> QED BY <1>2, <2>1, <2>2 DEF LineStep, LineGrows, LinesSame
<1>4. HandlersOf(t)' = HandlersOf(t) /\ Line(x)' = Line(x)
  BY <1>1, <1>2 DEF HandlersOf, LineGrows, LinesSame
<1>5. Counting(t)'
  <2>1. Counting(t)
    BY <1>1 DEF TaskInv
  <2>2. pc'[t] \in UnsentSteps => executed[t] = 0
    BY <1>2, <2>1 DEF Counting, UnsentSteps
  <2>3. y \in gone \/ Asking(Line(y)', t, chan[t], open_channels[y], pc'[t], executed[t])
    <3>1. CASE LineGrows(y, f) /\ pc'[t] = then
      BY <1>1, <3>1 DEF LineGrows
    <3>2. CASE LinesSame /\ pc'[t] = otherwise
      <4>1. otherwise # "send_request"
        BY DEF UnsentSteps
      <4>2. Line(y)' = Line(y)
        BY <1>1, <3>2 DEF LinesSame
      <4> QED BY <2>1, <3>2, <4>1, <4>2, AskingStep DEF Counting
    <3> QED BY <1>2, <3>1, <3>2
  <2> QED BY <1>2, <1>4, <2>1, <2>2, <2>3 DEF Counting
<1>6. t \in Callers => Waiting(t)'
  BY <1>2, SessionAssumption, <1>1 DEF TaskInv, Waiting
<1>7. t \in Streamers => Flowing(t)'
  <2> SUFFICES ASSUME t \in Streamers PROVE Flowing(t)'
    OBVIOUS
  <2>1. Flowing(t) /\ pc[t] \in Underway
    BY <1>1 DEF TaskInv, Underway
  <2>2. pc'[t] \in Underway \cup {"gave_up"}
    BY <1>2, SessionAssumption DEF Underway
  <2>3. pc'[t] \notin {"answered", "failed"}
    BY <2>2 DEF Underway
  <2> QED BY <1>2, <1>4, <2>1, <2>3 DEF Flowing
<1>8. TaskInv(t)'
  BY <1>5, <1>6, <1>7 DEF TaskInv
<1>9. pc'[t] # "idle" /\ pc[t] \notin {"idle", "gave_up"}
  BY <1>2
<1>10. Inv'
  BY <1>1, <1>2, <1>3, <1>8, <1>9, TaskMoved
<1> QED BY <1>2, <1>10

LEMMA SendsKept ==
    ASSUME IdsLast, Inv, NEW t \in Tasks,
           \/ CallSendOpen(t) \/ CallSendRequest(t) \/ StreamSendOpen(t) \/ StreamSendRequest(t)
    PROVE  /\ Inv' /\ UNCHANGED <<executed, got>> /\ pc[t] \in {"send_open", "send_request"}
           /\ \/ t \in Callers /\ \E s \in {"send_request", "await", "unwind"} : pc' = [pc EXCEPT ![t] = s]
              \/ t \in Streamers /\ \E s \in StreamSteps : pc' = [pc EXCEPT ![t] = s]
<1> DEFINE y == Peer(Home[t])
<1>1. SessionTypes /\ Counting(t) /\ chan[t] \in Ids /\ y \in Sides /\ Peer(y) = Home[t]
  BY HomeFacts, PeerFacts DEF Inv, TaskInv, SessionTypes
<1>2. PICK q, c, o : q \in Seq(Frames) /\ q = Line(y) /\ c = chan[t] /\ o = open_channels[y]
  BY <1>1, LineTypes
<1>3. pc[t] \in {"send_open", "send_request"}
  BY DEF CallSendOpen, CallSendRequest, StreamSendOpen, StreamSendRequest, At
<1>4. executed[t] = 0 /\ c # 0 /\ c \in Ids /\ (y \in gone \/ Asking(q, t, c, o, pc[t], 0))
  BY <1>1, <1>2, <1>3 DEF Counting, UnsentSteps, Inv, IdsInv
<1>5. CASE CallSendOpen(t) \/ StreamSendOpen(t)
  <2>1. PICK f : f = Control("open", chan[t])
    OBVIOUS
  <2>2. f \in Frames /\ f.kind = "open" /\ f.of = c /\ f.chan = 0
    BY <1>1, <1>2, <2>1, FramesMade DEF Kinds, Control
  <2>3. Well(y, f) /\ Opens(f, c)
    BY <1>1, <1>2, <1>4, <2>2 DEF Well, Opened, Opens, Requests, Replies
  <2>4. y \in gone \/ Asking(Append(q, f), t, c, o, "send_request", 0)
    BY <1>2, <1>4, <1>5, <2>2, <2>3, AskingOpen DEF CallSendOpen, StreamSendOpen, At
  <2>5. pc[t] = "send_open"
    BY <1>5 DEF CallSendOpen, StreamSendOpen, At
  <2>6. CASE CallSendOpen(t)
    <3>1. t \in Callers /\ TaskSends(t, f, "send_request", "unwind")
      BY <2>1, <2>6 DEF CallSendOpen
    <3> QED BY <1>2, <1>3, <1>4, <2>2, <2>3, <2>4, <2>5, <3>1, SendKept DEF UnsentSteps
  <2>7. CASE StreamSendOpen(t)
    <3>1. t \in Streamers /\ TaskSends(t, f, "send_request", "gave_up")
      BY <2>1, <2>7 DEF StreamSendOpen
    <3> QED BY <1>2, <1>3, <1>4, <2>2, <2>3, <2>4, <2>5, <3>1, SendKept DEF UnsentSteps, StreamSteps
  <2> QED BY <1>5, <2>6, <2>7
<1>6. ASSUME NEW kind \in Requests, NEW f, f = Frame(kind, chan[t], t), pc[t] = "send_request",
             IF kind = "request" THEN t \in Callers ELSE t \in Streamers
      PROVE  f \in Frames /\ Well(y, f) /\ Req(f, t) /\ f.kind = kind
             /\ \A step : step \notin UnsentSteps => y \in gone \/ Asking(Append(q, f), t, c, o, step, 0)
  <2>1. f \in Frames /\ f.kind = kind /\ f.of = t /\ f.chan = c
    BY <1>1, <1>2, <1>6, FramesMade DEF Kinds, Frame, Requests
  <2>2. Well(y, f) /\ Req(f, t)
    BY <1>1, <1>2, <1>4, <1>6, <2>1 DEF Well, Req, Requests, Replies
  <2>3. \A step : step \notin UnsentSteps => y \in gone \/ Asking(Append(q, f), t, c, o, step, 0)
    BY <1>2, <1>4, <1>6, <2>1, <2>2, AskingRequest
  <2> QED BY <2>1, <2>2, <2>3
<1>7. CASE CallSendRequest(t)
  <2>1. PICK f : f = Frame("request", chan[t], t)
    OBVIOUS
  <2>2. t \in Callers /\ pc[t] = "send_request" /\ TaskSends(t, f, "await", "unwind")
    BY <1>7, <2>1 DEF CallSendRequest, At
  <2>3. f \in Frames /\ Well(y, f) /\ Req(f, t) /\ f.kind \in Requests
        /\ (y \in gone \/ Asking(Append(q, f), t, c, o, "await", 0))
    BY <1>6, <2>1, <2>2 DEF Requests, UnsentSteps
  <2> QED BY <1>2, <1>3, <1>4, <2>2, <2>3, SendKept DEF UnsentSteps
<1>8. CASE StreamSendRequest(t)
  <2>1. PICK f : f = Frame("stream_request", chan[t], t)
    OBVIOUS
  <2>2. t \in Streamers /\ pc[t] = "send_request" /\ TaskSends(t, f, "receiving", "gave_up")
    BY <1>8, <2>1 DEF StreamSendRequest, At
  <2>3. f \in Frames /\ Well(y, f) /\ Req(f, t) /\ f.kind \in Requests
        /\ (y \in gone \/ Asking(Append(q, f), t, c, o, "receiving", 0))
    BY <1>6, <2>1, <2>2 DEF Requests, UnsentSteps
  <2> QED BY <1>2, <1>3, <1>4, <2>2, <2>3, SendKept DEF UnsentSteps, StreamSteps
<1> QED BY <1>5, <1>7, <1>8

-----------------------------------------------------------------------------
(* The invariant holds, and what follows from it.                            *)

LEMMA InitInv == ASSUME IdsLast, Init PROVE Inv
<1>1. Cardinality(Tasks) \in Nat /\ 2 * Cardinality(Tasks) + 2 < IdSpace /\ IdSpace \in Nat
  BY FS_CardinalityType, SessionAssumption DEF IdsLast
<1>2. {0, 1, 2} \subseteq Ids /\ \A x : First(x) \in Ids
  BY <1>1 DEF Ids, First
<1>3. /\ \A x \in Sides : /\ run_pc[x] \in {"say_hello", "recv_hello"} /\ wire[x] = <<>>
                           /\ cur[x] = <<>> /\ via[x] = {} /\ next_id[x] = First(x)
                           /\ pending[x] = {} /\ tunnels[x] = {} /\ open_channels[x] = {}
                           /\ handlers[x] = {} /\ ~Busy(x)
      /\ \A t \in Tasks : /\ pc[t] = "idle" /\ chan[t] = 0 /\ inbox[t] = <<>>
                          /\ executed[t] = 0 /\ got[t] = <<>>
  BY DEF Init, First, Busy
<1>4. SessionTypes
  <2>1. /\ wire \in [Sides -> Seq(Frames)] /\ run_pc \in [Sides -> RunSteps]
        /\ cur \in [Sides -> Frames \cup {<<>>}] /\ via \in [Sides -> SUBSET Streamers]
        /\ pending \in [Sides -> SUBSET Callers] /\ tunnels \in [Sides -> SUBSET Streamers]
        /\ open_channels \in [Sides -> SUBSET Ids] /\ handlers \in [Sides -> SUBSET HandlerType]
    BY DEF Init, RunSteps
  <2>2. next_id \in [Sides -> Ids]
    BY <1>2 DEF Init
  <2>3. /\ pc \in [Tasks -> CallSteps \cup StreamSteps] /\ chan \in [Tasks -> Ids]
        /\ inbox \in [Tasks -> Seq(Frames)] /\ executed \in [Tasks -> Nat]
        /\ got \in [Tasks -> Seq(Tasks \cup Nat)]
    BY <1>2 DEF Init, CallSteps
  <2>4. closed \subseteq Sides /\ gone \subseteq Sides /\ ready \subseteq Sides
    BY DEF Init
  <2> QED BY <1>3, <2>1, <2>2, <2>3, <2>4 DEF SessionTypes, Tasks, CallSteps, StreamSteps
<1>5. \A x \in Sides : Line(x) = <<>>
  BY <1>3 DEF Line
<1>6. IdsInv
  <2>1. \A x : Begun(x) = {} /\ Cardinality(Begun(x)) = 0
    BY <1>3, FS_EmptySet DEF Begun
  <2>2. \A x \in Sides : next_id[x] = First(x) + 2 * Cardinality(Begun(x))
    BY <1>3, <2>1 DEF First
  <2> QED BY <1>3, <2>2 DEF IdsInv
<1>7. LinesInv /\ PlacesInv /\ Rejecting
  BY <1>3, <1>5 DEF LinesInv, PlacesInv, Boxed, Rejecting
<1>8. ASSUME NEW t \in Tasks PROVE TaskInv(t)
  <2>1. /\ Home[t] \in Sides /\ Peer(Home[t]) \in Sides
        /\ Line(Home[t]) = <<>> /\ Line(Peer(Home[t])) = <<>> /\ HandlersOf(t) = {}
    BY <1>3, <1>5, HomeFacts DEF HandlersOf
  <2>2. Asking(<<>>, t, 0, {}, "idle", 0) /\ NoBack(<<>>, t)
    BY DEF Asking, OnceIn, NoReq, OpenFirst, UnsentSteps, NoBack
  <2>3. Counting(t)
    BY <1>3, <2>1, <2>2 DEF Counting
  <2>4. Waiting(t) /\ Flowing(t)
    <3>1. got[t] = [i \in 1 .. Len(got[t]) |-> i]
      BY <1>3
    <3>2. t \notin pending[Home[t]]
      BY <1>3, <2>1
    <3> QED BY <1>3, <3>1, <3>2 DEF Waiting, Flowing, Underway
  <2> QED BY <2>3, <2>4 DEF TaskInv
<1> QED BY <1>4, <1>6, <1>7, <1>8 DEF Inv

LEMMA RunKept == ASSUME IdsLast, Inv, NEW x \in Sides, RunStep(x) PROVE Inv'
BY HandshakeKept, LoopKept, RouteToTunnelKept, DeliverKept, RouteResponseKept, PassedOverKept,
   RejectUnopenedKept, SendCancelKept, DispatchKept DEF RunStep

LEMMA CallKept ==
    ASSUME IdsLast, Inv, NEW t \in Callers, CallBegin(t) \/ CallStep(t) \/ CallDropped(t)
    PROVE  Inv'
<1>1. t \in Tasks
  BY DEF Tasks
<1> QED
  BY <1>1, BeginKept, RegisterKept, SendsKept, AnsweredKept, LeaveKept, UnwindKept DEF CallStep

LEMMA StreamKept ==
    ASSUME IdsLast, Inv, NEW t \in Streamers, StreamBegin(t) \/ StreamStep(t) \/ StreamDropped(t)
    PROVE  Inv'
<1>1. t \in Tasks
  BY DEF Tasks
<1> QED BY <1>1, BeginKept, SendsKept, StreamReceiveKept, StreamDroppedKept DEF StreamStep

LEMMA NextInv == ASSUME IdsLast, Inv, [Next]_vars PROVE Inv'
<1>1. CASE \E x \in Sides : Close(x) \/ Exit(x) \/ RunStep(x)
  BY <1>1, EndsKept, RunKept
<1>2. CASE \E x \in Sides : \E h \in handlers[x] : HandlerStep(x, h)
  BY <1>2, HandlerKept
<1>3. CASE \E t \in Callers : CallBegin(t) \/ CallStep(t) \/ CallDropped(t)
  BY <1>3, CallKept
<1>4. CASE \E t \in Streamers : StreamBegin(t) \/ StreamStep(t) \/ StreamDropped(t)
  BY <1>4, StreamKept
<1>5. CASE UNCHANGED vars
  <2>1. UNCHANGED <<wire, closed, gone, run_pc, cur, via, ready, next_id, pending, tunnels,
                    open_channels, handlers, pc, chan, inbox, executed, got>>
    BY <1>5 DEF vars, run_vars, task_vars
  <2>2. SessionTypes' /\ IdsInv'
    BY <2>1, IdsStay DEF Inv, SessionTypes, Busy
  <2>6. Rejecting'
    BY <2>1 DEF Inv, Rejecting
  <2>3. \A z \in Sides : Line(z)' = Line(z)
    BY <2>1 DEF Line, Busy
  <2>4. LinesInv' /\ PlacesInv'
    BY <2>1, <2>3 DEF Inv, LinesInv, PlacesInv, Well, Opened, Serves
  <2>5. ASSUME NEW t \in Tasks PROVE TaskInv(t)'
    <3>1. /\ TaskInv(t) /\ HandlersOf(t)' = HandlersOf(t)
          /\ Line(Home[t])' = Line(Home[t]) /\ Line(Peer(Home[t]))' = Line(Peer(Home[t]))
      BY <2>1, <2>3, HomeFacts DEF Inv, HandlersOf
    <3>2. Counting(t)'
      BY <2>1, <3>1 DEF TaskInv, Counting
    <3>3. t \in Callers => Waiting(t)'
      BY <2>1, <3>1 DEF TaskInv, Waiting
    <3>4. t \in Streamers => Flowing(t)'
      BY <2>1, <3>1 DEF TaskInv, Flowing
    <3> QED BY <3>2, <3>3, <3>4 DEF TaskInv
  <2> QED BY <2>2, <2>4, <2>5, <2>6 DEF Inv
<1> QED BY <1>1, <1>2, <1>3, <1>4, <1>5 DEF Next

\* Everything the lemmas above are about: where each frame, each handler and each
\* waiter stands with respect to the task it was made for.
THEOREM Invariant == ASSUME IdsLast PROVE Spec => []Inv
BY InitInv, NextInv, PTL DEF Spec

\* register_pending, try_route_to_pending and PendingGuard (session.rs) keep the map
\* of waiters exact: however calls, time-outs and answers interleave, a call under way
\* without its answer has its waiter there, and no other entry is left behind.
THEOREM WaitersExact == ASSUME IdsLast PROVE Spec => []PendingExact
<1>1. ASSUME Inv PROVE PendingExact
  <2>1. \A t \in Callers : Waiting(t)
    BY <1>1 DEF Inv, TaskInv, Tasks
  <2> QED BY <2>1 DEF PendingExact, Waiting
<1> QED BY <1>1, Invariant, PTL

\* try_route_to_tunnel and the tunnel receiver: a stream hands out exactly the items
\* its handler sent, in order, and ends regularly only after the last of them, even
\* where the wire and the receiver's buffer are full, or the peer ends half way.
THEOREM StreamsInOrder == ASSUME IdsLast PROVE Spec => []StreamInOrder
<1>1. ASSUME Inv PROVE StreamInOrder
  <2>1. \A t \in Streamers : Flowing(t)
    BY <1>1 DEF Inv, TaskInv, Tasks
  <2> QED BY <2>1 DEF StreamInOrder, Flowing
<1> QED BY <1>1, Invariant, PTL

\* run() answers data on an unopened channel with CancelChannel: a request never meets
\* that, since its OpenChannel was handled before it; only the items of a stream whose
\* receiver was dropped do.
THEOREM RequestsAccepted == ASSUME IdsLast PROVE Spec => []OnlyAbandonedRejected
<1>1. ASSUME Inv PROVE OnlyAbandonedRejected
  BY <1>1 DEF Inv, Rejecting, OnlyAbandonedRejected
<1> QED BY <1>1, Invariant, PTL

-----------------------------------------------------------------------------
(* The refinement of RpcCalls: its three variables, as the session has them. *)

Phase(step) == CASE step \in {"idle", "await_ready"} -> "new"
                 [] step = "answered" -> "answered"
                 [] step \in {"unwind", "gave_up"} -> "given_up"
                 [] OTHER -> "called"
Phases == [t \in Callers |-> Phase(pc[t])]
Runs == [t \in Callers |-> executed[t]]
Answers == [t \in Callers |-> {got[t][i] : i \in DOMAIN got[t]}]

LEMMA Mapped ==
    /\ (UNCHANGED <<Phases, Runs, Answers>>) => UNCHANGED Calls!vars
    /\ \A t \in Callers :
       /\ Phases[t] = "new" /\ Phases' = [Phases EXCEPT ![t] = "called"]
          /\ UNCHANGED <<Runs, Answers>> => Calls!Next
       /\ Phases[t] # "new" /\ Runs[t] = 0 /\ Runs' = [Runs EXCEPT ![t] = 1]
          /\ UNCHANGED <<Phases, Answers>> => Calls!Next
       /\ Phases[t] = "called" /\ Runs[t] = 1 /\ Phases' = [Phases EXCEPT ![t] = "answered"]
          /\ Answers' = [Answers EXCEPT ![t] = {t}] /\ Runs' = Runs => Calls!Next
       /\ Phases[t] \in {"new", "called"} /\ Phases' = [Phases EXCEPT ![t] = "given_up"]
          /\ UNCHANGED <<Runs, Answers>> => Calls!Next
<1>1. (UNCHANGED <<Phases, Runs, Answers>>) => UNCHANGED Calls!vars
  BY DEF Phases, Phase, Runs, Answers, Calls!vars
<1>2. ASSUME NEW t \in Callers, Phases[t] = "new", Phases' = [Phases EXCEPT ![t] = "called"],
             UNCHANGED <<Runs, Answers>>
      PROVE  Calls!Next
  <2>1. Calls!Call(t)
    BY <1>2 DEF Phases, Phase, Runs, Answers, Calls!Call
  <2> QED BY <2>1 DEF Calls!Next
<1>3. ASSUME NEW t \in Callers, Phases[t] # "new", Runs[t] = 0, Runs' = [Runs EXCEPT ![t] = 1],
             UNCHANGED <<Phases, Answers>>
      PROVE  Calls!Next
  <2>1. Calls!Execute(t)
    BY <1>3 DEF Phases, Phase, Runs, Answers, Calls!Execute
  <2> QED BY <2>1 DEF Calls!Next
<1>4. ASSUME NEW t \in Callers, Phases[t] = "called", Runs[t] = 1,
             Phases' = [Phases EXCEPT ![t] = "answered"],
             Answers' = [Answers EXCEPT ![t] = {t}], Runs' = Runs
      PROVE  Calls!Next
  <2>1. Calls!Answer(t)
    BY <1>4 DEF Phases, Phase, Runs, Answers, Calls!Answer
  <2> QED BY <2>1 DEF Calls!Next
<1>5. ASSUME NEW t \in Callers, Phases[t] \in {"new", "called"},
             Phases' = [Phases EXCEPT ![t] = "given_up"], UNCHANGED <<Runs, Answers>>
      PROVE  Calls!Next
  <2>1. Calls!GiveUp(t)
    BY <1>5 DEF Phases, Phase, Runs, Answers, Calls!GiveUp
  <2> QED BY <2>1 DEF Calls!Next
<1> QED BY <1>1, <1>2, <1>3, <1>4, <1>5

\* A caller moves on, and nobody else.
LEMMA PhaseMoved ==
    ASSUME SessionTypes, NEW t \in Callers, NEW step, pc' = [pc EXCEPT ![t] = step]
    PROVE  Phases' = [Phases EXCEPT ![t] = Phase(step)]
<1>1. t \in Tasks /\ pc'[t] = step /\ \A u \in Callers \ {t} : pc'[u] = pc[u]
  BY DEF SessionTypes, Tasks
<1>2. \A u \in Callers : Phases'[u] = IF u = t THEN Phase(step) ELSE Phases[u]
  BY <1>1 DEF Phases
<1> QED BY <1>2, Zenon DEF Phases

\* Nothing a caller could see has changed.
LEMMA PhasesSame ==
    ASSUME \A c \in Callers : /\ pc'[c] = pc[c] /\ got'[c] = got[c] /\ executed'[c] = executed[c]
    PROVE  UNCHANGED <<Phases, Runs, Answers>>
BY DEF Phases, Runs, Answers

LEMMA RunMapped ==
    ASSUME IdsLast, Inv, NEW x \in Sides, RunStep(x)
    PROVE  Calls!Next \/ UNCHANGED Calls!vars
<1>1. CASE Dispatch(x)
  <2>1. PICK t : t = cur[x].of
    OBVIOUS
  <2>2. /\ t \in Tasks /\ pc[t] \notin UnsentSteps /\ executed[t] = 0
        /\ executed' = [executed EXCEPT ![t] = 1] /\ UNCHANGED <<pc, got>>
    BY <1>1, <2>1, DispatchKept DEF Dispatch, task_vars
  <2>3. executed'[t] = 1 /\ \A u \in Tasks \ {t} : executed'[u] = executed[u]
    BY <2>2 DEF Inv, SessionTypes
  <2>4. CASE t \in Callers
    <3>1. Runs' = [Runs EXCEPT ![t] = 1] /\ UNCHANGED <<Phases, Answers>>
      BY <2>2, <2>3, <2>4 DEF Runs, Phases, Answers, Tasks
    <3>2. Phases[t] # "new" /\ Runs[t] = 0
      BY <2>2, <2>4 DEF Phases, Phase, Runs, UnsentSteps
    <3> QED BY <2>4, <3>1, <3>2, Mapped
  <2>5. CASE t \notin Callers
    <3>1. \A c \in Callers : pc'[c] = pc[c] /\ got'[c] = got[c] /\ executed'[c] = executed[c]
      BY <2>2, <2>3, <2>5 DEF Tasks
    <3> QED BY <3>1, PhasesSame, Mapped
  <2> QED BY <2>4, <2>5
<1>2. CASE ~Dispatch(x)
  <2>1. UNCHANGED <<pc, got, executed>>
    BY <1>2 DEF RunStep, SayHello, HearHello, HandshakeFails, RecvBegin, RecvFrame, RecvClosed,
       RouteToTunnel, DeliverToTunnel, RouteResponse, RouteControl, SkipNonData, RejectUnopened,
       SendCancel, task_vars
  <2> QED BY <2>1, PhasesSame, Mapped
<1> QED BY <1>1, <1>2

LEMMA CallMapped ==
    ASSUME IdsLast, Inv, NEW t \in Callers, CallBegin(t) \/ CallStep(t) \/ CallDropped(t)
    PROVE  Calls!Next \/ UNCHANGED Calls!vars
<1>1. t \in Tasks /\ SessionTypes /\ Phases[t] = Phase(pc[t]) /\ Phases = [Phases EXCEPT ![t] = Phase(pc[t])]
  BY DEF Tasks, Inv, Phases
<1>2. ASSUME UNCHANGED <<executed, got>> PROVE UNCHANGED <<Runs, Answers>>
  BY <1>2 DEF Runs, Answers
<1>3. CASE CallBegin(t)
  <2>1. UNCHANGED <<executed, got>> /\ pc[t] = "idle" /\ pc' = [pc EXCEPT ![t] = "await_ready"]
    BY <1>1, <1>3, BeginKept DEF CallBegin, At, Goto
  <2>2. Phases' = Phases
    BY <1>1, <2>1, PhaseMoved DEF Phase
  <2> QED BY <1>2, <2>1, <2>2, Mapped
<1>4. CASE Register(t)
  <2>1. PICK s \in {"send_open", "gave_up"} : pc' = [pc EXCEPT ![t] = s]
    BY <1>4, RegisterKept
  <2>2. UNCHANGED <<executed, got>> /\ Phases[t] = "new" /\ Phases' = [Phases EXCEPT ![t] = Phase(s)]
    BY <1>1, <1>4, <2>1, RegisterKept, PhaseMoved DEF Phase
  <2>3. Phase(s) \in {"called", "given_up"}
    BY <2>1 DEF Phase
  <2> QED BY <1>2, <2>2, <2>3, Mapped
<1>5. CASE CallSendOpen(t) \/ CallSendRequest(t)
  <2>1. UNCHANGED <<executed, got>> /\ pc[t] \in {"send_open", "send_request"} /\ t \notin Streamers
    BY <1>1, <1>5, SendsKept, SessionAssumption
  <2>2. PICK s \in {"send_request", "await", "unwind"} : pc' = [pc EXCEPT ![t] = s]
    BY <1>1, <1>5, <2>1, SendsKept
  <2>3. Phases[t] = "called" /\ Phases' = [Phases EXCEPT ![t] = Phase(s)] /\ Phase(s) \in {"called", "given_up"}
    BY <1>1, <2>1, <2>2, PhaseMoved DEF Phase
  <2>4. Phase(s) = "called" => Phases' = Phases
    BY <1>1, <2>3
  <2> QED BY <1>2, <2>1, <2>3, <2>4, Mapped
<1>6. CASE CallAnswered(t)
  <2>1. /\ executed' = executed /\ executed[t] = 1 /\ pc[t] = "await"
        /\ pc' = [pc EXCEPT ![t] = "answered"] /\ got' = [got EXCEPT ![t] = <<t>>]
    BY <1>6, AnsweredKept
  <2>2. Phases[t] = "called" /\ Phases' = [Phases EXCEPT ![t] = "answered"] /\ Runs[t] = 1 /\ Runs' = Runs
    BY <1>1, <2>1, PhaseMoved DEF Phase, Runs
  <2>3. got'[t] = <<t>> /\ \A u \in Callers \ {t} : got'[u] = got[u]
    BY <1>1, <2>1 DEF SessionTypes, Tasks
  <2>4. {got'[t][i] : i \in DOMAIN got'[t]} = {t}
    BY <2>3
  <2>5. Answers' = [Answers EXCEPT ![t] = {t}]
    BY <2>3, <2>4, ZenonT(60) DEF Answers
  <2> QED BY <2>2, <2>5, Mapped
<1>7. CASE CallTimeout(t) \/ CallDropped(t)
  <2>1. UNCHANGED <<executed, got>> /\ Phases[t] = "called" /\ Phases' = [Phases EXCEPT ![t] = "given_up"]
    BY <1>1, <1>7, LeaveKept, PhaseMoved DEF Phase
  <2> QED BY <1>2, <2>1, Mapped
<1>8. CASE Unwind(t)
  <2>1. UNCHANGED <<executed, got>> /\ pc[t] = "unwind" /\ pc' = [pc EXCEPT ![t] = "gave_up"]
    BY <1>8, UnwindKept
  <2>2. Phases' = Phases
    BY <1>1, <2>1, PhaseMoved DEF Phase
  <2> QED BY <1>2, <2>1, <2>2, Mapped
<1> QED BY <1>3, <1>4, <1>5, <1>6, <1>7, <1>8 DEF CallStep

LEMMA StreamMapped ==
    ASSUME IdsLast, Inv, NEW t \in Streamers, StreamBegin(t) \/ StreamStep(t) \/ StreamDropped(t)
    PROVE  UNCHANGED Calls!vars
<1>1. t \in Tasks /\ t \notin Callers /\ SessionTypes
  BY SessionAssumption DEF Tasks, Inv
<1>2. ASSUME NEW s, pc' = [pc EXCEPT ![t] = s] PROVE \A c \in Callers : pc'[c] = pc[c]
  BY <1>1, <1>2 DEF SessionTypes, Tasks
<1>3. CASE StreamReceive(t)
  <2>1. \A c \in Callers : c \in Tasks /\ pc'[c] = pc[c] /\ got'[c] = got[c] /\ executed' = executed
    BY <1>3, StreamReceiveKept DEF Tasks
  <2> QED BY <2>1, PhasesSame, Mapped
<1>4. CASE StreamBegin(t)
  <2>1. UNCHANGED <<executed, got>> /\ \A c \in Callers : pc'[c] = pc[c]
    BY <1>1, <1>2, <1>4, BeginKept DEF StreamBegin, Goto
  <2> QED BY <2>1, PhasesSame, Mapped
<1>5. CASE StreamDropped(t)
  <2>1. UNCHANGED <<executed, got>> /\ \A c \in Callers : pc'[c] = pc[c]
    BY <1>5, StreamDroppedKept
  <2> QED BY <2>1, PhasesSame, Mapped
<1>6. CASE StreamSendOpen(t) \/ StreamSendRequest(t)
  <2>1. UNCHANGED <<executed, got>> /\ \E s \in StreamSteps : pc' = [pc EXCEPT ![t] = s]
    BY <1>1, <1>6, SendsKept
  <2>2. \A c \in Callers : pc'[c] = pc[c]
    BY <1>2, <2>1
  <2> QED BY <2>1, <2>2, PhasesSame, Mapped
<1> QED BY <1>3, <1>4, <1>5, <1>6 DEF StreamStep

LEMMA NextMapped == ASSUME IdsLast, Inv, [Next]_vars PROVE [Calls!Next]_(Calls!vars)
<1> SUFFICES Calls!Next \/ UNCHANGED Calls!vars
  OBVIOUS
<1>1. CASE \E x \in Sides : RunStep(x)
  BY <1>1, RunMapped
<1>2. CASE \E x \in Sides : Close(x) \/ Exit(x)
  <2>1. UNCHANGED <<pc, got, executed>>
    BY <1>2 DEF Close, Exit, task_vars
  <2> QED BY <2>1, PhasesSame, Mapped
<1>3. CASE \E x \in Sides : \E h \in handlers[x] : HandlerStep(x, h)
  <2>1. UNCHANGED <<pc, got, executed>>
    BY <1>3, HandlerKept
  <2> QED BY <2>1, PhasesSame, Mapped
<1>4. CASE \E t \in Callers : CallBegin(t) \/ CallStep(t) \/ CallDropped(t)
  BY <1>4, CallMapped
<1>5. CASE \E t \in Streamers : StreamBegin(t) \/ StreamStep(t) \/ StreamDropped(t)
  BY <1>5, StreamMapped
<1>6. CASE UNCHANGED vars
  <2>1. UNCHANGED <<pc, got, executed>>
    BY <1>6 DEF vars
  <2> QED BY <2>1, PhasesSame, Mapped
<1> QED BY <1>1, <1>2, <1>3, <1>4, <1>5, <1>6 DEF Next

\* call(), run() and the handlers they spawn keep what RpcCalls promises: the handler of
\* a call runs at most once and only after the call was made, and a caller gets the
\* answer to its own request, after its handler ran, or gives up; through time-outs,
\* dropped futures, failed sends, close() and the end of a peer.
THEOREM CallsCorrelated == ASSUME IdsLast PROVE Spec => CallsAreCorrelated
<1>1. ASSUME Init PROVE Calls!Init
  <2>1. \A t \in Callers : t \in Tasks /\ pc[t] = "idle" /\ executed[t] = 0 /\ got[t] = <<>>
    BY <1>1 DEF Init, Tasks
  <2> QED BY <2>1 DEF Calls!Init
<1> QED BY <1>1, NextMapped, Invariant, PTL DEF Spec, CallsAreCorrelated, Calls!Spec

-----------------------------------------------------------------------------
(* Types and capacities. *)

Bounded ==
    /\ \A x \in Sides : Len(wire[x]) <= WireCapacity
    /\ \A x \in Sides : Cardinality(pending[x]) <= MaxPending
    /\ \A t \in Tasks : Len(inbox[t]) <= TunnelCapacity

LEMMA WirePut ==
    ASSUME SessionTypes, SessionTypes', NEW x \in Sides, NEW f, CanSend(x), Put(x, f),
           \A z \in Sides : Len(wire[z]) <= WireCapacity
    PROVE  \A z \in Sides : Len(wire'[z]) <= WireCapacity
<1>1. Peer(x) \in Sides /\ wire[Peer(x)] \in Seq(Frames) /\ WireCapacity \in Nat
  BY PeerFacts, SessionAssumption DEF SessionTypes
<1>2. Len(Append(wire[Peer(x)], f)) = Len(wire[Peer(x)]) + 1 /\ Len(wire[Peer(x)]) \in Nat
  BY <1>1
<1>3. \A z \in Sides : wire'[z] = IF z = Peer(x) THEN Append(wire[Peer(x)], f) ELSE wire[z]
  BY <1>1 DEF Put, SessionTypes
<1>4. Len(wire'[Peer(x)]) <= WireCapacity
  <2>1. PICK n \in Nat : n = Len(wire[Peer(x)])
    BY <1>2
  <2>2. n < WireCapacity /\ Len(wire'[Peer(x)]) = n + 1
    BY <1>1, <1>2, <1>3, <2>1 DEF CanSend
  <2> QED BY <1>1, <2>2
<1> QED BY <1>3, <1>4

LEMMA WireTaken ==
    ASSUME SessionTypes, NEW x \in Sides, HasFrame(x), Take(x),
           \A z \in Sides : Len(wire[z]) <= WireCapacity
    PROVE  \A z \in Sides : Len(wire'[z]) <= WireCapacity
<1>1. wire[x] \in Seq(Frames) /\ wire[x] # <<>> /\ WireCapacity \in Nat
  BY SessionAssumption DEF SessionTypes, HasFrame
<1>2. Len(Tail(wire[x])) = Len(wire[x]) - 1 /\ Len(wire[x]) \in Nat
  BY <1>1
<1>3. \A z \in Sides : wire'[z] = IF z = x THEN Tail(wire[x]) ELSE wire[z]
  BY DEF Take, SessionTypes
<1>4. Len(wire'[x]) <= WireCapacity
  <2>1. PICK n \in Nat : n = Len(wire[x])
    BY <1>2
  <2>2. n <= WireCapacity /\ Len(wire'[x]) = n - 1
    BY <1>2, <1>3, <2>1
  <2> QED BY <1>1, <2>2
<1> QED BY <1>3, <1>4

\* A map of waiters that loses some, or gets one more where there is room.
LEMMA PendingFewer ==
    ASSUME IdsLast, SessionTypes, NEW x \in Sides, NEW less, less \subseteq pending[x],
           Cardinality(pending[x]) <= MaxPending
    PROVE  /\ Cardinality(less) <= MaxPending
           /\ Cardinality(pending[x]) < MaxPending =>
                 \A t : Cardinality(less \cup {t}) <= MaxPending
<1>1. pending[x] \subseteq Tasks /\ IsFiniteSet(pending[x]) /\ MaxPending \in Nat
  BY FS_Subset, SessionAssumption DEF SessionTypes, IdsLast, Tasks
<1>2. /\ IsFiniteSet(less) /\ Cardinality(less) <= Cardinality(pending[x])
      /\ Cardinality(less) \in Nat /\ Cardinality(pending[x]) \in Nat
  BY <1>1, FS_Subset, FS_CardinalityType
<1>3. ASSUME NEW t PROVE Cardinality(less \cup {t}) \in {Cardinality(less), Cardinality(less) + 1}
  BY <1>2, FS_AddElement
<1> QED
  <2>1. PICK n \in Nat, m \in Nat : n = Cardinality(less) /\ m = Cardinality(pending[x])
    BY <1>2
  <2>2. n <= m /\ m <= MaxPending
    BY <1>2, <2>1
  <2>3. MaxPending \in Nat
    BY <1>1
  <2>4. n <= MaxPending /\ (m < MaxPending => n + 1 <= MaxPending)
    BY <2>2, <2>3
  <2>5. ASSUME NEW t, m < MaxPending PROVE Cardinality(less \cup {t}) <= MaxPending
    <3>1. PICK k : k = Cardinality(less \cup {t})
      OBVIOUS
    <3>2. k = n \/ k = n + 1
      BY <1>3, <2>1, <3>1
    <3>3. k <= MaxPending
      BY <2>4, <2>5, <3>2
    <3> QED BY <3>1, <3>3
  <2> QED BY <2>1, <2>4, <2>5

LEMMA RunBounded ==
    ASSUME IdsLast, Inv, Inv', Bounded, NEW x \in Sides, RunStep(x)
    PROVE  Bounded'
<1>1. SessionTypes /\ SessionTypes' /\ TunnelCapacity \in Nat \ {0}
  BY SessionAssumption DEF Inv
<1>2. \A z \in Sides : Len(wire'[z]) <= WireCapacity
  <2>1. CASE wire' = wire
    BY <2>1 DEF Bounded
  <2>2. CASE HasFrame(x) /\ Take(x)
    BY <1>1, <2>2, WireTaken DEF Bounded
  <2>3. CASE \E f : CanSend(x) /\ Put(x, f)
    BY <1>1, <2>3, WirePut DEF Bounded
  <2> QED
    BY <2>1, <2>2, <2>3 DEF RunStep, SayHello, HearHello, HandshakeFails, RecvBegin, RecvFrame,
       RecvClosed, RouteToTunnel, DeliverToTunnel, RouteResponse, RouteControl, SkipNonData,
       RejectUnopened, SendCancel, Dispatch
<1>3. CASE DeliverToTunnel(x)
  <2>1. cur[x] \in Frames
    BY <1>1, <1>3 DEF DeliverToTunnel, SessionTypes, Busy
  <2>2. PICK t \in via[x] : /\ Listening(t) => Len(inbox[t]) < TunnelCapacity
                            /\ inbox' = IF Listening(t) THEN [inbox EXCEPT ![t] = Append(@, cur[x])] ELSE inbox
    BY <1>3 DEF DeliverToTunnel
  <2>3. t \in Tasks /\ inbox[t] \in Seq(Frames) /\ Len(Append(inbox[t], cur[x])) = Len(inbox[t]) + 1
    BY <1>1, <2>1, <2>2 DEF SessionTypes, Tasks
  <2>4. \A u \in Tasks : inbox'[u] = inbox[u] \/ (u = t /\ Listening(t) /\ inbox'[u] = Append(inbox[t], cur[x]))
    BY <1>1, <2>2, <2>3 DEF SessionTypes
  <2>5. Len(inbox[t]) \in Nat
    BY <2>3
  <2>6. \A u \in Tasks : Len(inbox'[u]) <= TunnelCapacity
    BY <1>1, <2>2, <2>3, <2>4, <2>5 DEF Bounded
  <2>7. pending' = pending
    BY <1>3 DEF DeliverToTunnel
  <2> QED BY <1>2, <2>6, <2>7 DEF Bounded
<1>4. CASE RouteResponse(x)
  <2>1. Len(<<cur[x]>>) <= TunnelCapacity
    BY <1>1
  <2>2. \A u \in Tasks : inbox'[u] \in {inbox[u], <<cur[x]>>}
    BY <1>4 DEF RouteResponse
  <2>3. \A z \in Sides : pending'[z] \subseteq pending[z]
    BY <1>1, <1>4 DEF RouteResponse, SessionTypes
  <2>4. \A z \in Sides : Cardinality(pending'[z]) <= MaxPending
    BY <1>1, <2>3, PendingFewer DEF Bounded
  <2> QED BY <1>2, <2>1, <2>2, <2>4 DEF Bounded
<1>5. CASE UNCHANGED <<inbox, pending>>
  BY <1>2, <1>5 DEF Bounded
<1>6. UNCHANGED <<inbox, pending>> \/ DeliverToTunnel(x) \/ RouteResponse(x)
  BY DEF RunStep, SayHello, HearHello, HandshakeFails, RecvBegin, RecvFrame, RecvClosed,
     RouteToTunnel, RouteControl, SkipNonData, RejectUnopened, SendCancel, Dispatch, task_vars
<1> QED BY <1>3, <1>4, <1>5, <1>6

LEMMA TaskBounded ==
    ASSUME IdsLast, Inv, Inv', Bounded, NEW t \in Tasks,
           \/ CallBegin(t) \/ CallStep(t) \/ CallDropped(t)
           \/ StreamBegin(t) \/ StreamStep(t) \/ StreamDropped(t)
    PROVE  Bounded'
<1>1. SessionTypes /\ SessionTypes' /\ TunnelCapacity \in Nat \ {0} /\ Home[t] \in Sides
  BY SessionAssumption, HomeFacts DEF Inv
<1>2. \A z \in Sides : Len(wire'[z]) <= WireCapacity
  <2>1. CASE wire' = wire
    BY <2>1 DEF Bounded
  <2>2. CASE \E f : CanSend(Home[t]) /\ Put(Home[t], f)
    BY <1>1, <2>2, WirePut DEF Bounded
  <2> QED
    BY <2>1, <2>2 DEF CallBegin, CallStep, CallDropped, StreamBegin, StreamStep, StreamDropped, LeaveCall,
       Register, CallSendOpen, CallSendRequest, CallAnswered, CallTimeout, Unwind, TaskSends,
       StreamSendOpen, StreamSendRequest, StreamReceive
<1>3. \A u \in Tasks : Len(inbox'[u]) <= TunnelCapacity
  <2>1. CASE inbox' = inbox
    BY <2>1 DEF Bounded
  <2>2. CASE inbox' = [inbox EXCEPT ![t] = <<>>]
    <3>1. \A u \in Tasks : inbox'[u] \in {inbox[u], <<>>}
      BY <1>1, <2>2 DEF SessionTypes
    <3> QED BY <1>1, <3>1 DEF Bounded
  <2>3. CASE inbox[t] # <<>> /\ inbox' = [inbox EXCEPT ![t] = Tail(@)]
    <3>1. inbox[t] \in Seq(Frames) /\ Len(Tail(inbox[t])) = Len(inbox[t]) - 1 /\ Len(inbox[t]) \in Nat
      BY <1>1, <2>3 DEF SessionTypes
    <3>2. \A u \in Tasks : inbox'[u] = IF u = t THEN Tail(inbox[t]) ELSE inbox[u]
      BY <1>1, <2>3 DEF SessionTypes
    <3>3. PICK n \in Nat : n = Len(inbox[t]) /\ n <= TunnelCapacity
      BY <3>1 DEF Bounded
    <3>4. inbox'[t] = Tail(inbox[t])
      BY <3>2
    <3>5. Len(inbox'[t]) = n - 1
      BY <3>1, <3>3, <3>4
    <3>6. n - 1 <= TunnelCapacity
      BY <1>1, <3>3
    <3> QED BY <3>2, <3>5, <3>6 DEF Bounded
  <2> QED
    BY <2>1, <2>2, <2>3 DEF CallBegin, CallStep, CallDropped, StreamBegin, StreamStep, StreamDropped,
       LeaveCall, Register, CallSendOpen, CallSendRequest, CallAnswered, CallTimeout, Unwind, TaskSends,
       StreamSendOpen, StreamSendRequest, StreamReceive
<1>4. \A z \in Sides : Cardinality(pending'[z]) <= MaxPending
  <2>1. CASE pending' = pending
    BY <2>1 DEF Bounded
  <2>2. CASE pending' = [pending EXCEPT ![Home[t]] = @ \ On(@, chan[t])]
    <3>1. \A z \in Sides : pending'[z] \subseteq pending[z]
      BY <1>1, <2>2 DEF SessionTypes
    <3> QED BY <1>1, <3>1, PendingFewer DEF Bounded
  <2>3. CASE /\ Cardinality(pending[Home[t]]) < MaxPending
             /\ pending' = [pending EXCEPT ![Home[t]] = (@ \ On(@, chan[t])) \cup {t}]
    <3>1. PICK less : less = pending[Home[t]] \ On(pending[Home[t]], chan[t])
      OBVIOUS
    <3>2. less \subseteq pending[Home[t]]
      BY <3>1
    <3>3. Cardinality(less \cup {t}) <= MaxPending
      BY <1>1, <2>3, <3>2, PendingFewer DEF Bounded
    <3>4. \A z \in Sides : pending'[z] = IF z = Home[t] THEN less \cup {t} ELSE pending[z]
      BY <1>1, <2>3, <3>1 DEF SessionTypes
    <3> QED BY <3>3, <3>4 DEF Bounded
  <2> QED
    BY <2>1, <2>2, <2>3 DEF CallBegin, CallStep, CallDropped, StreamBegin, StreamStep, StreamDropped,
       LeaveCall, Register, CallSendOpen, CallSendRequest, CallAnswered, CallTimeout, Unwind, TaskSends,
       StreamSendOpen, StreamSendRequest, StreamReceive
<1> QED BY <1>2, <1>3, <1>4 DEF Bounded

LEMMA NextBounded == ASSUME IdsLast, Inv, Inv', Bounded, [Next]_vars PROVE Bounded'
<1>1. CASE \E x \in Sides : RunStep(x)
  BY <1>1, RunBounded
<1>2. CASE \E x \in Sides : Close(x) \/ Exit(x)
  <2>1. PICK x \in Sides : Close(x) \/ Exit(x)
    BY <1>2
  <2>2. UNCHANGED <<pending, inbox>> /\ \A z \in Sides : wire'[z] \in {wire[z], <<>>}
    BY <2>1 DEF Close, Exit, task_vars, Inv, SessionTypes
  <2>3. Len(<<>>) <= WireCapacity
    BY SessionAssumption
  <2> QED BY <2>2, <2>3 DEF Bounded
<1>3. CASE \E x \in Sides : \E h \in handlers[x] : HandlerStep(x, h)
  <2>1. PICK x, h : x \in Sides /\ h \in handlers[x] /\ HandlerStep(x, h)
    BY <1>3
  <2>2. UNCHANGED <<pending, inbox>> /\ (wire' = wire \/ \E f : CanSend(x) /\ Put(x, f))
    BY <2>1 DEF HandlerStep, Reply, ReplyError, StreamItem, StreamEnd, StreamPanics, HandlerSends, task_vars
  <2>3. \A z \in Sides : Len(wire'[z]) <= WireCapacity
    <3>1. SessionTypes /\ SessionTypes'
      BY DEF Inv
    <3>2. CASE wire' = wire
      BY <3>2 DEF Bounded
    <3>3. CASE \E f : CanSend(x) /\ Put(x, f)
      BY <2>1, <3>1, <3>3, WirePut DEF Bounded
    <3> QED BY <2>2, <3>2, <3>3
  <2> QED BY <2>2, <2>3 DEF Bounded
<1>4. CASE \E t \in Callers : CallBegin(t) \/ CallStep(t) \/ CallDropped(t)
  BY <1>4, TaskBounded DEF Tasks
<1>5. CASE \E t \in Streamers : StreamBegin(t) \/ StreamStep(t) \/ StreamDropped(t)
  BY <1>5, TaskBounded DEF Tasks
<1>6. CASE UNCHANGED vars
  BY <1>6 DEF vars, task_vars, Bounded
<1> QED BY <1>1, <1>2, <1>3, <1>4, <1>5, <1>6 DEF Next

\* Every variable keeps its type and no queue exceeds its capacity: the transport holds
\* at most CHANNEL_CAPACITY frames, the map of waiters at most RAPACE_MAX_PENDING, which
\* register_pending sees to, and a tunnel no more frames than its receiver buffers.
THEOREM Types == ASSUME IdsLast PROVE Spec => []TypeOK
<1>1. ASSUME Inv, Bounded PROVE TypeOK
  <2>1. SessionTypes
    BY <1>1 DEF Inv
  <2>2. \A x \in Sides : /\ wire[x] \in Seq(Frames) /\ Len(wire[x]) <= WireCapacity
                         /\ pending[x] \subseteq Callers /\ Cardinality(pending[x]) <= MaxPending
                         /\ cur[x] \in Frames \cup {<<>>} /\ via[x] \subseteq Streamers
                         /\ tunnels[x] \subseteq Streamers /\ open_channels[x] \subseteq Ids
                         /\ handlers[x] \subseteq [chan : Ids, of : Tasks, n : 0 .. Items, no_reply : BOOLEAN]
    BY <1>1, <2>1 DEF SessionTypes, Bounded, HandlerType
  <2>3. \A t \in Tasks : inbox[t] \in Seq(Frames) /\ Len(inbox[t]) <= TunnelCapacity
    BY <1>1, <2>1 DEF SessionTypes, Bounded
  <2>4. /\ run_pc \in [Sides -> {"say_hello", "recv_hello", "await_hello", "recv", "wait",
                                 "route", "tunnel", "cancel", "ended"}]
        /\ pc \in [Tasks -> {"idle", "await_ready", "send_open", "send_request", "await",
                             "unwind", "receiving", "answered", "gave_up", "failed"}]
    BY <2>1 DEF SessionTypes, RunSteps, CallSteps, StreamSteps
  <2> QED BY <2>1, <2>2, <2>3, <2>4 DEF SessionTypes, TypeOK
<1>2. ASSUME IdsLast, Init PROVE Bounded
  <2>1. 0 <= WireCapacity /\ 0 <= MaxPending /\ 0 <= TunnelCapacity
    BY SessionAssumption
  <2>2. Cardinality({}) = 0
    BY FS_EmptySet
  <2>3. /\ \A x \in Sides : wire[x] = <<>> /\ pending[x] = {}
        /\ \A t \in Tasks : inbox[t] = <<>>
    BY <1>2 DEF Init
  <2>4. Len(<<>>) = 0
    OBVIOUS
  <2> QED BY <2>1, <2>2, <2>3, <2>4 DEF Bounded
<1> QED BY <1>1, <1>2, NextBounded, Invariant, PTL DEF Spec
====
